-------------------------- MODULE ToyfsFileProofs ---------------------------
(***************************************************************************)
(* Proofs about ToyfsFile, for any number of files, pages, blocks and      *)
(* bytes per page, any number of references per page and any calls; where  *)
(* truncate is one of them, for one thread (TruncUse).                     *)
(***************************************************************************)
EXTENDS ToyfsFile, FiniteSetTheorems, WellFoundedInduction, TLAPS

-----------------------------------------------------------------------------
(* Arithmetic of offsets and pages.                                        *)

(* Products keep the order.                                                *)
LEMMA TimesMono ==
  ASSUME NEW x \in Nat, NEW y \in Nat, NEW z \in Nat, x <= y
  PROVE  x * z <= y * z
  <1>1. PICK d \in Nat : y = x + d
    BY y - x \in Nat
  <1>2. (x + d) * z = x * z + d * z /\ d * z >= 0
    OBVIOUS
  <1>3. QED
    BY <1>1, <1>2

(* Division with a remainder ...                                           *)
LEMMA DivModInt ==
  ASSUME NEW a \in Int, NEW n \in Int, n > 0
  PROVE  a = n * (a \div n) + (a % n)
  BY SMT

(* The same for natural numbers.                                           *)
LEMMA DivMod ==
  ASSUME NEW a \in Nat, NEW n \in Nat \ {0}
  PROVE  /\ a \div n \in Nat /\ a % n \in 0 .. n - 1
         /\ a = (a \div n) * n + (a % n)
  <1>1. a \in Int /\ n \in Int /\ n > 0
    OBVIOUS
  <1>2. a = n * (a \div n) + (a % n)
    BY <1>1, DivModInt
  <1>3. a \div n \in Int /\ a \div n >= 0
    OBVIOUS
  <1>4. a % n \in 0 .. n - 1
    OBVIOUS
  <1>5. (a \div n) * n = n * (a \div n)
    BY <1>3
  <1>6. QED
    BY <1>2, <1>3, <1>4, <1>5

(* ... is unique.                                                          *)
LEMMA DivUniqueInt ==
  ASSUME NEW a \in Int, NEW n \in Int, n > 0, NEW q \in Int, NEW r \in Int,
         a = n * q + r, 0 <= r, r < n
  PROVE  a \div n = q /\ a % n = r
  BY SMT

(* The same for natural numbers.                                           *)
LEMMA DivUnique ==
  ASSUME NEW a \in Nat, NEW n \in Nat \ {0}, NEW q \in Nat, NEW r \in 0 .. n - 1,
         a = q * n + r
  PROVE  a \div n = q /\ a % n = r
  <1>1. /\ a \in Int /\ n \in Int /\ n > 0 /\ q \in Int /\ r \in Int /\ 0 <= r /\ r < n
    OBVIOUS
  <1>2. a = n * q + r
    OBVIOUS
  <1>3. QED
    BY <1>1, <1>2, DivUniqueInt

(* Another whole page of references.                                       *)
LEMMA DivNext ==
  ASSUME NEW a \in Nat, NEW n \in Nat \ {0}, a % n = 0
  PROVE  (a + n) % n = 0 /\ (a + n) \div n = a \div n + 1
  <1> DEFINE q == a \div n
             b == a + n
  <1>1. q \in Nat /\ a = q * n
    BY DivMod
  <1> HIDE DEF q
  <1>2. b \in Nat /\ q + 1 \in Nat /\ b = (q + 1) * n + 0 /\ 0 \in 0 .. n - 1
    BY <1>1
  <1> HIDE DEF b
  <1>3. b \div n = q + 1 /\ b % n = 0
    BY <1>2, DivUnique
  <1>4. QED
    BY <1>3 DEF q, b

(* Offsets and pages.                                                      *)
LEMMA PageFacts ==
  ASSUME NEW off \in Nat
  PROVE  /\ Page(off) \in Nat /\ off % PageSize \in 0 .. PageSize - 1
         /\ off = Page(off) * PageSize + (off % PageSize)
         /\ NextPage(off) \in Nat /\ off < NextPage(off)
         /\ NextPage(off) = Page(off) * PageSize + PageSize
         /\ Page(NextPage(off)) = Page(off) + 1 /\ NextPage(off) % PageSize = 0
         /\ Page(off + PageSize) = Page(off) + 1
         /\ (off + PageSize) % PageSize = off % PageSize
  <1> DEFINE n == PageSize
             q == off \div n
             r == off % n
  <1>1. n \in Nat \ {0}
    BY ConstantsAssumption
  <1>2. q \in Nat /\ r \in 0 .. n - 1 /\ off = q * n + r
    BY <1>1, DivMod
  <1> HIDE DEF n, q, r
  <1>3. q * n \in Nat /\ (q + 1) * n \in Nat /\ (q + 1) * n = q * n + n
    BY <1>1, <1>2
  <1>4. off < (q + 1) * n /\ off + n = (q + 1) * n + r
    BY <1>1, <1>2, <1>3
  <1>5. ((q + 1) * n) \div n = q + 1 /\ ((q + 1) * n) % n = 0
    BY <1>1, <1>2, <1>3, DivUnique
  <1>6. (off + n) \div n = q + 1 /\ (off + n) % n = r
    BY <1>1, <1>2, <1>4, DivUnique
  <1>7. QED
    BY <1>2, <1>3, <1>4, <1>5, <1>6 DEF Page, NextPage, n, q, r

(* The offset at which a page starts.                                      *)
LEMMA PageOfStart ==
  ASSUME NEW p \in Nat
  PROVE  p * PageSize \in Nat /\ Page(p * PageSize) = p /\ (p * PageSize) % PageSize = 0
  <1>1. PageSize \in Nat \ {0}
    BY ConstantsAssumption
  <1>2. p * PageSize \in Nat /\ p * PageSize = p * PageSize + 0
    BY <1>1
  <1>3. QED
    BY <1>1, <1>2, DivUnique DEF Page

(* The page of a larger offset is not smaller.                             *)
LEMMA PageMono ==
  ASSUME NEW a \in Nat, NEW b \in Nat, a <= b
  PROVE  Page(a) <= Page(b)
  <1> SUFFICES ASSUME Page(b) < Page(a) PROVE FALSE
    BY PageFacts
  <1> DEFINE n == PageSize
             p == Page(a)
             q == Page(b)
  <1>1. n \in Nat \ {0} /\ p \in Nat /\ q \in Nat
    BY ConstantsAssumption, PageFacts
  <1>2. /\ a % n \in Nat /\ b % n \in 0 .. n - 1
        /\ a = p * n + (a % n) /\ b = q * n + (b % n)
    BY PageFacts
  <1>3. q + 1 <= p
    BY <1>1
  <1> HIDE DEF n, p, q
  <1>4. (q + 1) * n <= p * n
    BY <1>1, <1>3, TimesMono
  <1>5. (q + 1) * n = q * n + n /\ q * n \in Nat /\ p * n \in Nat
    BY <1>1
  <1>6. QED
    BY <1>1, <1>2, <1>4, <1>5

(* An offset before the largest lies in a page of the file, and the next   *)
(* page starts at the largest offset or before.                            *)
LEMMA PageInFile ==
  ASSUME NEW off \in Nat
  PROVE  /\ MaxOff \in Nat
         /\ off < MaxOff => Page(off) \in FilePages /\ NextPage(off) <= MaxOff
         /\ off = MaxOff => Page(off) = NPages
         /\ off <= MaxOff => Page(off) <= NPages
  <1>1. /\ PageSize \in Nat \ {0} /\ NPages \in Nat \ {0}
        /\ MaxOff = NPages * PageSize /\ MaxOff \in Nat
    BY ConstantsAssumption DEF MaxOff
  <1>2. Page(MaxOff) = NPages
    BY <1>1, PageOfStart
  <1>3. /\ Page(off) \in Nat /\ off % PageSize \in Nat
        /\ off = Page(off) * PageSize + (off % PageSize)
        /\ NextPage(off) = (Page(off) + 1) * PageSize
    BY PageFacts DEF NextPage
  <1>4. ASSUME off < MaxOff
        PROVE  Page(off) \in FilePages /\ NextPage(off) <= MaxOff
    <2>1. Page(off) < NPages
      <3> SUFFICES ASSUME NPages <= Page(off) PROVE FALSE
        BY <1>1, <1>3
      <3>1. NPages * PageSize <= Page(off) * PageSize
        BY <1>1, <1>3, TimesMono
      <3>2. Page(off) * PageSize \in Nat
        BY <1>1, <1>3
      <3>3. QED
        BY <1>1, <1>3, <1>4, <3>1, <3>2
    <2>2. (Page(off) + 1) * PageSize <= NPages * PageSize
      BY <1>1, <1>3, <2>1, TimesMono
    <2>3. QED
      BY <1>1, <1>3, <2>1, <2>2 DEF FilePages
  <1>5. off <= MaxOff => Page(off) <= NPages
    BY <1>1, <1>2, PageMono
  <1>6. QED
    BY <1>1, <1>2, <1>4, <1>5

(* From one page boundary to another.                                      *)
LEMMA AlignedFacts ==
  ASSUME NEW a \in Nat, NEW b \in Nat, Aligned(a), Aligned(b), a <= b
  PROVE  /\ a = Page(a) * PageSize
         /\ b - a \in Nat /\ Page(b - a) = Page(b) - Page(a)
         /\ a < b => NextPage(a) <= b /\ Page(a) < Page(b)
  <1> DEFINE n == PageSize
             p == Page(a)
             q == Page(b)
  <1>1. n \in Nat \ {0} /\ p \in Nat /\ q \in Nat
    BY ConstantsAssumption, PageFacts
  <1>2. a = p * n + 0 /\ b = q * n + 0
    BY PageFacts DEF Aligned
  <1>3. p <= q
    BY PageMono
  <1>4. q - p \in Nat /\ b - a \in Nat
    BY <1>1, <1>3
  <1>5. NextPage(a) = (p + 1) * n
    BY DEF NextPage
  <1>6. Page(b - a) = (b - a) \div n
    BY DEF Page
  <1> HIDE DEF n, p, q
  <1>7. b - a = (q - p) * n + 0
    <2>1. (q - p) * n = q * n - p * n
      BY <1>1
    <2>2. p * n \in Nat /\ q * n \in Nat
      BY <1>1
    <2>3. QED
      BY <1>2, <2>1, <2>2
  <1>8. (b - a) \div n = q - p
    BY <1>1, <1>4, <1>7, DivUnique
  <1>9. ASSUME a < b PROVE NextPage(a) <= b /\ p < q
    <2>1. p # q
      BY <1>2, <1>9
    <2>2. p + 1 <= q
      BY <1>1, <1>3, <2>1
    <2>3. (p + 1) * n <= q * n
      BY <1>1, <2>2, TimesMono
    <2>4. q * n \in Nat
      BY <1>1
    <2>5. QED
      BY <1>1, <1>2, <1>5, <2>2, <2>3, <2>4
  <1>10. QED
    BY <1>1, <1>2, <1>4, <1>6, <1>8, <1>9 DEF n, p, q
-----------------------------------------------------------------------------
(* The pool and the reference counts.                                      *)

Mems == [pages : SUBSET Blocks, bfree : Nat, free : [{"d", "i"} -> Nat],
         refcnt : [Blocks -> Nat], data : [Blocks -> [0 .. PageSize - 1 -> Bytes]]]

Used(m) == {b \in Blocks : m.refcnt[b] > 0}

(* Where the pages of the device are: np in the pool, nu blocks in use,    *)
(* the others cut into dblkrefs, fd of them free, and into iblkrefs, ni in *)
(* use and fi free.                                                        *)
Balanced(np, nu, fd, ni, fi) ==
  /\ (fd + nu) % Per["d"] = 0
  /\ (fi + ni) % Per["i"] = 0
  /\ NBlocks = np + nu + ((fd + nu) \div Per["d"]) + ((fi + ni) \div Per["i"])

(* A pool whose n iblkrefs are in use.                                     *)
PoolOk(m, n) ==
  /\ m \in Mems
  /\ m.pages \cap Used(m) = {}
  /\ Balanced(Cardinality(m.pages), Cardinality(Used(m)), m.free["d"], n, m.free["i"])
  /\ m.bfree + Cardinality(Used(m)) = NBlocks + 1

(* Blocks that stay in use keep their bytes.                               *)
Kept(m, r) ==
  \A b \in Blocks : m.refcnt[b] > 0 /\ r.refcnt[b] > 0 => r.data[b] = m.data[b]

(* There is a smallest page, and a smallest block.                         *)
LEMMA SmallestNat ==
  ASSUME NEW T \in SUBSET Nat, T # {}
  PROVE  \E j \in T : \A k \in T : j <= k
  <1> DEFINE R == OpToRel(<, Nat)
  <1>1. IsWellFoundedOn(R, Nat)
    BY NatLessThanWellFounded
  <1> HIDE DEF R
  <1>2. PICK j \in T : \A k \in T : ~(<<k, j>> \in R)
    BY <1>1, WFMin
  <1>3. \A k \in T : ~(k < j)
    BY <1>2 DEF R, OpToRel
  <1>4. QED
    BY <1>3

(* First is the smallest page of a set.                                    *)
LEMMA FirstFacts ==
  ASSUME NEW S \in SUBSET Nat, S # {}
  PROVE  First(S) \in S /\ \A p \in S : First(S) <= p
  BY SmallestNat DEF First

(* The page that is popped is in the pool.                                 *)
LEMMA TopFacts ==
  ASSUME NEW m, m.pages \in SUBSET Blocks, m.pages # {}
  PROVE  Top(m) \in m.pages
  BY SmallestNat DEF Top, Blocks

(* Sets of blocks are finite.                                              *)
LEMMA BlocksFinite ==
  ASSUME NEW S \in SUBSET Blocks
  PROVE  /\ IsFiniteSet(S) /\ Cardinality(S) \in Nat
         /\ Cardinality(S) = 0 <=> S = {}
         /\ \A b \in Blocks : /\ b \in S => Cardinality(S \ {b}) = Cardinality(S) - 1
                              /\ b \notin S => Cardinality(S \cup {b}) = Cardinality(S) + 1
  <1>1. IsFiniteSet(Blocks)
    BY FS_Interval, ConstantsAssumption DEF Blocks
  <1>2. IsFiniteSet(S)
    BY <1>1, FS_Subset
  <1>3. QED
    BY <1>2, FS_CardinalityType, FS_EmptySet, FS_AddElement, FS_RemoveElement

(* A data block comes and goes with its dblkref.                           *)
LEMMA BalancedData ==
  ASSUME NEW np \in Nat, NEW nu \in Nat, NEW fd \in Nat, NEW ni \in Nat, NEW fi \in Nat,
         Balanced(np, nu, fd, ni, fi)
  PROVE  /\ fd > 0 => Balanced(np - 1, nu + 1, fd - 1, ni, fi)
         /\ fd = 0 => Balanced(np - 2, nu + 1, Per["d"] - 1, ni, fi)
         /\ nu > 0 => Balanced(np + 1, nu - 1, fd + 1, ni, fi)
  <1> DEFINE d == Per["d"]
             x == fd + nu
             q == x \div d
             k == (fi + ni) \div Per["i"]
  <1>1. d \in Nat \ {0} /\ x \in Nat
    BY ConstantsAssumption
  <1>2. x % d = 0 /\ NBlocks = np + nu + q + k /\ (fi + ni) % Per["i"] = 0
    BY DEF Balanced
  <1>3. q \in Nat /\ k \in Nat
    <2>1. Per["i"] \in Nat \ {0} /\ fi + ni \in Nat
      BY ConstantsAssumption
    <2>2. k \in Nat
      BY <2>1, DivMod
    <2>3. q \in Nat
      BY <1>1, DivMod
    <2>4. QED
      BY <2>2, <2>3
  <1>4. (x + d) % d = 0 /\ (x + d) \div d = q + 1
    BY <1>1, <1>2, DivNext
  <1>5. ASSUME fd > 0 PROVE Balanced(np - 1, nu + 1, fd - 1, ni, fi)
    <2>1. fd - 1 + (nu + 1) = x
      OBVIOUS
    <2>2. np - 1 + (nu + 1) = np + nu
      OBVIOUS
    <2>3. QED
      BY <1>2, <2>1, <2>2 DEF Balanced
  <1>6. ASSUME fd = 0 PROVE Balanced(np - 2, nu + 1, d - 1, ni, fi)
    <2>1. d - 1 + (nu + 1) = x + d
      BY <1>1, <1>6
    <2> HIDE DEF x, q, k, d
    <2>2. NBlocks = np - 2 + (nu + 1) + (q + 1) + k
      BY <1>2, <1>3
    <2>3. QED
      BY <1>2, <1>4, <2>1, <2>2 DEF Balanced, k, d
  <1>7. ASSUME nu > 0 PROVE Balanced(np + 1, nu - 1, fd + 1, ni, fi)
    <2>1. fd + 1 + (nu - 1) = x
      OBVIOUS
    <2>2. np + 1 + (nu - 1) = np + nu
      OBVIOUS
    <2>3. QED
      BY <1>2, <2>1, <2>2 DEF Balanced
  <1>8. QED
    BY <1>5, <1>6, <1>7

(* An iblkref comes and goes.                                              *)
LEMMA BalancedIblkref ==
  ASSUME NEW np \in Nat, NEW nu \in Nat, NEW fd \in Nat, NEW ni \in Nat, NEW fi \in Nat,
         Balanced(np, nu, fd, ni, fi)
  PROVE  /\ fi > 0 => Balanced(np, nu, fd, ni + 1, fi - 1)
         /\ fi = 0 => Balanced(np - 1, nu, fd, ni + 1, Per["i"] - 1)
         /\ ni > 0 => Balanced(np, nu, fd, ni - 1, fi + 1)
  <1> DEFINE d == Per["i"]
             x == fi + ni
             q == x \div d
             k == (fd + nu) \div Per["d"]
  <1>1. d \in Nat \ {0} /\ x \in Nat
    BY ConstantsAssumption
  <1>2. x % d = 0 /\ NBlocks = np + nu + k + q /\ (fd + nu) % Per["d"] = 0
    BY DEF Balanced
  <1>3. q \in Nat /\ k \in Nat
    <2>1. Per["d"] \in Nat \ {0} /\ fd + nu \in Nat
      BY ConstantsAssumption
    <2>2. k \in Nat
      BY <2>1, DivMod
    <2>3. q \in Nat
      BY <1>1, DivMod
    <2>4. QED
      BY <2>2, <2>3
  <1>4. (x + d) % d = 0 /\ (x + d) \div d = q + 1
    BY <1>1, <1>2, DivNext
  <1>5. ASSUME fi > 0 PROVE Balanced(np, nu, fd, ni + 1, fi - 1)
    <2>1. fi - 1 + (ni + 1) = x
      OBVIOUS
    <2>2. QED
      BY <1>2, <2>1 DEF Balanced
  <1>6. ASSUME fi = 0 PROVE Balanced(np - 1, nu, fd, ni + 1, d - 1)
    <2>1. d - 1 + (ni + 1) = x + d
      BY <1>1, <1>6
    <2> HIDE DEF x, q, k, d
    <2>2. NBlocks = np - 1 + nu + k + (q + 1)
      BY <1>2, <1>3
    <2>3. QED
      BY <1>2, <1>4, <2>1, <2>2 DEF Balanced, k, d
  <1>7. ASSUME ni > 0 PROVE Balanced(np, nu, fd, ni - 1, fi + 1)
    <2>1. fi + 1 + (ni - 1) = x
      OBVIOUS
    <2>2. QED
      BY <1>2, <2>1 DEF Balanced
  <1>8. QED
    BY <1>5, <1>6, <1>7

(* What PoolOk says, in numbers.                                           *)
LEMMA PoolFacts ==
  ASSUME NEW m, NEW n \in Nat, PoolOk(m, n)
  PROVE  /\ m.pages \in SUBSET Blocks /\ m.bfree \in Nat
         /\ m.free \in [{"d", "i"} -> Nat] /\ m.free["d"] \in Nat /\ m.free["i"] \in Nat
         /\ m.refcnt \in [Blocks -> Nat]
         /\ m.data \in [Blocks -> [0 .. PageSize - 1 -> Bytes]]
         /\ \A b \in m.pages : m.refcnt[b] = 0
         /\ Used(m) \in SUBSET Blocks
         /\ Cardinality(m.pages) \in Nat /\ Cardinality(Used(m)) \in Nat
  <1>1. /\ m.pages \in SUBSET Blocks /\ m.bfree \in Nat
        /\ m.free \in [{"d", "i"} -> Nat] /\ m.free["d"] \in Nat /\ m.free["i"] \in Nat
        /\ m.refcnt \in [Blocks -> Nat]
        /\ m.data \in [Blocks -> [0 .. PageSize - 1 -> Bytes]]
    BY DEF PoolOk, Mems
  <1>2. \A b \in m.pages : m.refcnt[b] = 0
    BY <1>1 DEF PoolOk, Used
  <1>3. Used(m) \in SUBSET Blocks
    BY DEF Used
  <1>4. QED
    BY <1>1, <1>2, <1>3, BlocksFinite

(* A record of the fields of a pool.                                       *)
LEMMA PoolBuild ==
  ASSUME NEW r \in Mems, NEW n \in Nat, NEW u,
         u = Cardinality(Used(r)), \A b \in r.pages : r.refcnt[b] = 0,
         Balanced(Cardinality(r.pages), u, r.free["d"], n, r.free["i"]),
         r.bfree + u = NBlocks + 1
  PROVE  PoolOk(r, n)
  <1>1. r.pages \cap Used(r) = {}
    BY DEF Used
  <1>2. QED
    BY <1>1 DEF PoolOk

(* Other bytes or other counts, of the same blocks.                        *)
LEMMA PoolSame ==
  ASSUME NEW m, NEW n \in Nat, PoolOk(m, n), NEW r \in Mems,
         r.pages = m.pages, r.bfree = m.bfree, r.free = m.free, Used(r) = Used(m)
  PROVE  PoolOk(r, n)
  BY DEF PoolOk

(* An iblkref.                                                             *)
LEMMA AcquireIblkref ==
  ASSUME NEW m, NEW n \in Nat, PoolOk(m, n), CanAcquire(m, "i")
  PROVE  /\ PoolOk(AcquireRef(m, "i"), n + 1)
         /\ AcquireRef(m, "i").refcnt = m.refcnt /\ AcquireRef(m, "i").data = m.data
  <1> DEFINE r == AcquireRef(m, "i")
             np == Cardinality(m.pages)
             nu == Cardinality(Used(m))
  <1>1. /\ m \in Mems /\ m.pages \in SUBSET Blocks /\ m.free["i"] \in Nat
        /\ m.free["d"] \in Nat /\ np \in Nat /\ nu \in Nat
        /\ \A b \in m.pages : m.refcnt[b] = 0
    BY PoolFacts DEF PoolOk
  <1>2. Balanced(np, nu, m.free["d"], n, m.free["i"]) /\ m.bfree + nu = NBlocks + 1
    BY DEF PoolOk
  <1>3. CASE m.free["i"] > 0
    <2>1. r = [m EXCEPT !.free["i"] = @ - 1]
      BY <1>3 DEF AcquireRef
    <2>2. /\ r.pages = m.pages /\ r.bfree = m.bfree /\ r.refcnt = m.refcnt
          /\ r.data = m.data /\ r.free = [m.free EXCEPT !["i"] = m.free["i"] - 1]
      BY <1>1, <2>1 DEF Mems
    <2>3. r \in Mems
      BY <1>1, <1>3, <2>1 DEF Mems
    <2>4. r.free["d"] = m.free["d"] /\ r.free["i"] = m.free["i"] - 1
      BY <1>1, <2>2 DEF Mems
    <2>5. Balanced(np, nu, m.free["d"], n + 1, m.free["i"] - 1)
      BY <1>1, <1>2, <1>3, BalancedIblkref
    <2>6. Used(r) = Used(m)
      BY <2>2 DEF Used
    <2> HIDE DEF r
    <2>7. PoolOk(r, n + 1)
      BY <1>1, <1>2, <2>2, <2>3, <2>4, <2>5, <2>6 DEF PoolOk
    <2>8. QED
      BY <2>2, <2>7 DEF r
  <1>4. CASE ~(m.free["i"] > 0)
    <2>1. r = [m EXCEPT !.pages = @ \ {Top(m)}, !.free["i"] = Per["i"] - 1]
      BY <1>4 DEF AcquireRef
    <2>2. m.free["i"] = 0 /\ m.pages # {} /\ Top(m) \in m.pages
      BY <1>1, <1>4, TopFacts DEF CanAcquire
    <2>3. /\ r.pages = m.pages \ {Top(m)} /\ r.bfree = m.bfree /\ r.refcnt = m.refcnt
          /\ r.data = m.data /\ r.free = [m.free EXCEPT !["i"] = Per["i"] - 1]
      BY <1>1, <2>1 DEF Mems
    <2>4. r \in Mems
      <3>1. Per["i"] - 1 \in Nat
        BY ConstantsAssumption
      <3>2. [m.free EXCEPT !["i"] = Per["i"] - 1] \in [{"d", "i"} -> Nat]
        BY <1>1, <3>1 DEF Mems
      <3>3. m.pages \ {Top(m)} \in SUBSET Blocks
        BY <1>1
      <3>4. r = [m EXCEPT !.pages = m.pages \ {Top(m)},
                          !.free = [m.free EXCEPT !["i"] = Per["i"] - 1]]
        BY <1>1, <2>1 DEF Mems
      <3> HIDE DEF r
      <3>5. QED
        BY <1>1, <3>2, <3>3, <3>4 DEF Mems
    <2>5. r.free["d"] = m.free["d"] /\ r.free["i"] = Per["i"] - 1
      BY <1>1, <2>3 DEF Mems
    <2>6. Cardinality(r.pages) = np - 1
      BY <1>1, <2>2, <2>3, BlocksFinite
    <2>7. Balanced(np - 1, nu, m.free["d"], n + 1, Per["i"] - 1)
      BY <1>1, <1>2, <2>2, BalancedIblkref
    <2>8. Used(r) = Used(m)
      BY <2>3 DEF Used
    <2> HIDE DEF r
    <2>9. PoolOk(r, n + 1)
      BY <1>1, <1>2, <2>3, <2>4, <2>5, <2>6, <2>7, <2>8 DEF PoolOk
    <2>10. QED
      BY <2>3, <2>9 DEF r
  <1>5. QED
    BY <1>3, <1>4

(* An iblkref that is given back.                                          *)
LEMMA ReleaseIblkref ==
  ASSUME NEW m, NEW n \in Nat, PoolOk(m, n), n > 0
  PROVE  /\ PoolOk(ReleaseRef(m, "i"), n - 1)
         /\ ReleaseRef(m, "i").refcnt = m.refcnt /\ ReleaseRef(m, "i").data = m.data
  <1> DEFINE r == ReleaseRef(m, "i")
             np == Cardinality(m.pages)
             nu == Cardinality(Used(m))
  <1>1. /\ m \in Mems /\ m.pages \in SUBSET Blocks /\ m.free["i"] \in Nat
        /\ m.free["d"] \in Nat /\ np \in Nat /\ nu \in Nat
        /\ \A b \in m.pages : m.refcnt[b] = 0
    BY PoolFacts DEF PoolOk
  <1>2. Balanced(np, nu, m.free["d"], n, m.free["i"]) /\ m.bfree + nu = NBlocks + 1
    BY DEF PoolOk
  <1>3. /\ r.pages = m.pages /\ r.bfree = m.bfree /\ r.refcnt = m.refcnt
        /\ r.data = m.data /\ r.free = [m.free EXCEPT !["i"] = m.free["i"] + 1]
    BY <1>1 DEF Mems, ReleaseRef
  <1>4. r \in Mems
    BY <1>1, SMTT(20) DEF Mems, ReleaseRef
  <1>5. r.free["d"] = m.free["d"] /\ r.free["i"] = m.free["i"] + 1
    BY <1>1, <1>3 DEF Mems
  <1>6. Balanced(np, nu, m.free["d"], n - 1, m.free["i"] + 1)
    BY <1>1, <1>2, BalancedIblkref
  <1>7. Used(r) = Used(m)
    BY <1>3 DEF Used
  <1> HIDE DEF r
  <1>8. PoolOk(r, n - 1)
    BY <1>1, <1>2, <1>3, <1>4, <1>5, <1>6, <1>7 DEF PoolOk
  <1>9. QED
    BY <1>3, <1>8 DEF r

(* The page of a new block.                                                *)
LEMMA AcquirePmembFields ==
  ASSUME NEW m \in Mems, m.pages # {}, m.bfree # 0
  PROVE  /\ AcquirePmemb(m) \in Mems
         /\ AcquirePmemb(m).pages = m.pages \ {Top(m)}
         /\ AcquirePmemb(m).bfree = m.bfree - 1
         /\ AcquirePmemb(m).free = m.free
         /\ AcquirePmemb(m).refcnt = m.refcnt
         /\ AcquirePmemb(m).data = [m.data EXCEPT ![Top(m)] = Zeros]
  <1> DEFINE b == Top(m)
  <1>1. /\ m.pages \in SUBSET Blocks /\ m.bfree \in Nat
        /\ m.data \in [Blocks -> [0 .. PageSize - 1 -> Bytes]]
    BY DEF Mems
  <1>2. b \in m.pages /\ b \in Blocks
    BY <1>1, TopFacts
  <1> HIDE DEF b
  <1>3. m.pages \ {b} \in SUBSET Blocks /\ m.bfree - 1 \in Nat
    BY <1>1
  <1>4. [m.data EXCEPT ![b] = Zeros] \in [Blocks -> [0 .. PageSize - 1 -> Bytes]]
    BY <1>1, <1>2 DEF Zeros, Bytes
  <1>5. AcquirePmemb(m) = [m EXCEPT !.pages = m.pages \ {b}, !.bfree = m.bfree - 1,
                                    !.data = [m.data EXCEPT ![b] = Zeros]]
    BY DEF Mems, AcquirePmemb, b
  <1>6. QED
    BY <1>3, <1>4, <1>5 DEF Mems, b

(* The page of a block that is freed.                                      *)
LEMMA ReleasePmembFields ==
  ASSUME NEW m \in Mems, NEW b \in Blocks
  PROVE  /\ ReleasePmemb(m, b) \in Mems
         /\ ReleasePmemb(m, b).pages = m.pages \cup {b}
         /\ ReleasePmemb(m, b).bfree = m.bfree + 1
         /\ ReleasePmemb(m, b).free = m.free
         /\ ReleasePmemb(m, b).refcnt = m.refcnt
         /\ ReleasePmemb(m, b).data = [m.data EXCEPT ![b] = Zeros]
  <1>1. /\ m.pages \in SUBSET Blocks /\ m.bfree \in Nat
        /\ m.data \in [Blocks -> [0 .. PageSize - 1 -> Bytes]]
    BY DEF Mems
  <1>2. m.pages \cup {b} \in SUBSET Blocks /\ m.bfree + 1 \in Nat
    BY <1>1
  <1>3. [m.data EXCEPT ![b] = Zeros] \in [Blocks -> [0 .. PageSize - 1 -> Bytes]]
    BY <1>1 DEF Zeros, Bytes
  <1>4. ReleasePmemb(m, b) = [m EXCEPT !.pages = m.pages \cup {b}, !.bfree = m.bfree + 1,
                                       !.data = [m.data EXCEPT ![b] = Zeros]]
    BY DEF Mems, ReleasePmemb
  <1>5. QED
    BY <1>2, <1>3, <1>4 DEF Mems

(* Its dblkref, with a count of one.                                       *)
WithDblkref(m, b) == [AcquireRef(m, "d") EXCEPT !.refcnt[b] = 1]

(* What the dblkref takes from the pool.                                   *)
LEMMA AcquireDblkrefFields ==
  ASSUME NEW m \in Mems, NEW b \in Blocks, CanAcquire(m, "d"),
         NEW r, r = WithDblkref(m, b)
  PROVE  /\ r \in Mems
         /\ r.bfree = m.bfree /\ r.refcnt = [m.refcnt EXCEPT ![b] = 1] /\ r.data = m.data
         /\ r.free["i"] = m.free["i"]
         /\ m.free["d"] > 0 => r.pages = m.pages /\ r.free["d"] = m.free["d"] - 1
         /\ m.free["d"] = 0 => /\ Top(m) \in m.pages /\ r.pages = m.pages \ {Top(m)}
                               /\ r.free["d"] = Per["d"] - 1
  <1>1. /\ m.pages \in SUBSET Blocks /\ m.free \in [{"d", "i"} -> Nat]
        /\ m.refcnt \in [Blocks -> Nat] /\ m.free["d"] \in Nat
    BY DEF Mems
  <1>2. [m.refcnt EXCEPT ![b] = 1] \in [Blocks -> Nat]
    BY <1>1
  <1>3. CASE m.free["d"] > 0
    <2> DEFINE f == [m.free EXCEPT !["d"] = m.free["d"] - 1]
    <2>1. f \in [{"d", "i"} -> Nat] /\ f["i"] = m.free["i"] /\ f["d"] = m.free["d"] - 1
      BY <1>1, <1>3
    <2>2. AcquireRef(m, "d") = [m EXCEPT !.free = f]
      BY <1>3 DEF AcquireRef, Mems
    <2> HIDE DEF f
    <2>3. r = [m EXCEPT !.free = f, !.refcnt = [m.refcnt EXCEPT ![b] = 1]]
      BY <2>2 DEF Mems, WithDblkref
    <2>4. r \in Mems
      BY <1>2, <2>1, <2>3 DEF Mems
    <2>5. /\ r.bfree = m.bfree /\ r.refcnt = [m.refcnt EXCEPT ![b] = 1] /\ r.data = m.data
          /\ r.free = f /\ r.pages = m.pages
      BY <2>3 DEF Mems
    <2>6. QED
      BY <1>1, <1>3, <2>1, <2>4, <2>5
  <1>4. CASE m.free["d"] = 0
    <2> DEFINE f == [m.free EXCEPT !["d"] = Per["d"] - 1]
               p == m.pages \ {Top(m)}
    <2>1. m.pages # {} /\ Top(m) \in m.pages
      BY <1>1, <1>4, TopFacts DEF CanAcquire
    <2>2. Per["d"] - 1 \in Nat
      BY ConstantsAssumption
    <2>3. f \in [{"d", "i"} -> Nat] /\ f["i"] = m.free["i"] /\ f["d"] = Per["d"] - 1
      BY <1>1, <2>2
    <2>4. AcquireRef(m, "d") = [m EXCEPT !.pages = p, !.free = f]
      BY <1>4 DEF AcquireRef, Mems
    <2>5. p \in SUBSET Blocks
      BY <1>1
    <2> HIDE DEF f, p
    <2>6. r = [m EXCEPT !.pages = p, !.free = f, !.refcnt = [m.refcnt EXCEPT ![b] = 1]]
      BY <2>4 DEF Mems, WithDblkref
    <2>7. r \in Mems
      BY <1>2, <2>3, <2>5, <2>6 DEF Mems
    <2>8. /\ r.bfree = m.bfree /\ r.refcnt = [m.refcnt EXCEPT ![b] = 1] /\ r.data = m.data
          /\ r.free = f /\ r.pages = p
      BY <2>6 DEF Mems
    <2>9. QED
      BY <1>4, <2>1, <2>3, <2>7, <2>8 DEF p
  <1>5. QED
    BY <1>1, <1>3, <1>4

(* _new_dblkref: a block that was in nobody's use, with zeros in it; or    *)
(* all is as before.                                                       *)
LEMMA NewDblkrefOk ==
  ASSUME NEW m, NEW n \in Nat, PoolOk(m, n), NEW r, r = NewDblkref(m)
  PROVE  /\ PoolOk(r.m, n) /\ Kept(m, r.m)
         /\ r = [b |-> r.b, m |-> r.m]
         /\ \/ r.b = NoBlock /\ r.m.refcnt = m.refcnt
            \/ /\ r.b \in Blocks /\ m.refcnt[r.b] = 0
               /\ r.m.refcnt = [m.refcnt EXCEPT ![r.b] = 1]
               /\ r.m.data[r.b] = Zeros
  <1> DEFINE np == Cardinality(m.pages)
             nu == Cardinality(Used(m))
  <1>1. /\ m \in Mems /\ m.pages \in SUBSET Blocks /\ m.bfree \in Nat
        /\ m.free["d"] \in Nat /\ m.free["i"] \in Nat
        /\ m.refcnt \in [Blocks -> Nat]
        /\ m.data \in [Blocks -> [0 .. PageSize - 1 -> Bytes]]
        /\ \A b \in m.pages : m.refcnt[b] = 0
        /\ Used(m) \in SUBSET Blocks /\ np \in Nat /\ nu \in Nat
    BY PoolFacts DEF PoolOk
  <1>2. Balanced(np, nu, m.free["d"], n, m.free["i"]) /\ m.bfree + nu = NBlocks + 1
    BY DEF PoolOk
  <1>3. CASE m.pages = {} \/ m.bfree = 0
    BY <1>3 DEF NewDblkref, NoSpace, Kept
  <1>4. CASE ~(m.pages = {} \/ m.bfree = 0)
    <2> DEFINE b == Top(m)
               k == AcquirePmemb(m)
    <2>1. b \in m.pages /\ b \in Blocks /\ m.refcnt[b] = 0
      BY <1>1, <1>4, TopFacts
    <2>2. /\ k \in Mems /\ k.pages = m.pages \ {b} /\ k.bfree = m.bfree - 1
          /\ k.free = m.free /\ k.refcnt = m.refcnt
          /\ k.data = [m.data EXCEPT ![b] = Zeros]
      BY <1>1, <1>4, AcquirePmembFields
    <2>3. Cardinality(k.pages) = np - 1
      BY <1>1, <2>1, <2>2, BlocksFinite
    <2>4. NoBlock \notin Blocks
      BY DEF NoBlock, Blocks
    <2>5. IF CanAcquire(k, "d")
          THEN r = [b |-> b, m |-> WithDblkref(k, b)]
          ELSE r = NoSpace(ReleasePmemb(k, b))
      BY <1>4 DEF NewDblkref, WithDblkref
    <2> HIDE DEF b, k
    <2>6. CASE ~CanAcquire(k, "d")
      <3>1. r = NoSpace(ReleasePmemb(k, b))
        BY <2>5, <2>6
      <3> DEFINE x == r.m
      <3>2. r.b = NoBlock /\ x = ReleasePmemb(k, b) /\ r = [b |-> r.b, m |-> x]
        BY <3>1 DEF NoSpace
      <3> HIDE DEF x
      <3>3. /\ x \in Mems /\ x.pages = k.pages \cup {b} /\ x.bfree = k.bfree + 1
            /\ x.free = k.free /\ x.refcnt = k.refcnt
            /\ x.data = [k.data EXCEPT ![b] = Zeros]
        BY <2>1, <2>2, <3>2, ReleasePmembFields
      <3>4. x.pages = m.pages /\ x.bfree = m.bfree /\ x.free = m.free /\ x.refcnt = m.refcnt
        BY <1>1, <2>1, <2>2, <3>3
      <3>5. Used(x) = Used(m)
        BY <3>4 DEF Used
      <3>6. PoolOk(x, n)
        BY <3>3, <3>4, <3>5, PoolSame
      <3>7. Kept(m, x)
        BY <1>1, <2>1, <2>2, <3>3 DEF Kept
      <3>8. QED
        BY <3>2, <3>4, <3>6, <3>7 DEF x
    <2>7. CASE CanAcquire(k, "d")
      <3> DEFINE x == r.m
      <3>1. /\ r = [b |-> b, m |-> x] /\ r.b = b
            /\ x = WithDblkref(k, b)
        BY <2>5, <2>7
      <3> HIDE DEF x
      <3>2. /\ x \in Mems /\ x.bfree = k.bfree /\ x.refcnt = [k.refcnt EXCEPT ![b] = 1]
            /\ x.data = k.data /\ x.free["i"] = k.free["i"]
            /\ k.free["d"] > 0 => x.pages = k.pages /\ x.free["d"] = k.free["d"] - 1
            /\ k.free["d"] = 0 => /\ Top(k) \in k.pages /\ x.pages = k.pages \ {Top(k)}
                                  /\ x.free["d"] = Per["d"] - 1
        <4>1. k \in Mems /\ b \in Blocks
          BY <2>1, <2>2
        <4>2. x = WithDblkref(k, b)
          BY <3>1
        <4>3. QED
          BY <2>7, <4>1, <4>2, AcquireDblkrefFields
      <3>3. Used(x) = Used(m) \cup {b} /\ b \notin Used(m)
        BY <1>1, <2>1, <2>2, <3>2 DEF Used
      <3>4. Cardinality(Used(x)) = nu + 1
        <4>1. b \in Blocks /\ Used(m) \in SUBSET Blocks
          BY <2>1 DEF Used
        <4>2. Cardinality(Used(m) \cup {b}) = Cardinality(Used(m)) + 1
          BY <3>3, <4>1, BlocksFinite
        <4>3. QED
          BY <3>3, <4>2
      <3>5. \A c \in x.pages : x.refcnt[c] = 0
        BY <1>1, <2>2, <3>2
      <3>6. x.bfree + (nu + 1) = NBlocks + 1
        <4>1. x.bfree = m.bfree - 1
          BY <2>2, <3>2
        <4>2. m.bfree \in Nat /\ nu \in Nat /\ m.bfree + nu = NBlocks + 1
          BY <1>1, <1>2
        <4> HIDE DEF nu
        <4>3. QED
          BY <4>1, <4>2
      <3>7. Balanced(Cardinality(x.pages), nu + 1, x.free["d"], n, x.free["i"])
        <4>1. CASE m.free["d"] > 0
          <5>1. Balanced(np - 1, nu + 1, m.free["d"] - 1, n, m.free["i"])
            BY <1>1, <1>2, <4>1, BalancedData
          <5>2. QED
            BY <2>2, <2>3, <3>2, <4>1, <5>1
        <4>2. CASE m.free["d"] = 0
          <5>1. Balanced(np - 2, nu + 1, Per["d"] - 1, n, m.free["i"])
            BY <1>1, <1>2, <4>2, BalancedData
          <5>2. k.pages \in SUBSET Blocks /\ Top(k) \in k.pages /\ x.pages = k.pages \ {Top(k)}
            BY <1>1, <2>2, <3>2, <4>2
          <5>3. Cardinality(x.pages) = np - 1 - 1
            BY <2>3, <5>2, BlocksFinite
          <5>4. np - 1 - 1 = np - 2
            BY <1>1
          <5>5. QED
            BY <2>2, <3>2, <4>2, <5>1, <5>3, <5>4
        <4>3. QED
          BY <1>1, <4>1, <4>2
      <3>8. PoolOk(x, n)
        BY <3>2, <3>4, <3>5, <3>6, <3>7, PoolBuild
      <3>9. x.refcnt = [m.refcnt EXCEPT ![b] = 1] /\ x.data[b] = Zeros
        BY <1>1, <2>1, <2>2, <3>2
      <3>10. Kept(m, x)
        BY <1>1, <2>1, <2>2, <3>2 DEF Kept
      <3>11. QED
        BY <2>1, <3>1, <3>8, <3>9, <3>10 DEF x
    <2>8. QED
      BY <2>6, <2>7
  <1>5. QED
    BY <1>3, <1>4

(* _decref_dblkref: the block goes back with its last reference.           *)
LEMMA DecrefOk ==
  ASSUME NEW m, NEW n \in Nat, PoolOk(m, n), NEW b \in Blocks, m.refcnt[b] > 0
  PROVE  /\ PoolOk(Decref(m, b), n) /\ Kept(m, Decref(m, b))
         /\ Decref(m, b).refcnt = [m.refcnt EXCEPT ![b] = m.refcnt[b] - 1]
  <1> DEFINE np == Cardinality(m.pages)
             nu == Cardinality(Used(m))
             k == [m EXCEPT !.refcnt[b] = @ - 1]
             c == [m.refcnt EXCEPT ![b] = m.refcnt[b] - 1]
             r == Decref(m, b)
  <1>1. /\ m \in Mems /\ m.pages \in SUBSET Blocks /\ m.bfree \in Nat
        /\ m.free \in [{"d", "i"} -> Nat] /\ m.free["d"] \in Nat /\ m.free["i"] \in Nat
        /\ m.refcnt \in [Blocks -> Nat]
        /\ m.data \in [Blocks -> [0 .. PageSize - 1 -> Bytes]]
        /\ \A x \in m.pages : m.refcnt[x] = 0
        /\ Used(m) \in SUBSET Blocks /\ np \in Nat /\ nu \in Nat
    BY PoolFacts DEF PoolOk
  <1>2. Balanced(np, nu, m.free["d"], n, m.free["i"]) /\ m.bfree + nu = NBlocks + 1
    BY DEF PoolOk
  <1>3. /\ c \in [Blocks -> Nat] /\ c[b] = m.refcnt[b] - 1
        /\ \A x \in Blocks \ {b} : c[x] = m.refcnt[x]
    BY <1>1
  <1>4. b \notin m.pages /\ b \in Used(m)
    BY <1>1 DEF Used
  <1>5. k = [m EXCEPT !.refcnt = c]
    BY <1>1 DEF Mems
  <1> HIDE DEF c
  <1>6. /\ k \in Mems /\ k.pages = m.pages /\ k.bfree = m.bfree /\ k.free = m.free
        /\ k.refcnt = c /\ k.data = m.data
    BY <1>1, <1>3, <1>5 DEF Mems
  <1>7. r = IF k.refcnt[b] = 0 THEN FreeDblkref(k, b) ELSE k
    BY DEF Decref
  <1> HIDE DEF k, r
  <1>8. CASE k.refcnt[b] # 0
    <2>1. r = k
      BY <1>7, <1>8
    <2>2. Used(k) = Used(m)
      <3>1. m.refcnt[b] \in Nat /\ c[b] # 0 /\ c[b] = m.refcnt[b] - 1
        BY <1>1, <1>3, <1>6, <1>8
      <3>2. c[b] > 0
        BY <3>1
      <3>3. \A x \in Blocks : c[x] > 0 <=> m.refcnt[x] > 0
        BY <1>3, <3>2
      <3>4. QED
        BY <1>6, <3>3 DEF Used
    <2>3. PoolOk(k, n)
      BY <1>6, <2>2, PoolSame
    <2>4. QED
      BY <1>6, <2>1, <2>3 DEF Kept, c, r
  <1>9. CASE k.refcnt[b] = 0
    <2> DEFINE x == ReleaseRef(k, "d")
               f == [m.free EXCEPT !["d"] = m.free["d"] + 1]
    <2>1. f \in [{"d", "i"} -> Nat] /\ f["i"] = m.free["i"] /\ f["d"] = m.free["d"] + 1
      BY <1>1
    <2>2. x = [k EXCEPT !.free = f]
      BY <1>6 DEF ReleaseRef, Mems
    <2> HIDE DEF f
    <2>3. /\ x \in Mems /\ x.pages = m.pages /\ x.bfree = m.bfree /\ x.free = f
          /\ x.refcnt = c /\ x.data = m.data
      BY <1>6, <2>1, <2>2 DEF Mems
    <2>4. r = ReleasePmemb(x, b)
      BY <1>7, <1>9 DEF FreeDblkref
    <2> HIDE DEF x
    <2>5. /\ r \in Mems /\ r.pages = m.pages \cup {b} /\ r.bfree = m.bfree + 1
          /\ r.free = f /\ r.refcnt = c /\ r.data = [m.data EXCEPT ![b] = Zeros]
      BY <2>3, <2>4, ReleasePmembFields
    <2>6. Used(r) = Used(m) \ {b}
      BY <1>1, <1>3, <1>6, <1>9, <2>5 DEF Used
    <2>7. Cardinality(Used(r)) = nu - 1 /\ nu > 0
      BY <1>1, <1>4, <2>6, BlocksFinite
    <2>8. Cardinality(r.pages) = np + 1
      <3>1. m.pages \in SUBSET Blocks /\ b \notin m.pages
        BY <1>1, <1>4
      <3>2. Cardinality(m.pages \cup {b}) = np + 1
        BY <3>1, BlocksFinite
      <3>3. QED
        BY <2>5, <3>2
    <2>9. \A y \in r.pages : r.refcnt[y] = 0
      BY <1>1, <1>3, <1>6, <1>9, <2>5
    <2>10. Balanced(np + 1, nu - 1, m.free["d"] + 1, n, m.free["i"])
      BY <1>1, <1>2, <2>7, BalancedData
    <2>11. r.bfree + (nu - 1) = NBlocks + 1
      <3>1. r.bfree = m.bfree + 1
        BY <2>5
      <3>2. m.bfree \in Nat /\ nu \in Nat /\ m.bfree + nu = NBlocks + 1
        BY <1>1, <1>2
      <3> HIDE DEF nu
      <3>3. QED
        BY <3>1, <3>2
    <2>12. PoolOk(r, n)
      <3>1. Balanced(Cardinality(r.pages), nu - 1, r.free["d"], n, r.free["i"])
        BY <2>1, <2>5, <2>8, <2>10
      <3>2. QED
        BY <2>5, <2>7, <2>9, <2>11, <3>1, PoolBuild
    <2>13. Kept(m, r)
      BY <1>1, <1>3, <1>6, <1>9, <2>5 DEF Kept
    <2>14. QED
      BY <2>5, <2>12, <2>13 DEF r, c
  <1>10. QED
    BY <1>8, <1>9

(* _new_iblkref                                                            *)
LEMMA NewIblkrefOk ==
  ASSUME NEW m, NEW n \in Nat, PoolOk(m, n), NEW r, r = NewIblkref(m)
  PROVE  /\ Kept(m, r.m)
         /\ \/ r.b = NoBlock /\ PoolOk(r.m, n) /\ r.m.refcnt = m.refcnt
            \/ /\ r.b \in Blocks /\ PoolOk(r.m, n + 1) /\ m.refcnt[r.b] = 0
               /\ r.m.refcnt = [m.refcnt EXCEPT ![r.b] = 1]
               /\ r.m.data[r.b] = Zeros
  <1> DEFINE k == NewDblkref(m)
  <1>1. /\ PoolOk(k.m, n) /\ Kept(m, k.m)
        /\ k = [b |-> k.b, m |-> k.m]
        /\ \/ k.b = NoBlock /\ k.m.refcnt = m.refcnt
           \/ /\ k.b \in Blocks /\ m.refcnt[k.b] = 0
              /\ k.m.refcnt = [m.refcnt EXCEPT ![k.b] = 1]
              /\ k.m.data[k.b] = Zeros
    BY NewDblkrefOk
  <1>2. r = IF k.b = NoBlock THEN k
            ELSE IF CanAcquire(k.m, "i") THEN [b |-> k.b, m |-> AcquireRef(k.m, "i")]
            ELSE NoSpace(Decref(k.m, k.b))
    BY DEF NewIblkref
  <1> HIDE DEF k
  <1>3. NoBlock \notin Blocks
    BY DEF NoBlock, Blocks
  <1>4. m.refcnt \in [Blocks -> Nat]
    BY PoolFacts
  <1>5. CASE k.b = NoBlock
    BY <1>1, <1>2, <1>3, <1>5
  <1>6. CASE k.b # NoBlock /\ CanAcquire(k.m, "i")
    <2>1. r.b = k.b /\ r.m = AcquireRef(k.m, "i")
      BY <1>2, <1>6
    <2>2. PoolOk(r.m, n + 1) /\ r.m.refcnt = k.m.refcnt /\ r.m.data = k.m.data
      BY <1>1, <1>6, <2>1, AcquireIblkref
    <2>3. Kept(m, r.m)
      BY <1>1, <2>2 DEF Kept
    <2>4. QED
      BY <1>1, <1>6, <2>1, <2>2, <2>3
  <1>7. CASE k.b # NoBlock /\ ~CanAcquire(k.m, "i")
    <2>1. r.b = NoBlock /\ r.m = Decref(k.m, k.b)
      BY <1>2, <1>7 DEF NoSpace
    <2>2. k.b \in Blocks /\ m.refcnt[k.b] = 0 /\ k.m.refcnt = [m.refcnt EXCEPT ![k.b] = 1]
      BY <1>1, <1>7
    <2>3. k.m.refcnt[k.b] = 1
      BY <1>4, <2>2
    <2>4. /\ PoolOk(r.m, n) /\ Kept(k.m, r.m)
          /\ r.m.refcnt = [k.m.refcnt EXCEPT ![k.b] = k.m.refcnt[k.b] - 1]
      BY <1>1, <2>1, <2>2, <2>3, DecrefOk
    <2>5. r.m.refcnt = m.refcnt
      BY <1>4, <2>2, <2>3, <2>4
    <2>6. Kept(m, r.m)
      BY <1>1, <1>4, <2>2, <2>4, <2>5 DEF Kept
    <2>7. QED
      BY <2>1, <2>4, <2>5, <2>6
  <1>8. QED
    BY <1>5, <1>6, <1>7

(* A block that is copied.                                                 *)
LEMMA CopyOk ==
  ASSUME NEW m, NEW n \in Nat, PoolOk(m, n), NEW b \in Blocks, m.refcnt[b] > 0,
         NEW r, r = Copy(m, b)
  PROVE  /\ PoolOk(r.m, n) /\ Kept(m, r.m)
         /\ \/ r.b = NoBlock /\ r.m.refcnt = m.refcnt
            \/ /\ r.b \in Blocks /\ m.refcnt[r.b] = 0
               /\ r.m.refcnt = [m.refcnt EXCEPT ![r.b] = 1]
               /\ r.m.data[r.b] = m.data[b]
  <1> DEFINE k == NewDblkref(m)
  <1>1. /\ PoolOk(k.m, n) /\ Kept(m, k.m)
        /\ k = [b |-> k.b, m |-> k.m]
        /\ \/ k.b = NoBlock /\ k.m.refcnt = m.refcnt
           \/ /\ k.b \in Blocks /\ m.refcnt[k.b] = 0
              /\ k.m.refcnt = [m.refcnt EXCEPT ![k.b] = 1]
              /\ k.m.data[k.b] = Zeros
    BY NewDblkrefOk
  <1>2. r = IF k.b = NoBlock THEN k ELSE [k EXCEPT !.m.data[k.b] = m.data[b]]
    BY DEF Copy
  <1> HIDE DEF k
  <1>3. NoBlock \notin Blocks
    BY DEF NoBlock, Blocks
  <1>4. CASE k.b = NoBlock
    BY <1>1, <1>2, <1>3, <1>4
  <1>5. CASE k.b # NoBlock
    <2> DEFINE d == [k.m.data EXCEPT ![k.b] = m.data[b]]
    <2>1. /\ k.m \in Mems /\ m.data \in [Blocks -> [0 .. PageSize - 1 -> Bytes]]
          /\ k.m.data \in [Blocks -> [0 .. PageSize - 1 -> Bytes]]
          /\ k.b \in Blocks /\ m.refcnt \in [Blocks -> Nat]
      BY <1>1, <1>5, PoolFacts DEF PoolOk
    <2>2. /\ d \in [Blocks -> [0 .. PageSize - 1 -> Bytes]] /\ d[k.b] = m.data[b]
          /\ \A x \in Blocks \ {k.b} : d[x] = k.m.data[x]
      BY <2>1
    <2>3. r = [k EXCEPT !.m = [k.m EXCEPT !.data = d]]
      BY <1>1, <1>2, <1>5, <2>1 DEF Mems
    <2>4. r.b = k.b /\ r.m = [k.m EXCEPT !.data = d]
      BY <1>1, <2>3
    <2> HIDE DEF d
    <2>5. /\ r.m \in Mems /\ r.m.pages = k.m.pages /\ r.m.bfree = k.m.bfree
          /\ r.m.free = k.m.free /\ r.m.refcnt = k.m.refcnt /\ r.m.data = d
      BY <2>1, <2>2, <2>4 DEF Mems
    <2>6. Used(r.m) = Used(k.m)
      BY <2>5 DEF Used
    <2>7. PoolOk(r.m, n)
      BY <1>1, <2>5, <2>6, PoolSame
    <2>8. Kept(m, r.m)
      BY <1>1, <1>5, <2>1, <2>2, <2>5 DEF Kept
    <2>9. QED
      BY <1>1, <1>5, <2>2, <2>4, <2>5, <2>7, <2>8
  <1>6. QED
    BY <1>4, <1>5

(* Bytes of a block.                                                       *)
LEMMA FillOk ==
  ASSUME NEW m, NEW n \in Nat, PoolOk(m, n), NEW b \in Blocks, NEW lo, NEW hi,
         NEW v \in Bytes, NEW r, r = Fill(m, b, lo, hi, v)
  PROVE  /\ PoolOk(r, n) /\ r.refcnt = m.refcnt
         /\ \A x \in Blocks \ {b} : r.data[x] = m.data[x]
         /\ \A i \in 0 .. PageSize - 1 :
              r.data[b][i] = IF lo <= i /\ i < hi THEN v ELSE m.data[b][i]
  <1> DEFINE w == [i \in 0 .. PageSize - 1 |-> IF lo <= i /\ i < hi THEN v ELSE m.data[b][i]]
             d == [m.data EXCEPT ![b] = w]
  <1>1. m \in Mems /\ m.data \in [Blocks -> [0 .. PageSize - 1 -> Bytes]]
    BY PoolFacts DEF PoolOk
  <1>2. w \in [0 .. PageSize - 1 -> Bytes]
    BY <1>1
  <1>3. r = [m EXCEPT !.data = d]
    BY <1>1 DEF Fill, Mems
  <1>4. \A i \in 0 .. PageSize - 1 : w[i] = IF lo <= i /\ i < hi THEN v ELSE m.data[b][i]
    OBVIOUS
  <1> HIDE DEF w
  <1>5. /\ d \in [Blocks -> [0 .. PageSize - 1 -> Bytes]] /\ d[b] = w
        /\ \A x \in Blocks \ {b} : d[x] = m.data[x]
    BY <1>1, <1>2
  <1> HIDE DEF d
  <1>6. /\ r \in Mems /\ r.pages = m.pages /\ r.bfree = m.bfree
        /\ r.free = m.free /\ r.refcnt = m.refcnt /\ r.data = d
    BY <1>1, <1>3, <1>5 DEF Mems
  <1>7. Used(r) = Used(m)
    BY <1>6 DEF Used
  <1>8. PoolOk(r, n)
    BY <1>6, <1>7, PoolSame
  <1>9. QED
    BY <1>4, <1>5, <1>6, <1>8

(* Other counts for blocks in use.                                         *)
WithCount(m, b, k) == [m EXCEPT !.refcnt[b] = k]

(* A count that stays positive takes nothing from the pool.                *)
LEMMA RecountOk ==
  ASSUME NEW m, NEW n \in Nat, PoolOk(m, n), NEW b \in Blocks, m.refcnt[b] > 0,
         NEW k \in Nat \ {0}, NEW r, r = WithCount(m, b, k)
  PROVE  /\ PoolOk(r, n) /\ r.data = m.data
         /\ r.refcnt = [m.refcnt EXCEPT ![b] = k]
  <1> DEFINE c == [m.refcnt EXCEPT ![b] = k]
  <1>1. m \in Mems /\ m.refcnt \in [Blocks -> Nat]
    BY PoolFacts DEF PoolOk
  <1>2. /\ c \in [Blocks -> Nat] /\ c[b] = k
        /\ \A x \in Blocks \ {b} : c[x] = m.refcnt[x]
    BY <1>1
  <1>3. r = [m EXCEPT !.refcnt = c]
    BY <1>1 DEF Mems, WithCount
  <1> HIDE DEF c
  <1>4. /\ r \in Mems /\ r.pages = m.pages /\ r.bfree = m.bfree
        /\ r.free = m.free /\ r.refcnt = c /\ r.data = m.data
    BY <1>1, <1>2, <1>3 DEF Mems
  <1>5. Used(r) = Used(m)
    BY <1>2, <1>4 DEF Used
  <1>6. PoolOk(r, n)
    BY <1>4, <1>5, PoolSame
  <1>7. QED
    BY <1>4, <1>6 DEF c
-----------------------------------------------------------------------------
(* The references of the files to blocks, as functions of B = blk.         *)

Blks == [Files -> [FilePages -> Blocks \cup {NoBlock}]]
RefsOf(B, b) == {fp \in Files \X FilePages : B[fp[1]][fp[2]] = b}
Mapped(B) == {fp \in Files \X FilePages : B[fp[1]][fp[2]] # NoBlock}
MappedOf(B, f) == {p \in FilePages : B[f][p] # NoBlock}

NRefs(B, b) == Cardinality(RefsOf(B, b))
NMapped(B) == Cardinality(Mapped(B))
NMappedOf(B, f) == Cardinality(MappedOf(B, f))

(* Counting a finite set of references or pages.                           *)
LEMMA CountSet ==
  ASSUME NEW S, S \subseteq Files \X FilePages \/ S \subseteq FilePages
  PROVE  /\ IsFiniteSet(S) /\ Cardinality(S) \in Nat
         /\ Cardinality(S) = 0 <=> S = {}
         /\ \A x : /\ x \in S => Cardinality(S \ {x}) = Cardinality(S) - 1
                   /\ x \notin S => Cardinality(S \cup {x}) = Cardinality(S) + 1
  <1>1. IsFiniteSet(FilePages)
    BY FS_Interval, ConstantsAssumption DEF FilePages
  <1>2. IsFiniteSet(Files \X FilePages)
    BY <1>1, FS_Product, ConstantsAssumption
  <1>3. IsFiniteSet(S)
    BY <1>1, <1>2, FS_Subset
  <1>4. QED
    BY <1>3, FS_CardinalityType, FS_EmptySet, FS_AddElement, FS_RemoveElement

(* One element more.                                                       *)
LEMMA AddCount ==
  ASSUME NEW S, S \subseteq Files \X FilePages \/ S \subseteq FilePages,
         NEW x, x \notin S, NEW T, T = S \cup {x}
  PROVE  Cardinality(T) = Cardinality(S) + 1
  BY CountSet

(* One less.                                                               *)
LEMMA RemoveCount ==
  ASSUME NEW S, S \subseteq Files \X FilePages \/ S \subseteq FilePages,
         NEW x, x \in S, NEW T, T = S \ {x}
  PROVE  Cardinality(T) = Cardinality(S) - 1
  BY CountSet

(* The counts are natural numbers.                                         *)
LEMMA Counts ==
  ASSUME NEW B, NEW b, NEW f
  PROVE  NRefs(B, b) \in Nat /\ NMapped(B) \in Nat /\ NMappedOf(B, f) \in Nat
  <1>1. RefsOf(B, b) \subseteq Files \X FilePages
    BY DEF RefsOf
  <1>2. Mapped(B) \subseteq Files \X FilePages
    BY DEF Mapped
  <1>3. MappedOf(B, f) \subseteq FilePages
    BY DEF MappedOf
  <1>4. QED
    BY <1>1, <1>2, <1>3, CountSet DEF NRefs, NMapped, NMappedOf

(* A page that refers to a block counts.                                   *)
LEMMA RefCounts ==
  ASSUME NEW B, NEW f \in Files, NEW p \in FilePages
  PROVE  NRefs(B, B[f][p]) > 0
  <1> DEFINE S == RefsOf(B, B[f][p])
  <1>1. <<f, p>> \in S /\ S \subseteq Files \X FilePages
    BY DEF RefsOf
  <1> HIDE DEF S
  <1>2. Cardinality(S) \in Nat /\ Cardinality(S) # 0
    BY <1>1, CountSet
  <1>3. QED
    BY <1>2 DEF S, NRefs

(* Pages of two files that refer to one block count twice.                 *)
LEMMA TwoRefsCount ==
  ASSUME NEW B, NEW f \in Files, NEW p \in FilePages, NEW g \in Files, NEW q \in FilePages,
         f # g, B[g][q] = B[f][p]
  PROVE  NRefs(B, B[f][p]) > 1
  <1> DEFINE S == RefsOf(B, B[f][p])
             T == S \ {<<f, p>>}
  <1>1. <<f, p>> \in S /\ <<g, q>> \in T /\ S \subseteq Files \X FilePages
    BY DEF RefsOf
  <1> HIDE DEF S
  <1>2. T \subseteq Files \X FilePages /\ T # {}
    BY <1>1
  <1>3. Cardinality(T) \in Nat /\ Cardinality(T) # 0
    BY <1>2, CountSet
  <1>4. Cardinality(S) \in Nat /\ Cardinality(T) = Cardinality(S) - 1
    BY <1>1, CountSet
  <1>5. QED
    BY <1>3, <1>4 DEF S, NRefs

(* One page comes to refer to another block.                               *)
WithPage(B, f, p, c) == [B EXCEPT ![f][p] = c]

(* The counts change for the block that comes and the one that goes.       *)
LEMMA SetPage ==
  ASSUME NEW B \in Blks, NEW f \in Files, NEW p \in FilePages, NEW c \in Blocks \cup {NoBlock},
         NEW A, A = WithPage(B, f, p, c), B[f][p] # c
  PROVE  /\ A \in Blks
         /\ \A g \in Files, q \in FilePages :
              A[g][q] = IF g = f /\ q = p THEN c ELSE B[g][q]
         /\ \A g \in Files \ {f} : A[g] = B[g]
         /\ NRefs(A, c) = NRefs(B, c) + 1
         /\ NRefs(A, B[f][p]) = NRefs(B, B[f][p]) - 1
         /\ \A b : b # c /\ b # B[f][p] => NRefs(A, b) = NRefs(B, b)
         /\ \A g \in Files \ {f} : NMappedOf(A, g) = NMappedOf(B, g)
         /\ B[f][p] = NoBlock => /\ NMapped(A) = NMapped(B) + 1
                                 /\ NMappedOf(A, f) = NMappedOf(B, f) + 1
         /\ c = NoBlock => /\ NMapped(A) = NMapped(B) - 1
                           /\ NMappedOf(A, f) = NMappedOf(B, f) - 1
         /\ B[f][p] # NoBlock /\ c # NoBlock => /\ NMapped(A) = NMapped(B)
                                                /\ NMappedOf(A, f) = NMappedOf(B, f)
  <1> DEFINE old == B[f][p]
             x == <<f, p>>
  <1>1. \A g \in Files, q \in FilePages : A[g][q] = IF g = f /\ q = p THEN c ELSE B[g][q]
    BY DEF Blks, WithPage
  <1>2. A \in Blks
    BY DEF Blks, WithPage
  <1>3. \A g \in Files \ {f} : A[g] = B[g]
    BY DEF Blks, WithPage
  <1>4. /\ x \in Files \X FilePages /\ x[1] = f /\ x[2] = p
        /\ \A y \in Files \X FilePages :
             /\ y[1] \in Files /\ y[2] \in FilePages
             /\ y[1] = f /\ y[2] = p => y = x
             /\ A[y[1]][y[2]] = IF y = x THEN c ELSE B[y[1]][y[2]]
    BY <1>1
  <1>5. NRefs(A, c) = NRefs(B, c) + 1
    <2>1. RefsOf(A, c) = RefsOf(B, c) \cup {x} /\ x \notin RefsOf(B, c)
      BY <1>4 DEF RefsOf
    <2>2. RefsOf(B, c) \subseteq Files \X FilePages
      BY DEF RefsOf
    <2>3. QED
      BY <2>1, <2>2, AddCount DEF NRefs
  <1>6. NRefs(A, old) = NRefs(B, old) - 1
    <2>1. RefsOf(A, old) = RefsOf(B, old) \ {x} /\ x \in RefsOf(B, old)
      BY <1>4 DEF RefsOf
    <2>2. RefsOf(B, old) \subseteq Files \X FilePages
      BY DEF RefsOf
    <2>3. QED
      BY <2>1, <2>2, RemoveCount DEF NRefs
  <1>7. ASSUME NEW b, b # c, b # old PROVE NRefs(A, b) = NRefs(B, b)
    <2>1. RefsOf(A, b) = RefsOf(B, b)
      BY <1>4, <1>7 DEF RefsOf
    <2>2. QED
      BY <2>1 DEF NRefs
  <1>8. \A g \in Files \ {f} : NMappedOf(A, g) = NMappedOf(B, g)
    BY <1>3 DEF MappedOf, NMappedOf
  <1>9. Mapped(B) \subseteq Files \X FilePages /\ MappedOf(B, f) \subseteq FilePages
    BY DEF Mapped, MappedOf
  <1>10. ASSUME old = NoBlock
         PROVE  NMapped(A) = NMapped(B) + 1 /\ NMappedOf(A, f) = NMappedOf(B, f) + 1
    <2>1. Mapped(A) = Mapped(B) \cup {x} /\ x \notin Mapped(B)
      BY <1>4, <1>10 DEF Mapped
    <2>2. MappedOf(A, f) = MappedOf(B, f) \cup {p} /\ p \notin MappedOf(B, f)
      BY <1>1, <1>10 DEF MappedOf
    <2>3. NMapped(A) = NMapped(B) + 1
      BY <1>9, <2>1, AddCount DEF NMapped
    <2>4. NMappedOf(A, f) = NMappedOf(B, f) + 1
      BY <1>9, <2>2, AddCount DEF NMappedOf
    <2>5. QED
      BY <2>3, <2>4
  <1>11. ASSUME c = NoBlock
         PROVE  NMapped(A) = NMapped(B) - 1 /\ NMappedOf(A, f) = NMappedOf(B, f) - 1
    <2>1. Mapped(A) = Mapped(B) \ {x} /\ x \in Mapped(B)
      BY <1>4, <1>11 DEF Mapped
    <2>2. MappedOf(A, f) = MappedOf(B, f) \ {p} /\ p \in MappedOf(B, f)
      BY <1>1, <1>11 DEF MappedOf
    <2>3. NMapped(A) = NMapped(B) - 1
      BY <1>9, <2>1, RemoveCount DEF NMapped
    <2>4. NMappedOf(A, f) = NMappedOf(B, f) - 1
      BY <1>9, <2>2, RemoveCount DEF NMappedOf
    <2>5. QED
      BY <2>3, <2>4
  <1>12. ASSUME old # NoBlock, c # NoBlock
         PROVE  NMapped(A) = NMapped(B) /\ NMappedOf(A, f) = NMappedOf(B, f)
    <2>1. Mapped(A) = Mapped(B)
      BY <1>4, <1>12 DEF Mapped
    <2>2. MappedOf(A, f) = MappedOf(B, f)
      BY <1>1, <1>12 DEF MappedOf
    <2>3. QED
      BY <2>1, <2>2 DEF NMapped, NMappedOf
  <1>13. QED
    BY <1>1, <1>2, <1>3, <1>5, <1>6, <1>7, <1>8, <1>10, <1>11, <1>12
-----------------------------------------------------------------------------
(* The inductive invariant.                                                *)

(* A truncate loads and stores a count without s_mutex: with other threads *)
(* about, a block may be given away while a file refers to it (the run     *)
(* ToyfsFile_race).  The theorems are about any calls of one thread, and   *)
(* about any calls but truncate of any number of threads.                  *)
TruncUse == "trunc" \in Ops => \E t \in Threads : Threads = {t}

IdleRecs == {Idle(TRUE), Idle(FALSE)}

CallRecs ==
  [k : Kinds, f : Files, s : Files, from : Nat, off : Nat, end : Offs, src : Nat,
   v : Bytes, b : Blocks \cup {NoBlock}, r : Nat]

Typed ==
  /\ isize \in [Files -> Offs]
  /\ slock \in Threads \cup {NoThread}
  /\ op \in [Threads -> IdleRecs \cup CallRecs]

(* The counts cover the references of the files.                           *)
Covered(m, B) == \A b \in Blocks : NRefs(B, b) <= m.refcnt[b]

(* i_blocks counts the pages of a file.                                    *)
Counted(B, n) == n \in [Files -> Nat] /\ \A f \in Files : n[f] = NMappedOf(B, f)

DataOk(m, B, n) ==
  B \in Blks /\ PoolOk(m, NMapped(B)) /\ Covered(m, B) /\ Counted(B, n)

Busy(t) == op[t].k # "none"

(* The calls of two threads are about different files.                     *)
Apart ==
  \A t, u \in Threads :
    t # u /\ Busy(t) /\ Busy(u) => {op[t].f, op[t].s} \cap {op[u].f, op[u].s} = {}

(* s_mutex is held from step to step by clones only.                       *)
LockedByClone == \A t \in Threads : slock = t => Busy(t) /\ IsClone(op[t])

(* The pages a collapse has passed are holes.                              *)
CollapseOk(o) ==
  o.k = "collapse" =>
    /\ Aligned(o.from) /\ Aligned(o.off) /\ Aligned(o.end)
    /\ o.from <= o.off /\ o.off <= o.end
    /\ \A p \in FilePages : Page(o.from) <= p /\ p < Page(o.off) => blk[o.f][p] = NoBlock

(* A clone of a file has shared the pages it has passed, and its other     *)
(* pages are holes.                                                        *)
CloneFileOk(t, o) ==
  o.k = "clonefile" =>
    /\ o.f # o.s
    /\ slock # t => o.off = 0
    /\ slock = t => \A p \in FilePages :
                      blk[o.f][p] = IF p < Page(o.off) THEN blk[o.s][p] ELSE NoBlock

(* A clone of a range does not leave the source.                           *)
CloneRangeOk(o) == o.k = "clonerange" => o.f # o.s /\ o.src + o.end <= MaxOff + o.off

MmapOk(o) == o.k = "mmap" => o.off < MaxOff

(* A truncate holds its copy of a shared block, and no file refers to it   *)
(* yet.                                                                    *)
TruncOk(t, o) ==
  /\ o.k \in {"trunc", "load", "store"} => Threads = {t}
  /\ o.k \in {"load", "store"} =>
       /\ o.b \in Blocks /\ mem.refcnt[o.b] > 0 /\ NRefs(blk, o.b) = 0
       /\ TailBlk(o) # NoBlock /\ mem.refcnt[TailBlk(o)] > 1
       /\ o.k = "store" => o.r = mem.refcnt[TailBlk(o)]

CallOk(t) ==
  LET o == op[t] IN
  CollapseOk(o) /\ CloneFileOk(t, o) /\ CloneRangeOk(o) /\ MmapOk(o) /\ TruncOk(t, o)

IInv ==
  /\ Typed
  /\ DataOk(mem, blk, iblocks)
  /\ Apart
  /\ LockedByClone
  /\ \A t \in Threads : CallOk(t)

(* A step that changes one file keeps the calls on the others.             *)
LEMMA Frame ==
  ASSUME IInv, NEW t \in Threads, Busy(t), Typed', DataOk(mem, blk, iblocks)',
         \A u \in Threads \ {t} : op'[u] = op[u] /\ (slock' = u <=> slock = u),
         \A g \in Files \ {op[t].f} : blk'[g] = blk[g],
         op'[t] \in IdleRecs \/ (op'[t].f = op[t].f /\ op'[t].s = op[t].s),
         slock' = t => Busy(t)' /\ IsClone(op'[t]),
         CallOk(t)'
  PROVE  IInv'
  <1>1. Apart'
    BY DEF Apart, Busy, IInv, IdleRecs, Idle
  <1>2. LockedByClone'
    BY DEF LockedByClone, IInv, Busy, IsClone
  <1>3. ASSUME NEW u \in Threads \ {t} PROVE CallOk(u)'
    <2>1. op'[u] = op[u] /\ (slock' = u <=> slock = u) /\ Threads # {u}
      OBVIOUS
    <2>2. CASE ~Busy(u)
      BY <2>1, <2>2 DEF Busy, CallOk, CollapseOk, CloneFileOk, CloneRangeOk, MmapOk, TruncOk
    <2>3. CASE Busy(u)
      <3>1. op[u] \in CallRecs
        BY <2>3 DEF IInv, Typed, IdleRecs, Idle, Busy
      <3>2. op[u].f \in Files /\ op[u].s \in Files
        BY <3>1 DEF CallRecs
      <3>3. op[t].f \notin {op[u].f, op[u].s}
        BY <2>3 DEF IInv, Apart
      <3>4. blk'[op[u].f] = blk[op[u].f] /\ blk'[op[u].s] = blk[op[u].s]
        BY <3>2, <3>3
      <3>5. CallOk(u)
        BY DEF IInv
      <3>6. QED
        BY <2>1, <3>4, <3>5
           DEF CallOk, CollapseOk, CloneFileOk, CloneRangeOk, MmapOk, TruncOk
    <2>4. QED
      BY <2>2, <2>3
  <1>4. QED
    BY <1>1, <1>2, <1>3 DEF IInv
-----------------------------------------------------------------------------
(* Blocks and counts when a page comes to refer to another block.          *)

(* The bytes of the files other than f.                                    *)
OthersKept(f, B, m, r) ==
  \A g \in Files \ {f}, q \in FilePages :
    B[g][q] # NoBlock => r.data[B[g][q]] = m.data[B[g][q]]

(* A block a file refers to is in use; one that two files refer to is      *)
(* known to be shared.                                                     *)
LEMMA LiveRef ==
  ASSUME NEW m, NEW B, NEW n, DataOk(m, B, n), NEW f \in Files, NEW p \in FilePages,
         B[f][p] # NoBlock
  PROVE  /\ B[f][p] \in Blocks /\ m.refcnt[B[f][p]] \in Nat /\ m.refcnt[B[f][p]] > 0
         /\ \A g \in Files \ {f}, q \in FilePages :
              B[g][q] = B[f][p] => m.refcnt[B[f][p]] > 1
  <1>1. B[f][p] \in Blocks
    BY DEF DataOk, Blks
  <1>2. NRefs(B, B[f][p]) \in Nat /\ NRefs(B, B[f][p]) > 0
    BY Counts, RefCounts
  <1>3. NRefs(B, B[f][p]) <= m.refcnt[B[f][p]]
    BY <1>1 DEF DataOk, Covered
  <1>4. m.refcnt[B[f][p]] \in Nat
    BY <1>1, Counts, PoolFacts DEF DataOk
  <1>5. ASSUME NEW g \in Files \ {f}, NEW q \in FilePages, B[g][q] = B[f][p]
        PROVE  m.refcnt[B[f][p]] > 1
    <2>1. NRefs(B, B[f][p]) > 1
      BY <1>5, TwoRefsCount
    <2>2. QED
      BY <1>2, <1>3, <1>4, <2>1
  <1>6. QED
    BY <1>1, <1>2, <1>3, <1>4, <1>5

(* The files as they are, in a pool with counts that are not smaller.      *)
LEMMA SameFiles ==
  ASSUME NEW m, NEW B, NEW n, DataOk(m, B, n), NEW r, PoolOk(r, NMapped(B)),
         \A b \in Blocks : m.refcnt[b] <= r.refcnt[b]
  PROVE  DataOk(r, B, n)
  <1>1. NMapped(B) \in Nat
    BY Counts
  <1>2. m.refcnt \in [Blocks -> Nat] /\ r.refcnt \in [Blocks -> Nat]
    BY <1>1, PoolFacts DEF DataOk
  <1>3. ASSUME NEW b \in Blocks PROVE NRefs(B, b) <= r.refcnt[b]
    <2>1. NRefs(B, b) \in Nat /\ NRefs(B, b) <= m.refcnt[b] /\ m.refcnt[b] <= r.refcnt[b]
      BY Counts DEF DataOk, Covered
    <2>2. m.refcnt[b] \in Nat /\ r.refcnt[b] \in Nat
      BY <1>2
    <2>3. QED
      BY <2>1, <2>2
  <1>4. QED
    BY <1>3 DEF DataOk, Covered

(* The iblkrefs in use, and i_blocks, once page p of f has a block.        *)
PagesWith(B, f, p) == IF B[f][p] = NoBlock THEN NMapped(B) + 1 ELSE NMapped(B)
CountsWith(B, n, f, p) == IF B[f][p] = NoBlock THEN [n EXCEPT ![f] = @ + 1] ELSE n

(* Page p of f refers to c: the count of c has room for a reference, the   *)
(* count of the block given up may be smaller by one.                      *)
LEMMA Relink ==
  ASSUME NEW m, NEW B, NEW n, DataOk(m, B, n),
         NEW f \in Files, NEW p \in FilePages, NEW c \in Blocks, B[f][p] # c,
         NEW r, NEW A, NEW j,
         A = WithPage(B, f, p, c),
         j = CountsWith(B, n, f, p),
         PoolOk(r, PagesWith(B, f, p)),
         NRefs(B, c) < r.refcnt[c],
         B[f][p] # NoBlock => m.refcnt[B[f][p]] <= r.refcnt[B[f][p]] + 1,
         \A b \in Blocks : b # c /\ b # B[f][p] => m.refcnt[b] <= r.refcnt[b]
  PROVE  DataOk(r, A, j) /\ \A g \in Files \ {f} : A[g] = B[g]
  <1>1. B \in Blks /\ NMapped(B) \in Nat
    BY Counts DEF DataOk
  <1> DEFINE old == B[f][p]
  <1>2. /\ A \in Blks
        /\ \A g \in Files \ {f} : A[g] = B[g]
        /\ NRefs(A, c) = NRefs(B, c) + 1
        /\ NRefs(A, old) = NRefs(B, old) - 1
        /\ \A b : b # c /\ b # old => NRefs(A, b) = NRefs(B, b)
        /\ \A g \in Files \ {f} : NMappedOf(A, g) = NMappedOf(B, g)
        /\ old = NoBlock => /\ NMapped(A) = NMapped(B) + 1
                            /\ NMappedOf(A, f) = NMappedOf(B, f) + 1
        /\ old # NoBlock => /\ NMapped(A) = NMapped(B)
                            /\ NMappedOf(A, f) = NMappedOf(B, f)
    <2>1. c \in Blocks \cup {NoBlock} /\ c # NoBlock
      BY DEF Blocks, NoBlock
    <2>2. A \in Blks /\ \A g \in Files \ {f} : A[g] = B[g]
      BY <1>1, <2>1, SetPage
    <2>3. NRefs(A, c) = NRefs(B, c) + 1 /\ NRefs(A, old) = NRefs(B, old) - 1
      BY <1>1, <2>1, SetPage
    <2>4. \A b : b # c /\ b # old => NRefs(A, b) = NRefs(B, b)
      BY <1>1, <2>1, SetPage
    <2>5. \A g \in Files \ {f} : NMappedOf(A, g) = NMappedOf(B, g)
      BY <1>1, <2>1, SetPage
    <2>6. old = NoBlock => /\ NMapped(A) = NMapped(B) + 1
                           /\ NMappedOf(A, f) = NMappedOf(B, f) + 1
      BY <1>1, <2>1, SetPage
    <2>7. old # NoBlock => NMapped(A) = NMapped(B) /\ NMappedOf(A, f) = NMappedOf(B, f)
      BY <1>1, <2>1, SetPage
    <2>8. QED
      BY <2>2, <2>3, <2>4, <2>5, <2>6, <2>7
  <1>3. PoolOk(r, NMapped(A))
    BY <1>2 DEF PagesWith
  <1>4. m.refcnt \in [Blocks -> Nat] /\ r.refcnt \in [Blocks -> Nat]
    <2>1. NMapped(A) \in Nat
      BY Counts
    <2>2. QED
      BY <1>1, <1>3, <2>1, PoolFacts DEF DataOk
  <1>5. old = NoBlock \/ old \in Blocks
    BY <1>1 DEF Blks
  <1> HIDE DEF old
  <1>6. ASSUME NEW b \in Blocks PROVE NRefs(A, b) <= r.refcnt[b]
    <2>1. NRefs(A, b) \in Nat /\ NRefs(B, b) \in Nat
      BY Counts
    <2>2. NRefs(B, b) <= m.refcnt[b]
      BY DEF DataOk, Covered
    <2>3. m.refcnt[b] \in Nat /\ r.refcnt[b] \in Nat
      BY <1>4
    <2>4. CASE b = c
      BY <1>2, <2>1, <2>2, <2>3, <2>4
    <2>5. CASE b # c /\ b = old
      <3>1. m.refcnt[b] <= r.refcnt[b] + 1
        BY <2>5 DEF old, Blocks, NoBlock
      <3>2. QED
        BY <1>2, <2>1, <2>2, <2>3, <2>5, <3>1
    <2>6. CASE b # c /\ b # old
      <3>1. m.refcnt[b] <= r.refcnt[b]
        BY <2>6 DEF old
      <3>2. NRefs(A, b) = NRefs(B, b)
        BY <1>2, <2>6
      <3>3. QED
        BY <2>1, <2>2, <2>3, <3>1, <3>2
    <2>7. QED
      BY <2>4, <2>5, <2>6
  <1>7. Counted(A, j)
    <2>1. n \in [Files -> Nat] /\ \A g \in Files : n[g] = NMappedOf(B, g)
      BY DEF DataOk, Counted
    <2>2. CASE old = NoBlock
      <3>1. j = [n EXCEPT ![f] = n[f] + 1]
        BY <2>2 DEF old, CountsWith
      <3>2. j \in [Files -> Nat] /\ j[f] = n[f] + 1 /\ \A g \in Files \ {f} : j[g] = n[g]
        BY <2>1, <3>1
      <3>3. QED
        BY <1>2, <2>1, <2>2, <3>2 DEF Counted
    <2>3. CASE old # NoBlock
      <3>1. j = n
        BY <2>3 DEF old, CountsWith
      <3>2. QED
        BY <1>2, <2>1, <2>3, <3>1 DEF Counted
    <2>4. QED
      BY <2>2, <2>3
  <1>8. QED
    BY <1>2, <1>3, <1>6, <1>7 DEF DataOk, Covered

(* The blocks of the other files stay in use, and keep their bytes.        *)
LEMMA KeptOthers ==
  ASSUME NEW m, NEW B, NEW n, DataOk(m, B, n), NEW r, NEW A, NEW j, DataOk(r, A, j),
         NEW f, \A g \in Files \ {f} : A[g] = B[g], Kept(m, r)
  PROVE  OthersKept(f, B, m, r)
  <1> SUFFICES ASSUME NEW g \in Files \ {f}, NEW q \in FilePages, B[g][q] # NoBlock
               PROVE  r.data[B[g][q]] = m.data[B[g][q]]
    BY DEF OthersKept
  <1>1. B[g][q] \in Blocks /\ m.refcnt[B[g][q]] > 0
    BY LiveRef
  <1>2. A[g][q] = B[g][q]
    OBVIOUS
  <1>3. r.refcnt[B[g][q]] > 0
    BY <1>2, LiveRef
  <1>4. QED
    BY <1>1, <1>3 DEF Kept

(* Nothing changes when the page keeps its block.                          *)
LEMMA SamePage ==
  ASSUME NEW B \in Blks, NEW f \in Files, NEW p \in FilePages
  PROVE  WithPage(B, f, p, B[f][p]) = B
  BY DEF Blks, WithPage

(* Page p of f becomes a hole, and its block loses a reference.            *)
OneLess(n, x) == [n EXCEPT ![x] = @ - 1]

(* The count still covers the references that are left.                    *)
LEMMA Unlink ==
  ASSUME NEW m, NEW B, NEW n, DataOk(m, B, n),
         NEW f \in Files, NEW p \in FilePages, B[f][p] # NoBlock,
         NEW r, NEW A, NEW j,
         A = WithPage(B, f, p, NoBlock), j = OneLess(n, f),
         PoolOk(r, NMapped(B) - 1),
         r.refcnt = OneLess(m.refcnt, B[f][p])
  PROVE  DataOk(r, A, j) /\ \A g \in Files \ {f} : A[g] = B[g]
  <1>1. B \in Blks /\ NMapped(B) \in Nat
    BY Counts DEF DataOk
  <1> DEFINE old == B[f][p]
  <1>2. old \in Blocks /\ m.refcnt[old] \in Nat /\ m.refcnt[old] > 0
    BY LiveRef
  <1>3. A \in Blks /\ \A g \in Files \ {f} : A[g] = B[g]
    BY <1>1, SetPage
  <1>4. NRefs(A, old) = NRefs(B, old) - 1
    BY <1>1, SetPage
  <1>5. \A b : b # NoBlock /\ b # old => NRefs(A, b) = NRefs(B, b)
    BY <1>1, SetPage
  <1>6. \A g \in Files \ {f} : NMappedOf(A, g) = NMappedOf(B, g)
    BY <1>1, SetPage
  <1>7. NMapped(A) = NMapped(B) - 1 /\ NMappedOf(A, f) = NMappedOf(B, f) - 1
    BY <1>1, SetPage
  <1>8. m.refcnt \in [Blocks -> Nat]
    BY <1>1, PoolFacts DEF DataOk
  <1> HIDE DEF old
  <1>9. ASSUME NEW b \in Blocks PROVE NRefs(A, b) <= r.refcnt[b]
    <2>1. NRefs(A, b) \in Nat /\ NRefs(B, b) \in Nat
      BY Counts
    <2>2. NRefs(B, b) <= m.refcnt[b] /\ m.refcnt[b] \in Nat
      BY <1>8 DEF DataOk, Covered
    <2>3. CASE b = old
      <3>1. r.refcnt[b] = m.refcnt[b] - 1
        BY <1>8, <2>3 DEF old, OneLess
      <3>2. QED
        BY <1>4, <2>1, <2>2, <2>3, <3>1
    <2>4. CASE b # old
      <3>1. r.refcnt[b] = m.refcnt[b]
        BY <1>8, <2>4 DEF old, OneLess
      <3>2. NRefs(A, b) = NRefs(B, b)
        BY <1>5, <2>4 DEF Blocks, NoBlock
      <3>3. QED
        BY <2>1, <2>2, <3>1, <3>2
    <2>5. QED
      BY <2>3, <2>4
  <1>10. Counted(A, j)
    <2>1. n \in [Files -> Nat] /\ \A g \in Files : n[g] = NMappedOf(B, g)
      BY DEF DataOk, Counted
    <2>2. NMappedOf(A, f) \in Nat
      BY Counts
    <2>3. j[f] = n[f] - 1 /\ \A g \in Files \ {f} : j[g] = n[g]
      BY <2>1 DEF OneLess
    <2>4. \A g \in Files : j[g] = NMappedOf(A, g)
      BY <1>6, <1>7, <2>1, <2>3
    <2>5. n[f] - 1 \in Nat
      BY <1>7, <2>1, <2>2
    <2>6. j \in [Files -> Nat]
      BY <2>1, <2>5 DEF OneLess
    <2>7. QED
      BY <2>4, <2>6 DEF Counted
  <1>11. QED
    BY <1>3, <1>7, <1>9, <1>10 DEF DataOk, Covered

(* _require_iblkref gives no block, a block that was in nobody's use, or   *)
(* the block that is there and that no other page refers to.               *)
LEMMA RequireOk ==
  ASSUME DataOk(mem, blk, iblocks), NEW f \in Files, NEW p \in FilePages,
         NEW n, n = Require(f, p)
  PROVE  /\ Kept(mem, n.m)
         /\ \/ n.b = NoBlock /\ PoolOk(n.m, NMapped(blk)) /\ n.m.refcnt = mem.refcnt
            \/ /\ n.b \in Blocks /\ PoolOk(n.m, PagesWith(blk, f, p))
               /\ mem.refcnt[n.b] = 0 /\ n.m.refcnt = [mem.refcnt EXCEPT ![n.b] = 1]
            \/ /\ n.b \in Blocks /\ n.b = blk[f][p] /\ mem.refcnt[n.b] = 1 /\ n.m = mem
               /\ PoolOk(n.m, PagesWith(blk, f, p))
  <1>1. NMapped(blk) \in Nat /\ PoolOk(mem, NMapped(blk))
    BY Counts DEF DataOk
  <1>2. CASE blk[f][p] = NoBlock
    <2>1. n = NewIblkref(mem) /\ PagesWith(blk, f, p) = NMapped(blk) + 1
      BY <1>2 DEF Require, PagesWith
    <2>2. QED
      BY <1>1, <2>1, NewIblkrefOk
  <1>3. CASE blk[f][p] # NoBlock
    <2>1. /\ blk[f][p] \in Blocks /\ mem.refcnt[blk[f][p]] \in Nat
          /\ mem.refcnt[blk[f][p]] > 0
      BY <1>3, LiveRef
    <2>2. PagesWith(blk, f, p) = NMapped(blk)
      BY <1>3 DEF PagesWith
    <2>3. CASE mem.refcnt[blk[f][p]] > 1
      <3>1. n = Copy(mem, blk[f][p])
        BY <1>3, <2>3 DEF Require
      <3>2. QED
        BY <1>1, <2>1, <2>2, <3>1, CopyOk
    <2>4. CASE ~(mem.refcnt[blk[f][p]] > 1)
      <3>1. n = [b |-> blk[f][p], m |-> mem]
        BY <1>3, <2>4 DEF Require
      <3>2. n.b = blk[f][p] /\ n.m = mem /\ mem.refcnt[n.b] = 1
        BY <2>1, <2>4, <3>1
      <3>3. Kept(mem, n.m)
        BY <3>2 DEF Kept
      <3>4. QED
        BY <1>1, <2>1, <2>2, <3>2, <3>3
    <2>5. QED
      BY <2>3, <2>4
  <1>4. QED
    BY <1>2, <1>3

(* That block is not the block of another file, and page p may refer to it.*)
LEMMA WriteOk ==
  ASSUME DataOk(mem, blk, iblocks), NEW f \in Files, NEW p \in FilePages,
         NEW n, n = Require(f, p), n.b # NoBlock,
         NEW r, PoolOk(r, PagesWith(blk, f, p)), r.refcnt = n.m.refcnt,
         NEW A, A = WithPage(blk, f, p, n.b),
         NEW j, j = CountsWith(blk, iblocks, f, p)
  PROVE  /\ DataOk(r, A, j) /\ \A g \in Files \ {f} : A[g] = blk[g]
         /\ \A g \in Files \ {f}, q \in FilePages : blk[g][q] # n.b
  <1>1. NMapped(blk) \in Nat /\ PoolOk(mem, NMapped(blk)) /\ blk \in Blks
    BY Counts DEF DataOk
  <1>2. mem.refcnt \in [Blocks -> Nat]
    BY <1>1, PoolFacts
  <1>3. CASE /\ n.b \in Blocks
             /\ mem.refcnt[n.b] = 0 /\ n.m.refcnt = [mem.refcnt EXCEPT ![n.b] = 1]
    <2>1. \A g \in Files, q \in FilePages : blk[g][q] # n.b
      <3> SUFFICES ASSUME NEW g \in Files, NEW q \in FilePages, blk[g][q] = n.b
                   PROVE  FALSE
        OBVIOUS
      <3>1. mem.refcnt[blk[g][q]] > 0
        BY LiveRef
      <3>2. QED
        BY <1>3, <3>1
    <2>2. /\ r.refcnt[n.b] = 1 /\ mem.refcnt[n.b] < r.refcnt[n.b]
          /\ \A b \in Blocks : b # n.b => r.refcnt[b] = mem.refcnt[b]
      BY <1>2, <1>3
    <2>3. blk[f][p] # n.b
      BY <2>1
    <2>4. \A b \in Blocks : b # n.b => mem.refcnt[b] <= r.refcnt[b]
      BY <1>2, <2>2
    <2>5. blk[f][p] # NoBlock => mem.refcnt[blk[f][p]] <= r.refcnt[blk[f][p]] + 1
      <3> SUFFICES ASSUME blk[f][p] # NoBlock
                   PROVE  mem.refcnt[blk[f][p]] <= r.refcnt[blk[f][p]] + 1
        OBVIOUS
      <3>1. blk[f][p] \in Blocks
        BY LiveRef
      <3>2. r.refcnt[blk[f][p]] = mem.refcnt[blk[f][p]] /\ mem.refcnt[blk[f][p]] \in Nat
        BY <1>2, <2>2, <2>3, <3>1
      <3>3. QED
        BY <3>2
    <2>6. DataOk(r, A, j) /\ \A g \in Files \ {f} : A[g] = blk[g]
      <3> DEFINE c == n.b
      <3>1. c \in Blocks /\ blk[f][p] # c /\ A = WithPage(blk, f, p, c)
        BY <1>3, <2>3
      <3>2. NRefs(blk, c) < r.refcnt[c]
        <4>1. NRefs(blk, c) \in Nat /\ NRefs(blk, c) <= mem.refcnt[c]
          BY <3>1, Counts DEF DataOk, Covered
        <4>2. QED
          BY <1>3, <2>2, <4>1
      <3>3. \A b \in Blocks : b # c /\ b # blk[f][p] => mem.refcnt[b] <= r.refcnt[b]
        BY <2>4
      <3> HIDE DEF c
      <3>4. QED
        BY <2>5, <3>1, <3>2, <3>3, Relink
    <2>7. QED
      BY <2>1, <2>6
  <1>4. CASE n.b \in Blocks /\ n.b = blk[f][p] /\ mem.refcnt[n.b] = 1 /\ n.m = mem
    <2>1. A = blk
      BY <1>1, <1>4, SamePage
    <2>2. j = iblocks /\ PagesWith(blk, f, p) = NMapped(blk)
      BY <1>4 DEF PagesWith, CountsWith
    <2>3. \A b \in Blocks : mem.refcnt[b] <= r.refcnt[b]
      BY <1>2, <1>4
    <2>4. DataOk(r, A, j)
      BY <2>1, <2>2, <2>3, SameFiles
    <2>5. \A g \in Files \ {f}, q \in FilePages : blk[g][q] # n.b
      <3> SUFFICES ASSUME NEW g \in Files \ {f}, NEW q \in FilePages, blk[g][q] = blk[f][p]
                   PROVE  FALSE
        BY <1>4
      <3>1. mem.refcnt[blk[f][p]] > 1
        BY <1>4, LiveRef
      <3>2. QED
        BY <1>4, <3>1
    <2>6. QED
      BY <2>1, <2>4, <2>5
  <1>5. QED
    BY <1>3, <1>4, RequireOk

(* Bytes that are written into a block no other file refers to.            *)
LEMMA FillOthers ==
  ASSUME NEW f, NEW B \in Blks, NEW m, NEW k, OthersKept(f, B, m, k),
         NEW n \in Nat, PoolOk(k, n), NEW b \in Blocks, NEW lo, NEW hi, NEW v \in Bytes,
         \A g \in Files \ {f}, q \in FilePages : B[g][q] # b
  PROVE  OthersKept(f, B, m, Fill(k, b, lo, hi, v))
  <1> SUFFICES ASSUME NEW g \in Files \ {f}, NEW q \in FilePages, B[g][q] # NoBlock
               PROVE  Fill(k, b, lo, hi, v).data[B[g][q]] = m.data[B[g][q]]
    BY DEF OthersKept
  <1>1. B[g][q] \in Blocks \ {b}
    BY DEF Blks
  <1>2. Fill(k, b, lo, hi, v).data[B[g][q]] = k.data[B[g][q]]
    BY <1>1, FillOk
  <1>3. QED
    BY <1>2 DEF OthersKept
-----------------------------------------------------------------------------
(* The steps.  A call is at an offset of one file; a step leaves the other *)
(* files as they are.                                                      *)
Isolates(f) ==
  /\ \A g \in Files \ {f} : blk'[g] = blk[g] /\ isize'[g] = isize[g]
  /\ OthersKept(f, blk, mem, mem')

(* The fields of a call.                                                   *)
LEMMA CallFields ==
  ASSUME IInv, NEW t \in Threads, Busy(t)
  PROVE  /\ op[t] \in CallRecs
         /\ op[t].f \in Files /\ op[t].s \in Files
         /\ op[t].from \in Nat /\ op[t].off \in Nat /\ op[t].end \in Offs /\ op[t].end \in Nat
         /\ op[t].src \in Nat /\ op[t].v \in Bytes
         /\ op[t].b \in Blocks \cup {NoBlock} /\ op[t].r \in Nat
         /\ op[t].k \in Kinds
  <1>1. op[t] \in CallRecs
    BY DEF IInv, Typed, IdleRecs, Idle, Busy
  <1>2. QED
    BY <1>1 DEF CallRecs, Offs

(* Before its end a range is in the file.                                  *)
LEMMA OffInFile ==
  ASSUME NEW off \in Nat, NEW end \in Offs, off < end
  PROVE  /\ Page(off) \in FilePages /\ NextPage(off) \in Nat /\ NextPage(off) \in Offs
         /\ off % PageSize \in 0 .. PageSize - 1
  <1>1. MaxOff \in Nat /\ end \in Nat /\ end <= MaxOff
    BY PageInFile DEF Offs
  <1>2. off < MaxOff
    BY <1>1
  <1>3. QED
    BY <1>1, <1>2, PageInFile, PageFacts DEF Offs

(* Nothing is asked of the calls that remember nothing.                    *)
LEMMA PlainCall ==
  ASSUME NEW t, op'[t].k \in {"none", "write", "falloc", "punch", "zero"}
  PROVE  CallOk(t)'
  BY DEF CallOk, CollapseOk, CloneFileOk, CloneRangeOk, MmapOk, TruncOk

(* A call returns or fails.                                                *)
LEMMA Ends ==
  ASSUME IInv, NEW t \in Threads, Busy(t), NEW w \in IdleRecs, op' = [op EXCEPT ![t] = w],
         \/ slock' = slock /\ ~IsClone(op[t])
         \/ slock = t /\ slock' = NoThread,
         isize' \in [Files -> Offs], DataOk(mem, blk, iblocks)',
         \A g \in Files \ {op[t].f} : blk'[g] = blk[g]
  PROVE  IInv'
  <1>1. op \in [Threads -> IdleRecs \cup CallRecs] /\ slock \in Threads \cup {NoThread}
    BY DEF IInv, Typed
  <1>2. /\ op' \in [Threads -> IdleRecs \cup CallRecs] /\ op'[t] = w
        /\ \A u \in Threads \ {t} : op'[u] = op[u]
    BY <1>1
  <1>3. slock' # t /\ \A u \in Threads \ {t} : slock' = u <=> slock = u
    BY ConstantsAssumption DEF IInv, LockedByClone
  <1>4. slock' \in Threads \cup {NoThread}
    BY <1>1
  <1>5. op'[t].k = "none"
    BY <1>2 DEF IdleRecs, Idle
  <1>6. CallOk(t)'
    BY <1>5, PlainCall
  <1>7. Typed'
    BY <1>2, <1>4 DEF Typed
  <1>8. QED
    BY <1>2, <1>3, <1>6, <1>7, Frame

(* A call goes on, with another record for the same files.                 *)
LEMMA Goes ==
  ASSUME IInv, NEW t \in Threads, Busy(t), NEW w \in CallRecs, op' = [op EXCEPT ![t] = w],
         w.f = op[t].f, w.s = op[t].s, slock = t => IsClone(w),
         slock' = slock, isize' \in [Files -> Offs], DataOk(mem, blk, iblocks)',
         \A g \in Files \ {op[t].f} : blk'[g] = blk[g],
         CallOk(t)'
  PROVE  IInv'
  <1>1. op \in [Threads -> IdleRecs \cup CallRecs] /\ slock \in Threads \cup {NoThread}
    BY DEF IInv, Typed
  <1>2. /\ op' \in [Threads -> IdleRecs \cup CallRecs] /\ op'[t] = w
        /\ \A u \in Threads \ {t} : op'[u] = op[u]
    BY <1>1
  <1>3. Typed'
    BY <1>1, <1>2 DEF Typed
  <1>4. slock' = t => Busy(t)' /\ IsClone(op'[t])
    BY <1>2 DEF Busy, IsClone
  <1>5. QED
    BY <1>2, <1>3, <1>4, Frame

(* Its record after Advance.                                               *)
LEMMA Advanced ==
  ASSUME IInv, NEW t \in Threads, Busy(t), NEW x \in Nat, Advance(t, x)
  PROVE  /\ [op[t] EXCEPT !.off = x] \in CallRecs
         /\ op' = [op EXCEPT ![t] = [op[t] EXCEPT !.off = x]]
         /\ op'[t].k = op[t].k /\ op'[t].f = op[t].f /\ op'[t].s = op[t].s
         /\ op'[t].from = op[t].from /\ op'[t].end = op[t].end /\ op'[t].src = op[t].src
         /\ op'[t].off = x
         /\ [op[t] EXCEPT !.off = x].f = op[t].f /\ [op[t] EXCEPT !.off = x].s = op[t].s
         /\ [op[t] EXCEPT !.off = x].k = op[t].k
  <1>1. op[t] \in CallRecs
    BY CallFields
  <1>2. op \in [Threads -> IdleRecs \cup CallRecs]
    BY DEF IInv, Typed
  <1> DEFINE w == [op[t] EXCEPT !.off = x]
  <1>3. /\ w \in CallRecs /\ w.k = op[t].k /\ w.f = op[t].f /\ w.s = op[t].s
        /\ w.from = op[t].from /\ w.end = op[t].end /\ w.src = op[t].src /\ w.off = x
    BY <1>1 DEF CallRecs
  <1>4. op' = [op EXCEPT ![t] = w]
    BY DEF Advance
  <1> HIDE DEF w
  <1>5. op'[t] = w
    BY <1>2, <1>4
  <1>6. QED
    BY <1>3, <1>4, <1>5 DEF w

(* _write and _falloc_range.                                               *)
LEMMA RwPageStep ==
  ASSUME IInv, NEW t \in Threads, RwPage(t)
  PROVE  IInv' /\ Isolates(op[t].f)
  <1> DEFINE o == op[t]
             n == Require(o.f, Page(o.off))
             nxt == NextPage(o.off)
             p == Page(o.off)
             lo == o.off % PageSize
             hi == lo + Least(nxt, o.end) - o.off
  <1>1. Busy(t) /\ o.k \in {"write", "falloc"} /\ o.off < o.end
    BY DEF RwPage, Busy
  <1>2. o.f \in Files /\ p \in FilePages /\ nxt \in Nat /\ o.v \in Bytes
    BY <1>1, CallFields, OffInFile
  <1>3. /\ n.b # NoBlock /\ mem' = IF o.k = "write" THEN Fill(n.m, n.b, lo, hi, o.v) ELSE n.m
        /\ Advance(t, nxt) /\ isize' = isize /\ slock' = slock
    BY DEF RwPage
  <1>4. blk' = WithPage(blk, o.f, p, n.b) /\ iblocks' = CountsWith(blk, iblocks, o.f, p)
    BY DEF RwPage, SetBlk, WithPage, CountsWith
  <1>5. DataOk(mem, blk, iblocks) /\ blk \in Blks
    BY DEF IInv, DataOk
  <1> HIDE DEF o, n, nxt, p, lo, hi
  <1>6. n = Require(o.f, p)
    BY DEF n, p
  <1>7. n.b \in Blocks /\ PoolOk(n.m, PagesWith(blk, o.f, p)) /\ Kept(mem, n.m)
    BY <1>2, <1>3, <1>5, <1>6, RequireOk
  <1>8. PagesWith(blk, o.f, p) \in Nat
    BY Counts DEF PagesWith
  <1>9. PoolOk(mem', PagesWith(blk, o.f, p)) /\ mem'.refcnt = n.m.refcnt
    BY <1>2, <1>3, <1>7, <1>8, FillOk
  <1>10. /\ DataOk(mem', blk', iblocks')
         /\ \A g \in Files \ {o.f} : blk'[g] = blk[g]
         /\ \A g \in Files \ {o.f}, q \in FilePages : blk[g][q] # n.b
    BY <1>2, <1>3, <1>4, <1>5, <1>6, <1>9, WriteOk
  <1>11. OthersKept(o.f, blk, mem, mem')
    <2>1. DataOk(n.m, blk', iblocks')
      BY <1>2, <1>3, <1>4, <1>5, <1>6, <1>7, WriteOk
    <2>2. OthersKept(o.f, blk, mem, n.m)
      BY <1>5, <1>7, <1>10, <2>1, KeptOthers
    <2>3. QED
      BY <1>2, <1>3, <1>5, <1>7, <1>8, <1>10, <2>2, FillOthers
  <1>12. Isolates(o.f)
    BY <1>3, <1>10, <1>11 DEF Isolates
  <1>13. IInv'
    <2>1. isize' \in [Files -> Offs] /\ (slock = t => IsClone(op[t]))
      BY <1>3 DEF IInv, Typed, LockedByClone
    <2>2. slock # t
      BY <1>1, <2>1 DEF IsClone, o
    <2>3. /\ [op[t] EXCEPT !.off = nxt] \in CallRecs
          /\ op' = [op EXCEPT ![t] = [op[t] EXCEPT !.off = nxt]]
          /\ [op[t] EXCEPT !.off = nxt].f = op[t].f /\ [op[t] EXCEPT !.off = nxt].s = op[t].s
          /\ op'[t].k = op[t].k
      BY <1>1, <1>2, <1>3, Advanced
    <2>4. CallOk(t)'
      BY <1>1, <2>3, PlainCall DEF o
    <2>5. \A g \in Files \ {op[t].f} : blk'[g] = blk[g]
      BY <1>10 DEF o
    <2> DEFINE w == [op[t] EXCEPT !.off = nxt]
    <2> HIDE DEF w
    <2>6. w \in CallRecs /\ op' = [op EXCEPT ![t] = w] /\ w.f = op[t].f /\ w.s = op[t].s
      BY <2>3 DEF w
    <2>7. QED
      BY <1>1, <1>3, <1>10, <2>1, <2>2, <2>4, <2>5, <2>6, Goes
  <1>14. QED
    BY <1>12, <1>13 DEF o

(* -ENOSPC leaves all files as they are.                                   *)
LEMMA RwNoSpaceStep ==
  ASSUME IInv, NEW t \in Threads, RwNoSpace(t)
  PROVE  IInv' /\ Isolates(op[t].f)
  <1> DEFINE o == op[t]
             p == Page(o.off)
             n == Require(o.f, p)
  <1>1. Busy(t) /\ o.k \in {"write", "falloc"} /\ o.off < o.end
    BY DEF RwNoSpace, Busy
  <1>2. o.f \in Files /\ p \in FilePages
    BY <1>1, CallFields, OffInFile
  <1>3. /\ n.b = NoBlock /\ mem' = n.m /\ op' = [op EXCEPT ![t] = Idle(TRUE)]
        /\ blk' = blk /\ iblocks' = iblocks /\ isize' = isize /\ slock' = slock
    BY DEF RwNoSpace, files, Fail
  <1>4. DataOk(mem, blk, iblocks) /\ isize \in [Files -> Offs] /\ ~IsClone(op[t])
    BY <1>1 DEF IInv, Typed, IsClone
  <1> HIDE DEF n, p, o
  <1>5. n = Require(o.f, p) /\ ~(n.b \in Blocks)
    BY <1>3 DEF n, Blocks, NoBlock
  <1>6. PoolOk(n.m, NMapped(blk)) /\ n.m.refcnt = mem.refcnt /\ Kept(mem, n.m)
    BY <1>2, <1>4, <1>5, RequireOk
  <1>7. DataOk(mem', blk', iblocks')
    <2>1. mem.refcnt \in [Blocks -> Nat]
      BY <1>4, Counts, PoolFacts DEF DataOk
    <2>2. \A b \in Blocks : mem.refcnt[b] <= n.m.refcnt[b]
      BY <1>6, <2>1
    <2>3. QED
      BY <1>3, <1>4, <1>6, <2>2, SameFiles
  <1>8. OthersKept(o.f, blk, mem, mem')
    BY <1>3, <1>4, <1>6, <1>7, KeptOthers
  <1>9. Idle(TRUE) \in IdleRecs
    BY DEF IdleRecs
  <1>10. IInv'
    BY <1>1, <1>3, <1>4, <1>7, <1>9, Ends
  <1>11. QED
    BY <1>3, <1>8, <1>10 DEF Isolates, o

(* Nothing but the size of a file changes.                                 *)
LEMMA SizeStep ==
  ASSUME IInv, NEW t \in Threads, Busy(t), ~IsClone(op[t]), NEW e, e \in Offs,
         op' = [op EXCEPT ![t] = Idle(FALSE)],
         isize' = [isize EXCEPT ![op[t].f] = e],
         UNCHANGED <<mem, blk, iblocks, slock>>
  PROVE  IInv' /\ Isolates(op[t].f)
  <1>1. isize \in [Files -> Offs] /\ op[t].f \in Files
    BY CallFields DEF IInv, Typed
  <1>2. isize' \in [Files -> Offs] /\ \A g \in Files \ {op[t].f} : isize'[g] = isize[g]
    BY <1>1
  <1>3. DataOk(mem, blk, iblocks)'
    BY DEF IInv
  <1>4. Idle(FALSE) \in IdleRecs
    BY DEF IdleRecs
  <1>5. IInv'
    BY <1>2, <1>3, <1>4, Ends
  <1>6. QED
    BY <1>2, <1>5 DEF Isolates, OthersKept

(* The end of a write moves the size only.                                 *)
LEMMA RwEndStep ==
  ASSUME IInv, NEW t \in Threads, RwEnd(t)
  PROVE  IInv' /\ Isolates(op[t].f)
  <1>1. Busy(t) /\ ~IsClone(op[t])
    BY DEF RwEnd, Busy, IsClone
  <1>2. op[t].f \in Files /\ op[t].end \in Offs /\ isize \in [Files -> Offs]
    BY <1>1, CallFields DEF IInv, Typed
  <1> DEFINE e == IF op[t].end > isize[op[t].f] THEN op[t].end ELSE isize[op[t].f]
  <1>3. e \in Offs
    BY <1>2
  <1>4. /\ isize' = [isize EXCEPT ![op[t].f] = e] /\ op' = [op EXCEPT ![t] = Idle(FALSE)]
        /\ UNCHANGED <<mem, blk, iblocks, slock>>
    BY DEF RwEnd, Extend, Return
  <1> HIDE DEF e
  <1>5. QED
    BY <1>1, <1>3, <1>4, SizeStep

(* _drop_iblkref                                                           *)
LEMMA DropStep ==
  ASSUME DataOk(mem, blk, iblocks), NEW t, NEW f \in Files, NEW p \in FilePages,
         blk[f][p] # NoBlock, Drop(t, f, p)
  PROVE  /\ DataOk(mem', blk', iblocks') /\ \A g \in Files \ {f} : blk'[g] = blk[g]
         /\ OthersKept(f, blk, mem, mem') /\ Kept(mem, mem')
         /\ \A q \in FilePages : blk'[f][q] = IF q = p THEN NoBlock ELSE blk[f][q]
  <1> DEFINE b == blk[f][p]
             m == Decref(mem, b)
  <1>1. /\ NMapped(blk) \in Nat /\ PoolOk(mem, NMapped(blk)) /\ blk \in Blks
    BY Counts DEF DataOk
  <1>2. b \in Blocks /\ mem.refcnt[b] > 0
    BY LiveRef
  <1>3. /\ mem' = ReleaseRef(m, "i") /\ blk' = WithPage(blk, f, p, NoBlock)
        /\ iblocks' = OneLess(iblocks, f)
    BY DEF Drop, WithPage, OneLess
  <1>4. /\ PoolOk(m, NMapped(blk)) /\ Kept(mem, m)
        /\ m.refcnt = OneLess(mem.refcnt, b)
    BY <1>1, <1>2, DecrefOk DEF OneLess
  <1>5. NMapped(blk') = NMapped(blk) - 1 /\ NMapped(blk') \in Nat
    BY <1>1, <1>3, SetPage, Counts
  <1> HIDE DEF m
  <1>6. /\ PoolOk(mem', NMapped(blk) - 1) /\ mem'.refcnt = m.refcnt /\ mem'.data = m.data
    BY <1>1, <1>3, <1>4, <1>5, ReleaseIblkref
  <1>7. DataOk(mem', blk', iblocks') /\ \A g \in Files \ {f} : blk'[g] = blk[g]
    BY <1>3, <1>4, <1>6, Unlink
  <1>8. Kept(mem, mem')
    BY <1>4, <1>6 DEF Kept
  <1>9. OthersKept(f, blk, mem, mem')
    BY <1>7, <1>8, KeptOthers
  <1>10. \A q \in FilePages : blk'[f][q] = IF q = p THEN NoBlock ELSE blk[f][q]
    BY <1>1, <1>3 DEF Blks, WithPage
  <1>11. QED
    BY <1>7, <1>8, <1>9, <1>10

(* Bytes are written in place.                                             *)
LEMMA FillInPlace ==
  ASSUME DataOk(mem, blk, iblocks), NEW b \in Blocks, NEW lo, NEW hi, NEW v \in Bytes,
         mem' = Fill(mem, b, lo, hi, v), blk' = blk, iblocks' = iblocks
  PROVE  DataOk(mem', blk', iblocks')
  <1>1. NMapped(blk) \in Nat /\ PoolOk(mem, NMapped(blk))
    BY Counts DEF DataOk
  <1>2. PoolOk(mem', NMapped(blk)) /\ mem'.refcnt = mem.refcnt
    BY <1>1, FillOk
  <1>3. \A c \in Blocks : mem.refcnt[c] <= mem'.refcnt[c]
    <2>1. mem.refcnt \in [Blocks -> Nat]
      BY <1>1, PoolFacts
    <2>2. QED
      BY <1>2, <2>1
  <1>4. QED
    BY <1>2, <1>3, SameFiles

(* A call that holds nothing goes on from x.                               *)
LEMMA GoesOn ==
  ASSUME IInv, NEW t \in Threads, Busy(t), ~IsClone(op[t]), NEW x \in Nat, Advance(t, x),
         slock' = slock, isize' \in [Files -> Offs], DataOk(mem', blk', iblocks'),
         \A g \in Files \ {op[t].f} : blk'[g] = blk[g],
         op'[t].k = op[t].k => CallOk(t)'
  PROVE  IInv'
  <1> DEFINE w == [op[t] EXCEPT !.off = x]
  <1>1. w \in CallRecs /\ op' = [op EXCEPT ![t] = w] /\ w.f = op[t].f /\ w.s = op[t].s
    BY Advanced
  <1>2. CallOk(t)'
    BY Advanced
  <1>3. slock # t
    BY DEF IInv, LockedByClone
  <1> HIDE DEF w
  <1>4. QED
    BY <1>1, <1>2, <1>3, Goes

(* _punch_hole, also for _collapse_range, whose range is whole pages.      *)
LEMMA PunchPageStep ==
  ASSUME IInv, NEW t \in Threads, PunchPage(t)
  PROVE  IInv' /\ (op[t].k # "punch" => Isolates(op[t].f))
  <1> DEFINE o == op[t]
             p == Page(o.off)
             b == blk[o.f][p]
             nxt == NextPage(o.off)
             len == Least(nxt, o.end) - o.off
             lo == o.off % PageSize
  <1>1. Busy(t) /\ o.k \in {"punch", "collapse"} /\ o.off < o.end /\ ~IsClone(op[t])
    BY DEF PunchPage, Busy, IsClone
  <1>2. /\ o.f \in Files /\ p \in FilePages /\ nxt \in Nat /\ o.off \in Nat /\ o.from \in Nat
        /\ o.end \in Nat
    BY <1>1, CallFields, OffInFile
  <1>3. DataOk(mem, blk, iblocks) /\ blk \in Blks /\ isize \in [Files -> Offs] /\ CallOk(t)
    BY DEF IInv, DataOk, Typed
  <1>4. /\ Advance(t, nxt) /\ isize' = isize /\ slock' = slock
        /\ \/ b = NoBlock /\ UNCHANGED <<mem, blk, iblocks>>
           \/ /\ b # NoBlock /\ len < PageSize
              /\ mem' = Fill(mem, b, lo, lo + len, 0)
              /\ UNCHANGED <<blk, iblocks>>
           \/ b # NoBlock /\ len = PageSize /\ Drop(t, o.f, p)
    BY DEF PunchPage
  <1>5. /\ op'[t].k = o.k /\ op'[t].f = o.f /\ op'[t].off = nxt /\ op'[t].from = o.from
        /\ op'[t].end = o.end
    BY <1>1, <1>2, <1>4, Advanced
  <1>6. ASSUME o.k = "collapse"
        PROVE  /\ Aligned(o.from) /\ Aligned(o.off) /\ Aligned(o.end) /\ o.from <= o.off
               /\ \A q \in FilePages :
                    Page(o.from) <= q /\ q < Page(o.off) => blk[o.f][q] = NoBlock
               /\ nxt <= o.end /\ ~(len < PageSize)
    <2>1. /\ Aligned(o.from) /\ Aligned(o.off) /\ Aligned(o.end) /\ o.from <= o.off
          /\ \A q \in FilePages :
               Page(o.from) <= q /\ q < Page(o.off) => blk[o.f][q] = NoBlock
      BY <1>3, <1>6 DEF CallOk, CollapseOk
    <2>2. nxt <= o.end
      BY <1>1, <1>2, <2>1, AlignedFacts
    <2>3. o.off = Page(o.off) * PageSize
      BY <1>2, <2>1, AlignedFacts
    <2>4. nxt = Page(o.off) * PageSize + PageSize
      BY <1>2, PageFacts
    <2>5. nxt - o.off = PageSize
      BY <1>2, <2>3, <2>4, ConstantsAssumption
    <2>6. Least(nxt, o.end) = nxt
      BY <1>2, <2>2 DEF Least
    <2>7. QED
      BY <2>1, <2>2, <2>5, <2>6, ConstantsAssumption
  <1>7. b \in Blocks \cup {NoBlock}
    BY <1>2, <1>3 DEF Blks
  <1> HIDE DEF o, p, b, nxt, len, lo
  <1>8. DataOk(mem', blk', iblocks') /\ \A g \in Files \ {o.f} : blk'[g] = blk[g]
    <2>1. CASE b = NoBlock /\ UNCHANGED <<mem, blk, iblocks>>
      BY <1>3, <2>1
    <2>2. CASE b # NoBlock /\ mem' = Fill(mem, b, lo, lo + len, 0) /\ UNCHANGED <<blk, iblocks>>
      <3>1. 0 \in Bytes
        BY DEF Bytes
      <3>2. QED
        BY <1>3, <1>7, <2>2, <3>1, FillInPlace
    <2>3. CASE b # NoBlock /\ Drop(t, o.f, p)
      BY <1>2, <1>3, <2>3, DropStep DEF b
    <2>4. QED
      BY <1>4, <2>1, <2>2, <2>3
  <1>9. ASSUME o.k = "collapse"
        PROVE  /\ OthersKept(o.f, blk, mem, mem')
               /\ \A q \in FilePages : blk'[o.f][q] = IF q = p THEN NoBlock ELSE blk[o.f][q]
    <2>1. CASE b = NoBlock /\ UNCHANGED <<mem, blk, iblocks>>
      BY <2>1 DEF OthersKept, b
    <2>2. CASE b # NoBlock /\ Drop(t, o.f, p)
      <3> DEFINE f == o.f
      <3>1. blk[f][p] # NoBlock /\ Drop(t, f, p) /\ f \in Files
        BY <1>2, <2>2 DEF b
      <3> HIDE DEF f
      <3>2. /\ OthersKept(f, blk, mem, mem')
            /\ \A q \in FilePages : blk'[f][q] = IF q = p THEN NoBlock ELSE blk[f][q]
        BY <1>2, <1>3, <3>1, DropStep
      <3>3. QED
        BY <3>2 DEF f
    <2>3. QED
      BY <1>4, <1>6, <1>9, <2>1, <2>2
  <1>10. CallOk(t)'
    <2>1. CASE o.k = "punch"
      BY <1>5, <2>1, PlainCall
    <2>2. CASE o.k = "collapse"
      <3>1. Aligned(nxt) /\ Page(nxt) = p + 1 /\ o.off < nxt
        BY <1>2, PageFacts DEF Aligned, nxt, p
      <3>2. o.from <= nxt
        BY <1>2, <1>6, <2>2, <3>1
      <3>3. \A q \in FilePages : Page(o.from) <= q /\ q < Page(nxt) => blk'[o.f][q] = NoBlock
        <4> SUFFICES ASSUME NEW q \in FilePages, Page(o.from) <= q, q < Page(nxt)
                     PROVE  blk'[o.f][q] = NoBlock
          OBVIOUS
        <4>1. q \in Int /\ p \in Int
          BY <1>2 DEF FilePages
        <4>2. q = p \/ q < p
          BY <3>1, <4>1
        <4>3. q < p => blk[o.f][q] = NoBlock
          BY <1>6, <2>2 DEF p
        <4>4. QED
          BY <1>9, <2>2, <4>2, <4>3
      <3>4. CollapseOk(op[t])'
        BY <1>5, <1>6, <2>2, <3>1, <3>2, <3>3 DEF CollapseOk, Aligned, Page
      <3>5. QED
        BY <1>5, <2>2, <3>4 DEF CallOk, CloneFileOk, CloneRangeOk, MmapOk, TruncOk
    <2>3. QED
      BY <1>1, <2>1, <2>2
  <1>11. IInv'
    BY <1>1, <1>2, <1>3, <1>4, <1>8, <1>10, GoesOn DEF o
  <1>12. o.k # "punch" => Isolates(o.f)
    BY <1>1, <1>4, <1>8, <1>9 DEF Isolates
  <1>13. QED
    BY <1>11, <1>12 DEF o

(* A call returns and changes nothing.                                     *)
LEMMA ReturnStep ==
  ASSUME IInv, NEW t \in Threads, Busy(t), ~IsClone(op[t]), Return(t),
         UNCHANGED <<mem, files, slock>>
  PROVE  IInv' /\ Isolates(op[t].f)
  <1>1. Idle(FALSE) \in IdleRecs /\ op' = [op EXCEPT ![t] = Idle(FALSE)]
    BY DEF IdleRecs, Return
  <1>2. mem' = mem /\ blk' = blk /\ isize' = isize /\ iblocks' = iblocks /\ slock' = slock
    BY DEF files
  <1>3. DataOk(mem, blk, iblocks)' /\ isize' \in [Files -> Offs]
    BY <1>2 DEF IInv, Typed
  <1>4. IInv'
    BY <1>1, <1>2, <1>3, Ends
  <1>5. QED
    BY <1>2, <1>4 DEF Isolates, OthersKept

(* A punch returns.                                                        *)
LEMMA PunchEndStep ==
  ASSUME IInv, NEW t \in Threads, PunchEnd(t)
  PROVE  IInv'
  BY ReturnStep DEF PunchEnd, Busy, IsClone

(* _zero_range                                                             *)
LEMMA ZeroBlkStep ==
  ASSUME IInv, NEW t \in Threads, ZeroBlk(t)
  PROVE  IInv'
  <1> DEFINE o == op[t]
             S == BlocksFrom(o.f, Page(o.off))
             p == First(S)
             off == IF o.off = o.from THEN o.from ELSE p * PageSize
             lo == off % PageSize
             len == Least((p + 1) * PageSize, o.end) - off
  <1>1. Busy(t) /\ o.k = "zero" /\ ~IsClone(op[t]) /\ S # {}
    BY DEF ZeroBlk, Busy, IsClone
  <1>2. /\ mem' = Fill(mem, blk[o.f][p], lo, lo + len, 0) /\ Advance(t, (p + 1) * PageSize)
        /\ blk' = blk /\ isize' = isize /\ iblocks' = iblocks /\ slock' = slock
    BY DEF ZeroBlk, files
  <1>3. DataOk(mem, blk, iblocks) /\ blk \in Blks /\ isize \in [Files -> Offs]
    BY DEF IInv, DataOk, Typed
  <1>4. S \in SUBSET Nat /\ o.f \in Files
    BY <1>1, CallFields DEF BlocksFrom, FilePages
  <1>5. p \in S
    BY <1>1, <1>4, FirstFacts
  <1>6. p \in FilePages /\ blk[o.f][p] # NoBlock /\ p \in Nat
    BY <1>5 DEF BlocksFrom, FilePages
  <1> HIDE DEF S, p, off, lo, len
  <1>7. blk[o.f][p] \in Blocks /\ 0 \in Bytes
    BY <1>3, <1>4, <1>6 DEF Blks, Bytes
  <1>8. (p + 1) * PageSize \in Nat
    BY <1>6, PageOfStart
  <1>9. DataOk(mem', blk', iblocks')
    BY <1>2, <1>3, <1>7, FillInPlace
  <1>10. op'[t].k = op[t].k => CallOk(t)'
    BY <1>1, PlainCall
  <1>11. QED
    BY <1>1, <1>2, <1>3, <1>8, <1>9, <1>10, GoesOn

(* A zero-range returns.                                                   *)
LEMMA ZeroEndStep ==
  ASSUME IInv, NEW t \in Threads, ZeroEnd(t)
  PROVE  IInv'
  BY ReturnStep DEF ZeroEnd, Busy, IsClone

(* As many pages before and after they move.                               *)
LEMMA SameCount ==
  ASSUME NEW S, S \subseteq Files \X FilePages \/ S \subseteq FilePages, NEW T,
         NEW F \in [S -> T],
         \A x, y \in S : F[x] = F[y] => x = y,
         \A z \in T : \E x \in S : F[x] = z
  PROVE  Cardinality(S) = Cardinality(T)
  <1>1. F \in Bijection(S, T)
    BY DEF Bijection, Injection, Surjection, IsInjective
  <1>2. ExistsBijection(S, T)
    BY <1>1 DEF ExistsBijection
  <1>3. IsFiniteSet(S)
    BY CountSet
  <1>4. QED
    BY <1>2, <1>3, FS_Bijection

(* The pages of f from e on move down to a, over holes.                    *)
MovedDown(A, B, f, a, d) ==
  /\ \A g \in Files \ {f} : A[g] = B[g]
  /\ \A p \in FilePages :
       A[f][p] = IF p < a THEN B[f][p]
                 ELSE IF p + d < NPages THEN B[f][p + d] ELSE NoBlock

(* References and pages are as many after the move as before.              *)
LEMMA MoveDown ==
  ASSUME NEW B \in Blks, NEW A \in Blks, NEW f \in Files,
         NEW a \in Nat, NEW d \in Nat, a + d <= NPages, MovedDown(A, B, f, a, d),
         \A p \in FilePages : a <= p /\ p < a + d => B[f][p] = NoBlock
  PROVE  /\ \A b \in Blocks : NRefs(A, b) = NRefs(B, b)
         /\ NMapped(A) = NMapped(B)
         /\ \A g \in Files : NMappedOf(A, g) = NMappedOf(B, g)
  <1> DEFINE to(p) == IF p < a THEN p ELSE p + d
             at(fp) == IF fp[1] = f THEN <<f, to(fp[2])>> ELSE fp
  <1>1. NPages \in Nat /\ \A p \in FilePages : p \in Nat /\ p < NPages
    BY ConstantsAssumption DEF FilePages
  <1> USE DEF MovedDown
  <1>2. ASSUME NEW p \in FilePages, A[f][p] # NoBlock
        PROVE  to(p) \in FilePages /\ B[f][to(p)] = A[f][p]
    <2>1. CASE p < a
      BY <2>1
    <2>2. CASE ~(p < a)
      <3>1. p + d < NPages /\ A[f][p] = B[f][p + d]
        BY <1>2, <2>2
      <3>2. p + d \in FilePages
        BY <1>1, <3>1 DEF FilePages
      <3>3. QED
        BY <2>2, <3>1, <3>2
    <2>3. QED
      BY <2>1, <2>2
  <1>3. ASSUME NEW q \in FilePages, B[f][q] # NoBlock
        PROVE  \E p \in FilePages : to(p) = q /\ A[f][p] = B[f][q]
    <2>1. CASE q < a
      BY <2>1
    <2>2. CASE ~(q < a)
      <3>1. q \in Nat /\ a + d <= q /\ q < NPages
        BY <1>1, <1>3, <2>2
      <3>2. q - d \in FilePages /\ ~(q - d < a) /\ (q - d) + d = q
        BY <1>1, <3>1 DEF FilePages
      <3>3. A[f][q - d] = B[f][q]
        BY <3>1, <3>2
      <3>4. QED
        BY <3>2, <3>3
    <2>3. QED
      BY <2>1, <2>2
  <1>4. \A p, q \in FilePages : to(p) = to(q) => p = q
    BY <1>1
  <1> HIDE DEF to
  <1>5. ASSUME NEW C, NoBlock \notin C
        PROVE  Cardinality({fp \in Files \X FilePages : A[fp[1]][fp[2]] \in C}) =
               Cardinality({fp \in Files \X FilePages : B[fp[1]][fp[2]] \in C})
    <2> DEFINE S == {fp \in Files \X FilePages : A[fp[1]][fp[2]] \in C}
               T == {fp \in Files \X FilePages : B[fp[1]][fp[2]] \in C}
               F == [x \in S |-> at(x)]
    <2>1. ASSUME NEW x \in S PROVE at(x) \in T
      <3>1. x = <<x[1], x[2]>> /\ x[1] \in Files /\ x[2] \in FilePages /\ A[x[1]][x[2]] \in C
        OBVIOUS
      <3>2. CASE x[1] = f
        BY <1>2, <1>5, <3>1, <3>2
      <3>3. CASE x[1] # f
        BY <3>1, <3>3
      <3>4. QED
        BY <3>2, <3>3
    <2>2. ASSUME NEW x \in S, NEW y \in S, at(x) = at(y) PROVE x = y
      <3>1. /\ x = <<x[1], x[2]>> /\ x[2] \in FilePages
            /\ y = <<y[1], y[2]>> /\ y[2] \in FilePages
        OBVIOUS
      <3>2. QED
        BY <1>4, <2>2, <3>1
    <2>3. ASSUME NEW z \in T PROVE \E x \in S : at(x) = z
      <3>1. z = <<z[1], z[2]>> /\ z[1] \in Files /\ z[2] \in FilePages /\ B[z[1]][z[2]] \in C
        OBVIOUS
      <3>2. CASE z[1] = f
        <4>1. PICK p \in FilePages : to(p) = z[2] /\ A[f][p] = B[f][z[2]]
          BY <1>3, <1>5, <3>1, <3>2
        <4>2. <<f, p>> \in S
          BY <3>1, <3>2, <4>1
        <4>3. at(<<f, p>>) = z
          BY <3>1, <3>2, <4>1
        <4>4. QED
          BY <4>2, <4>3
      <3>3. CASE z[1] # f
        BY <3>1, <3>3
      <3>4. QED
        BY <3>2, <3>3
    <2>4. S \subseteq Files \X FilePages
      OBVIOUS
    <2> HIDE DEF S, T, at
    <2>5. F \in [S -> T] /\ \A x \in S : F[x] = at(x)
      BY <2>1
    <2>6. (\A x, y \in S : F[x] = F[y] => x = y) /\ \A z \in T : \E x \in S : F[x] = z
      BY <2>2, <2>3, <2>5
    <2> HIDE DEF F
    <2>7. Cardinality(S) = Cardinality(T)
      BY <2>4, <2>5, <2>6, SameCount
    <2>8. QED
      BY <2>7 DEF S, T
  <1>6. ASSUME NEW b \in Blocks PROVE NRefs(A, b) = NRefs(B, b)
    <2>1. NoBlock \notin {b}
      BY DEF NoBlock, Blocks
    <2>2. /\ RefsOf(A, b) = {fp \in Files \X FilePages : A[fp[1]][fp[2]] \in {b}}
          /\ RefsOf(B, b) = {fp \in Files \X FilePages : B[fp[1]][fp[2]] \in {b}}
      BY DEF RefsOf
    <2>3. QED
      BY <1>5, <2>1, <2>2 DEF NRefs
  <1>7. NMapped(A) = NMapped(B)
    <2>1. NoBlock \notin Blocks
      BY DEF NoBlock, Blocks
    <2>2. /\ Mapped(A) = {fp \in Files \X FilePages : A[fp[1]][fp[2]] \in Blocks}
          /\ Mapped(B) = {fp \in Files \X FilePages : B[fp[1]][fp[2]] \in Blocks}
      BY <2>1 DEF Mapped, Blks
    <2>3. QED
      BY <1>5, <2>1, <2>2 DEF NMapped
  <1>8. NMappedOf(A, f) = NMappedOf(B, f)
    <2> DEFINE S == MappedOf(A, f)
               T == MappedOf(B, f)
               F == [x \in S |-> to(x)]
    <2>1. ASSUME NEW x \in S PROVE to(x) \in T
      BY <1>2 DEF MappedOf
    <2>2. ASSUME NEW z \in T PROVE \E x \in S : to(x) = z
      BY <1>3 DEF MappedOf
    <2>3. S \subseteq FilePages
      BY DEF MappedOf
    <2> HIDE DEF S, T
    <2>4. F \in [S -> T] /\ \A x \in S : F[x] = to(x)
      BY <2>1
    <2>5. (\A x, y \in S : F[x] = F[y] => x = y) /\ \A z \in T : \E x \in S : F[x] = z
      BY <1>4, <2>2, <2>3, <2>4
    <2> HIDE DEF F
    <2>6. Cardinality(S) = Cardinality(T)
      BY <2>3, <2>4, <2>5, SameCount
    <2>7. QED
      BY <2>6 DEF S, T, NMappedOf
  <1>9. \A g \in Files \ {f} : NMappedOf(A, g) = NMappedOf(B, g)
    BY DEF NMappedOf, MappedOf
  <1>10. QED
    BY <1>6, <1>7, <1>8, <1>9

(* The rest of _collapse_range.                                            *)
LEMMA CollapseEndStep ==
  ASSUME IInv, NEW t \in Threads, CollapseEnd(t)
  PROVE  IInv' /\ Isolates(op[t].f)
  <1> DEFINE o == op[t]
             len == o.end - o.from
             a == Page(o.from)
             d == Page(len)
             size == CollapsedSize(isize[o.f], len)
  <1>1. Busy(t) /\ o.k = "collapse" /\ o.off >= o.end /\ ~IsClone(op[t])
    BY DEF CollapseEnd, Busy, IsClone
  <1>2. o.f \in Files /\ o.from \in Nat /\ o.off \in Nat /\ o.end \in Nat /\ o.end \in Offs
    BY <1>1, CallFields
  <1>3. /\ isize' = [isize EXCEPT ![o.f] = size]
        /\ blk' = [blk EXCEPT ![o.f] =
                     [p \in FilePages |->
                        IF p < a THEN blk[o.f][p]
                        ELSE IF p + d < NPages THEN blk[o.f][p + d]
                        ELSE NoBlock]]
        /\ op' = [op EXCEPT ![t] = Idle(FALSE)]
        /\ mem' = mem /\ iblocks' = iblocks /\ slock' = slock
    BY DEF CollapseEnd, Return
  <1>4. DataOk(mem, blk, iblocks) /\ blk \in Blks /\ isize \in [Files -> Offs] /\ CallOk(t)
    BY DEF IInv, DataOk, Typed
  <1>5. /\ Aligned(o.from) /\ Aligned(o.end) /\ o.from <= o.off /\ o.off <= o.end
        /\ \A p \in FilePages : a <= p /\ p < Page(o.off) => blk[o.f][p] = NoBlock
    BY <1>1, <1>4 DEF CallOk, CollapseOk
  <1>6. o.off = o.end /\ o.from <= o.end
    BY <1>1, <1>2, <1>5
  <1>7. a \in Nat /\ d \in Nat /\ len \in Nat /\ a + d = Page(o.off) /\ a + d <= NPages
    <2>1. len \in Nat /\ Page(len) = Page(o.end) - Page(o.from)
      BY <1>2, <1>5, <1>6, AlignedFacts
    <2>2. Page(o.from) \in Nat /\ Page(len) \in Nat /\ Page(o.end) \in Nat
      BY <1>2, <2>1, PageFacts
    <2>3. Page(o.end) <= NPages
      <3>1. MaxOff \in Nat /\ o.end <= MaxOff
        BY <1>2, PageInFile DEF Offs
      <3>2. QED
        BY <1>2, <3>1, PageInFile
    <2>4. QED
      BY <1>6, <2>1, <2>2, <2>3
  <1>8. size \in Offs
    <2>1. isize[o.f] \in Offs
      BY <1>2, <1>4
    <2>2. QED
      BY <1>7, <2>1, PageInFile DEF CollapsedSize, Offs
  <1> HIDE DEF o, len, a, d, size
  <1>9. \A p \in FilePages : p + d < NPages => p + d \in FilePages
    BY <1>7, ConstantsAssumption DEF FilePages
  <1>10. /\ blk' \in Blks /\ \A g \in Files \ {o.f} : blk'[g] = blk[g]
         /\ \A p \in FilePages :
              blk'[o.f][p] = IF p < a THEN blk[o.f][p]
                             ELSE IF p + d < NPages THEN blk[o.f][p + d] ELSE NoBlock
    BY <1>2, <1>3, <1>4, <1>9 DEF Blks
  <1>11. /\ \A b \in Blocks : NRefs(blk', b) = NRefs(blk, b)
         /\ NMapped(blk') = NMapped(blk)
         /\ \A g \in Files : NMappedOf(blk', g) = NMappedOf(blk, g)
    <2>1. \A p \in FilePages : a <= p /\ p < a + d => blk[o.f][p] = NoBlock
      BY <1>5, <1>7
    <2>2. MovedDown(blk', blk, o.f, a, d)
      BY <1>10 DEF MovedDown
    <2>3. blk' \in Blks
      BY <1>10
    <2>4. QED
      BY <1>2, <1>4, <1>7, <2>1, <2>2, <2>3, MoveDown
  <1>12. DataOk(mem', blk', iblocks')
    BY <1>3, <1>4, <1>10, <1>11 DEF DataOk, Covered, Counted
  <1>13. isize' \in [Files -> Offs] /\ \A g \in Files \ {o.f} : isize'[g] = isize[g]
    BY <1>2, <1>3, <1>4, <1>8
  <1>14. Idle(FALSE) \in IdleRecs
    BY DEF IdleRecs
  <1>15. IInv'
    BY <1>1, <1>3, <1>10, <1>12, <1>13, <1>14, Ends DEF o
  <1>16. Isolates(o.f)
    BY <1>3, <1>10, <1>13 DEF Isolates, OthersKept
  <1>17. QED
    BY <1>15, <1>16 DEF o

(* toyfs_truncate to a smaller size, and a clone over a file, drop blocks. *)
LEMMA DropRangeStep ==
  ASSUME IInv, NEW t \in Threads, DropRange(t)
  PROVE  IInv' /\ Isolates(op[t].f)
  <1> DEFINE o == op[t]
             p == First(Doomed(o))
  <1>1. Busy(t) /\ o.k \in {"trunc", "clonefile"} /\ slock # t /\ Doomed(o) # {}
    BY DEF DropRange, Busy
  <1>2. Drop(t, o.f, p) /\ isize' = isize /\ slock' = slock /\ op' = op
    BY DEF DropRange
  <1>3. DataOk(mem, blk, iblocks) /\ isize \in [Files -> Offs] /\ CallOk(t)
    BY DEF IInv, Typed
  <1>4. o.f \in Files /\ o \in CallRecs
    BY <1>1, CallFields
  <1>5. Doomed(o) \in SUBSET Nat /\ \A q \in Doomed(o) : q \in FilePages /\ blk[o.f][q] # NoBlock
    BY DEF Doomed, BlocksFrom, FilePages
  <1>6. p \in FilePages /\ blk[o.f][p] # NoBlock
    BY <1>1, <1>5, FirstFacts
  <1> HIDE DEF p
  <1>7. /\ DataOk(mem', blk', iblocks') /\ \A g \in Files \ {o.f} : blk'[g] = blk[g]
        /\ OthersKept(o.f, blk, mem, mem')
    BY <1>2, <1>3, <1>4, <1>6, DropStep
  <1>8. CallOk(t)'
    BY <1>1, <1>2, <1>3
       DEF CallOk, CollapseOk, CloneFileOk, CloneRangeOk, MmapOk, TruncOk
  <1>9. op' = [op EXCEPT ![t] = op[t]]
    BY <1>2 DEF IInv, Typed
  <1>10. IInv'
    BY <1>1, <1>2, <1>3, <1>4, <1>7, <1>8, <1>9, Goes
  <1>11. QED
    BY <1>2, <1>7, <1>10 DEF Isolates

(* The block that _zero_after clears the end of.                           *)
LEMMA TailFacts ==
  ASSUME IInv, NEW t \in Threads, Busy(t), TailBlk(op[t]) # NoBlock
  PROVE  /\ Page(op[t].end) \in FilePages
         /\ TailBlk(op[t]) = blk[op[t].f][Page(op[t].end)]
         /\ TailBlk(op[t]) \in Blocks
  <1>1. op[t].end < isize[op[t].f] /\ TailBlk(op[t]) = blk[op[t].f][Page(op[t].end)]
    BY DEF TailBlk
  <1>2. op[t].end \in Nat /\ op[t].f \in Files
    BY CallFields
  <1>3. isize[op[t].f] \in Offs
    BY <1>2 DEF IInv, Typed
  <1>4. Page(op[t].end) \in FilePages
    BY <1>1, <1>2, <1>3, OffInFile
  <1>5. QED
    BY <1>1, <1>2, <1>4 DEF IInv, DataOk, Blks

(* _zero_after, of a block that is not shared.                             *)
LEMMA TruncEndStep ==
  ASSUME IInv, NEW t \in Threads, TruncEnd(t)
  PROVE  IInv' /\ Isolates(op[t].f)
  <1> DEFINE o == op[t]
             b == TailBlk(o)
             lo == o.end % PageSize
  <1>1. Busy(t) /\ o.k = "trunc" /\ ~IsClone(op[t])
    BY DEF TruncEnd, Busy, IsClone
  <1>2. /\ b # NoBlock => mem.refcnt[b] <= 1
        /\ mem' = IF b = NoBlock THEN mem ELSE Fill(mem, b, lo, PageSize, 0)
        /\ isize' = [isize EXCEPT ![o.f] = o.end] /\ op' = [op EXCEPT ![t] = Idle(FALSE)]
        /\ blk' = blk /\ iblocks' = iblocks /\ slock' = slock
    BY DEF TruncEnd, Return
  <1>3. DataOk(mem, blk, iblocks) /\ blk \in Blks /\ isize \in [Files -> Offs]
    BY DEF IInv, DataOk, Typed
  <1>4. o.f \in Files /\ o.end \in Offs
    BY <1>1, CallFields
  <1>5. /\ isize' \in [Files -> Offs] /\ \A g \in Files \ {o.f} : isize'[g] = isize[g]
        /\ Idle(FALSE) \in IdleRecs
    BY <1>2, <1>3, <1>4 DEF IdleRecs
  <1> HIDE DEF b, lo
  <1>6. DataOk(mem', blk', iblocks') /\ OthersKept(o.f, blk, mem, mem')
    <2>1. OthersKept(o.f, blk, mem, mem)
      BY DEF OthersKept
    <2>2. CASE b = NoBlock
      BY <1>2, <1>3, <2>1, <2>2
    <2>3. CASE b # NoBlock
      <3> DEFINE p == Page(o.end)
      <3>1. p \in FilePages /\ b = blk[o.f][p] /\ b \in Blocks
        BY <1>1, <2>3, TailFacts DEF b
      <3>2. 0 \in Bytes /\ NMapped(blk) \in Nat /\ PoolOk(mem, NMapped(blk))
        BY <1>3, Counts DEF Bytes, DataOk
      <3>3. mem' = Fill(mem, b, lo, PageSize, 0)
        BY <1>2, <2>3
      <3>4. DataOk(mem', blk', iblocks')
        BY <1>2, <1>3, <3>1, <3>2, <3>3, FillInPlace
      <3> HIDE DEF p
      <3>5. \A g \in Files \ {o.f}, q \in FilePages : blk[g][q] # b
        <4> SUFFICES ASSUME NEW g \in Files \ {o.f}, NEW q \in FilePages,
                            blk[g][q] = blk[o.f][p]
                     PROVE  FALSE
          BY <3>1
        <4>1. mem.refcnt[b] > 1 /\ mem.refcnt[b] \in Nat
          BY <1>3, <1>4, <2>3, <3>1, LiveRef
        <4>2. QED
          BY <1>2, <2>3, <4>1
      <3>6. OthersKept(o.f, blk, mem, mem')
        BY <1>3, <2>1, <3>1, <3>2, <3>3, <3>5, FillOthers
      <3>7. QED
        BY <3>4, <3>6
    <2>4. QED
      BY <2>2, <2>3
  <1>7. IInv'
    BY <1>1, <1>2, <1>5, <1>6, Ends
  <1>8. QED
    BY <1>2, <1>5, <1>6, <1>7 DEF Isolates

(* A truncate goes on to load or to store the count.                       *)
LEMMA TruncGoes ==
  ASSUME IInv, NEW t \in Threads, Busy(t), op[t].k \in {"trunc", "load"},
         NEW k \in {"load", "store"}, NEW b \in Blocks, NEW r \in Nat,
         op' = [op EXCEPT ![t] = [op[t] EXCEPT !.k = k, !.b = b, !.r = r]],
         blk' = blk, isize' = isize, slock' = slock, DataOk(mem', blk', iblocks'),
         mem'.refcnt[b] > 0, NRefs(blk, b) = 0,
         TailBlk(op[t]) # NoBlock, mem'.refcnt[TailBlk(op[t])] > 1,
         k = "store" => r = mem'.refcnt[TailBlk(op[t])]
  PROVE  IInv'
  <1> DEFINE w == [op[t] EXCEPT !.k = k, !.b = b, !.r = r]
  <1>1. op \in [Threads -> IdleRecs \cup CallRecs] /\ isize \in [Files -> Offs]
    BY DEF IInv, Typed
  <1>2. op[t] \in CallRecs
    BY CallFields
  <1>3. k \in Kinds
    BY DEF Kinds
  <1>4. /\ w \in CallRecs /\ w.f = op[t].f /\ w.s = op[t].s /\ w.k = k /\ w.b = b /\ w.r = r
        /\ w.end = op[t].end
    BY <1>2, <1>3 DEF CallRecs
  <1> HIDE DEF w
  <1>5. op' = [op EXCEPT ![t] = w] /\ op'[t] = w
    BY <1>1 DEF w
  <1>6. slock # t /\ Threads = {t}
    BY DEF IInv, LockedByClone, IsClone, CallOk, TruncOk
  <1>7. TailBlk(op[t])' = TailBlk(op[t])
    BY <1>4, <1>5 DEF TailBlk, Page
  <1>8. NRefs(blk', b) = 0
    OBVIOUS
  <1>9. TruncOk(t, op[t])'
    BY <1>4, <1>5, <1>6, <1>7, <1>8 DEF TruncOk
  <1>10. CallOk(t)'
    BY <1>4, <1>5, <1>9 DEF CallOk, CollapseOk, CloneFileOk, CloneRangeOk, MmapOk
  <1>11. QED
    BY <1>1, <1>4, <1>5, <1>6, <1>10, Goes

(* _unique_pmemb on behalf of toyfs_truncate: the copy, ...                *)
LEMMA TruncCopyStep ==
  ASSUME IInv, NEW t \in Threads, TruncCopy(t)
  PROVE  IInv' /\ Isolates(op[t].f)
  <1> DEFINE o == op[t]
             b == TailBlk(o)
             n == Copy(mem, b)
  <1>1. Busy(t) /\ o.k = "trunc" /\ ~IsClone(op[t]) /\ b # NoBlock /\ mem.refcnt[b] > 1
    BY DEF TruncCopy, Busy, IsClone
  <1>2. /\ mem' = n.m /\ blk' = blk /\ iblocks' = iblocks /\ slock' = slock
        /\ IF n.b = NoBlock
           THEN op' = [op EXCEPT ![t] = Idle(TRUE)] /\ isize' = [isize EXCEPT ![o.f] = o.end]
           ELSE op' = [op EXCEPT ![t].k = "load", ![t].b = n.b] /\ isize' = isize
    BY DEF TruncCopy, Fail
  <1>3. DataOk(mem, blk, iblocks) /\ blk \in Blks /\ isize \in [Files -> Offs]
    BY DEF IInv, DataOk, Typed
  <1>4. o.f \in Files /\ o.end \in Offs /\ o \in CallRecs /\ o.r \in Nat
    BY <1>1, CallFields
  <1>5. b \in Blocks
    BY <1>1, TailFacts
  <1>6. NMapped(blk) \in Nat /\ PoolOk(mem, NMapped(blk)) /\ mem.refcnt \in [Blocks -> Nat]
    BY <1>3, Counts, PoolFacts DEF DataOk
  <1> HIDE DEF b, n
  <1>7. mem.refcnt[b] > 0
    BY <1>1, <1>5, <1>6
  <1>8. /\ PoolOk(n.m, NMapped(blk)) /\ Kept(mem, n.m)
        /\ \/ n.b = NoBlock /\ n.m.refcnt = mem.refcnt
           \/ /\ n.b \in Blocks /\ mem.refcnt[n.b] = 0
              /\ n.m.refcnt = [mem.refcnt EXCEPT ![n.b] = 1]
    BY <1>5, <1>6, <1>7, CopyOk DEF n
  <1>9. \A c \in Blocks : mem.refcnt[c] <= mem'.refcnt[c]
    BY <1>2, <1>6, <1>8
  <1>10. DataOk(mem', blk', iblocks')
    BY <1>2, <1>3, <1>8, <1>9, SameFiles
  <1>11. OthersKept(o.f, blk, mem, mem')
    BY <1>2, <1>3, <1>8, <1>10, KeptOthers
  <1>12. CASE n.b = NoBlock
    <2>1. op' = [op EXCEPT ![t] = Idle(TRUE)] /\ isize' = [isize EXCEPT ![o.f] = o.end]
      BY <1>2, <1>12
    <2>2. /\ isize' \in [Files -> Offs] /\ \A g \in Files \ {o.f} : isize'[g] = isize[g]
          /\ Idle(TRUE) \in IdleRecs
      BY <1>3, <1>4, <2>1 DEF IdleRecs
    <2>3. IInv'
      BY <1>1, <1>2, <1>10, <2>1, <2>2, Ends
    <2>4. QED
      BY <1>2, <1>11, <2>2, <2>3 DEF Isolates
  <1>13. CASE n.b # NoBlock
    <2>1. op' = [op EXCEPT ![t].k = "load", ![t].b = n.b] /\ isize' = isize
      BY <1>2, <1>13
    <2>2. n.b \in Blocks /\ mem'.refcnt[n.b] = 1 /\ mem'.refcnt[b] = mem.refcnt[b]
      BY <1>2, <1>5, <1>6, <1>7, <1>8, <1>13
    <2>3. NRefs(blk, n.b) = 0
      <3>1. NRefs(blk, n.b) \in Nat /\ NRefs(blk, n.b) <= mem.refcnt[n.b]
        BY <1>3, <2>2, Counts DEF DataOk, Covered
      <3>2. QED
        BY <1>8, <1>13, <3>1
    <2> DEFINE c == n.b
               k == "load"
               r == o.r
    <2>4. op' = [op EXCEPT ![t] = [op[t] EXCEPT !.k = k, !.b = c, !.r = r]]
      BY <1>4, <2>1 DEF CallRecs
    <2>5. c \in Blocks /\ mem'.refcnt[c] > 0 /\ NRefs(blk, c) = 0
      BY <2>2, <2>3
    <2>6. TailBlk(op[t]) # NoBlock /\ mem'.refcnt[TailBlk(op[t])] > 1
      BY <1>1, <2>2 DEF b
    <2>7. k \in {"load", "store"} /\ (k = "store" => r = mem'.refcnt[TailBlk(op[t])])
      OBVIOUS
    <2>8. r \in Nat
      BY <1>4
    <2> HIDE DEF c, k, r
    <2>9. IInv'
      BY <1>1, <1>2, <1>10, <2>1, <2>4, <2>5, <2>6, <2>7, <2>8, TruncGoes
    <2>10. QED
      BY <1>2, <1>11, <2>1, <2>9 DEF Isolates
  <1>14. QED
    BY <1>12, <1>13

(* ... the load of the count ...                                           *)
LEMMA TruncLoadStep ==
  ASSUME IInv, NEW t \in Threads, TruncLoad(t)
  PROVE  IInv' /\ Isolates(op[t].f)
  <1> DEFINE o == op[t]
             b == TailBlk(o)
             r == mem.refcnt[b]
             c == o.b
             k == "store"
  <1>1. Busy(t) /\ o.k = "load"
    BY DEF TruncLoad, Busy
  <1>2. /\ op' = [op EXCEPT ![t].k = "store", ![t].r = r]
        /\ mem' = mem /\ blk' = blk /\ isize' = isize /\ iblocks' = iblocks /\ slock' = slock
    BY DEF TruncLoad, files
  <1>3. /\ c \in Blocks /\ mem.refcnt[c] > 0 /\ NRefs(blk, c) = 0
        /\ b # NoBlock /\ r > 1
    BY <1>1 DEF IInv, CallOk, TruncOk
  <1>4. o \in CallRecs
    BY <1>1, CallFields
  <1>5. r \in Nat
    <2>1. mem.refcnt \in [Blocks -> Nat]
      BY Counts, PoolFacts DEF IInv, DataOk
    <2>2. b \in Blocks
      BY <1>1, <1>3, TailFacts
    <2>3. QED
      BY <2>1, <2>2
  <1>6. op' = [op EXCEPT ![t] = [op[t] EXCEPT !.k = k, !.b = c, !.r = r]]
    BY <1>2, <1>4 DEF CallRecs
  <1>7. DataOk(mem', blk', iblocks')
    BY <1>2 DEF IInv
  <1>8. /\ mem'.refcnt[c] > 0 /\ mem'.refcnt[TailBlk(op[t])] > 1
        /\ r = mem'.refcnt[TailBlk(op[t])]
        /\ TailBlk(op[t]) # NoBlock
    BY <1>2, <1>3
  <1>9. k \in {"load", "store"}
    OBVIOUS
  <1> HIDE DEF r, c, k
  <1>10. IInv'
    BY <1>1, <1>2, <1>3, <1>5, <1>6, <1>7, <1>8, <1>9, TruncGoes
  <1>11. QED
    BY <1>2, <1>10 DEF Isolates, OthersKept

(* ... and the store.                                                      *)
LEMMA TruncStoreStep ==
  ASSUME IInv, NEW t \in Threads, TruncStore(t)
  PROVE  IInv' /\ Isolates(op[t].f)
  <1> DEFINE o == op[t]
             b == TailBlk(o)
             p == Page(o.end)
             c == o.b
             m == [mem EXCEPT !.refcnt[b] = o.r - 1]
             lo == o.end % PageSize
  <1>1. Busy(t) /\ o.k = "store" /\ ~IsClone(op[t])
    BY DEF TruncStore, Busy, IsClone
  <1>2. /\ mem' = Fill(m, c, lo, PageSize, 0)
        /\ blk' = WithPage(blk, o.f, p, c)
        /\ isize' = [isize EXCEPT ![o.f] = o.end] /\ op' = [op EXCEPT ![t] = Idle(FALSE)]
        /\ iblocks' = iblocks /\ slock' = slock
    BY DEF TruncStore, Return, WithPage
  <1>3. DataOk(mem, blk, iblocks) /\ blk \in Blks /\ isize \in [Files -> Offs]
    BY DEF IInv, DataOk, Typed
  <1>4. o.f \in Files /\ o.end \in Offs /\ o.r \in Nat
    BY <1>1, CallFields
  <1>5. /\ c \in Blocks /\ mem.refcnt[c] > 0 /\ NRefs(blk, c) = 0
        /\ b # NoBlock /\ mem.refcnt[b] > 1 /\ o.r = mem.refcnt[b]
    BY <1>1 DEF IInv, CallOk, TruncOk
  <1>6. p \in FilePages /\ b = blk[o.f][p] /\ b \in Blocks
    BY <1>1, <1>5, TailFacts
  <1>7. NMapped(blk) \in Nat /\ PoolOk(mem, NMapped(blk)) /\ mem.refcnt \in [Blocks -> Nat]
    BY <1>3, Counts, PoolFacts DEF DataOk
  <1>8. b # c /\ \A g \in Files, q \in FilePages : blk[g][q] # c
    <2>1. \A g \in Files, q \in FilePages : NRefs(blk, blk[g][q]) > 0
      BY RefCounts
    <2>2. QED
      BY <1>4, <1>5, <1>6, <2>1
  <1> DEFINE r == o.r - 1
  <1>9. m = WithCount(mem, b, r) /\ r \in Nat \ {0} /\ mem.refcnt[b] > 0
    BY <1>4, <1>5 DEF WithCount
  <1> HIDE DEF b, p, c, m, lo, r
  <1>10. /\ PoolOk(m, NMapped(blk)) /\ m.data = mem.data
         /\ m.refcnt = [mem.refcnt EXCEPT ![b] = r]
    BY <1>6, <1>7, <1>9, RecountOk
  <1>11. 0 \in Bytes
    BY DEF Bytes
  <1>12. PoolOk(mem', NMapped(blk)) /\ mem'.refcnt = m.refcnt
    BY <1>2, <1>5, <1>7, <1>10, <1>11, FillOk
  <1>13. PagesWith(blk, o.f, p) = NMapped(blk) /\ iblocks' = CountsWith(blk, iblocks, o.f, p)
    BY <1>2, <1>5, <1>6 DEF PagesWith, CountsWith
  <1>14. /\ mem'.refcnt[c] = mem.refcnt[c] /\ mem'.refcnt[b] = r
         /\ \A x \in Blocks : x # b => mem'.refcnt[x] = mem.refcnt[x]
    BY <1>5, <1>6, <1>7, <1>8, <1>10, <1>12
  <1>15. DataOk(mem', blk', iblocks') /\ \A g \in Files \ {o.f} : blk'[g] = blk[g]
    <2>1. NRefs(blk, c) < mem'.refcnt[c] /\ blk[o.f][p] # c
      BY <1>5, <1>7, <1>8, <1>14, <1>6
    <2>2. mem.refcnt[blk[o.f][p]] <= mem'.refcnt[blk[o.f][p]] + 1
      <3>1. mem.refcnt[b] <= mem'.refcnt[b] + 1
        BY <1>4, <1>5, <1>14 DEF r
      <3>2. QED
        BY <1>6, <3>1
    <2>3. \A x \in Blocks : x # c /\ x # blk[o.f][p] => mem.refcnt[x] <= mem'.refcnt[x]
      BY <1>6, <1>7, <1>14
    <2>4. QED
      BY <1>2, <1>3, <1>4, <1>5, <1>6, <1>12, <1>13, <2>1, <2>2, <2>3, Relink
  <1>16. OthersKept(o.f, blk, mem, mem')
    <2>1. OthersKept(o.f, blk, mem, m)
      BY <1>10 DEF OthersKept
    <2>2. QED
      BY <1>2, <1>3, <1>5, <1>7, <1>8, <1>10, <1>11, <2>1, FillOthers
  <1>17. /\ isize' \in [Files -> Offs] /\ \A g \in Files \ {o.f} : isize'[g] = isize[g]
         /\ Idle(FALSE) \in IdleRecs
    BY <1>2, <1>3, <1>4 DEF IdleRecs
  <1>18. IInv'
    BY <1>1, <1>2, <1>15, <1>17, Ends
  <1>19. QED
    BY <1>15, <1>16, <1>17, <1>18 DEF Isolates

(* The clones take s_mutex, ...                                            *)
LEMMA CloneLockStep ==
  ASSUME IInv, NEW t \in Threads, CloneLock(t)
  PROVE  IInv' /\ Isolates(op[t].f)
  <1> DEFINE o == op[t]
  <1>1. IsClone(o) /\ Busy(t) /\ (o.k = "clonefile" => Doomed(o) = {}) /\ slock = NoThread
    BY DEF CloneLock, IsClone, Busy
  <1>2. /\ slock' = t /\ op' = op
        /\ mem' = mem /\ blk' = blk /\ isize' = isize /\ iblocks' = iblocks
    BY DEF CloneLock, files
  <1>3. CallOk(t) /\ slock # t
    BY <1>1, ConstantsAssumption DEF IInv
  <1>4. o.f \in Files
    BY <1>1, CallFields
  <1>5. CloneFileOk(t, op[t])'
    <2> SUFFICES ASSUME o.k = "clonefile"
                 PROVE  /\ o.f # o.s
                        /\ \A p \in FilePages :
                             blk[o.f][p] = IF p < Page(o.off) THEN blk[o.s][p] ELSE NoBlock
      BY <1>2 DEF CloneFileOk, Page
    <2>1. o.f # o.s /\ o.off = 0
      BY <1>3 DEF CallOk, CloneFileOk
    <2>2. Page(0) = 0
      <3>1. 0 * PageSize = 0 /\ Page(0 * PageSize) = 0
        BY PageOfStart, ConstantsAssumption
      <3>2. QED
        BY <3>1
    <2>3. \A p \in FilePages : p >= 0 /\ ~(p < 0)
      BY DEF FilePages
    <2>4. \A p \in FilePages : blk[o.f][p] = NoBlock
      BY <1>1, <2>3 DEF Doomed, BlocksFrom
    <2>5. QED
      BY <2>1, <2>2, <2>3, <2>4
  <1>6. CallOk(t)'
    BY <1>1, <1>2, <1>3, <1>5
       DEF CallOk, CollapseOk, CloneRangeOk, MmapOk, TruncOk, IsClone
  <1>7. Typed' /\ DataOk(mem, blk, iblocks)'
    BY <1>2 DEF IInv, Typed
  <1>8. \A u \in Threads \ {t} : op'[u] = op[u] /\ (slock' = u <=> slock = u)
    BY <1>1, <1>2, ConstantsAssumption
  <1>9. Busy(t)' /\ IsClone(op'[t])
    BY <1>1, <1>2 DEF Busy
  <1>10. op'[t].f = op[t].f /\ op'[t].s = op[t].s
    BY <1>2
  <1>11. IInv'
    BY <1>1, <1>2, <1>6, <1>7, <1>8, <1>9, <1>10, Frame
  <1>12. QED
    BY <1>2, <1>11 DEF Isolates, OthersKept

(* ... and give it back when they fail ...                                 *)
LEMMA CloneFailStep ==
  ASSUME IInv, NEW t \in Threads, Busy(t), slock = t, CloneFail(t),
         NEW m, mem' = m, PoolOk(m, NMapped(blk)), m.refcnt = mem.refcnt, Kept(mem, m)
  PROVE  IInv' /\ Isolates(op[t].f)
  <1>1. /\ slock' = NoThread /\ op' = [op EXCEPT ![t] = Idle(TRUE)]
        /\ blk' = blk /\ isize' = isize /\ iblocks' = iblocks
    BY DEF CloneFail, Fail, files
  <1>2. DataOk(mem, blk, iblocks) /\ isize \in [Files -> Offs]
    BY DEF IInv, Typed
  <1>3. DataOk(mem', blk', iblocks')
    <2>1. mem.refcnt \in [Blocks -> Nat]
      BY <1>2, Counts, PoolFacts DEF DataOk
    <2>2. \A b \in Blocks : mem.refcnt[b] <= m.refcnt[b]
      BY <2>1
    <2>3. QED
      BY <1>1, <1>2, <2>2, SameFiles
  <1>4. OthersKept(op[t].f, blk, mem, mem')
    BY <1>1, <1>2, <1>3, KeptOthers
  <1>5. Idle(TRUE) \in IdleRecs
    BY DEF IdleRecs
  <1>6. IInv'
    BY <1>1, <1>2, <1>3, <1>5, Ends
  <1>7. QED
    BY <1>1, <1>4, <1>6 DEF Isolates

(* ... or return.                                                          *)
LEMMA CloneReturn ==
  ASSUME IInv, NEW t \in Threads, Busy(t), slock = t, slock' = NoThread, Return(t),
         mem' = mem, blk' = blk, iblocks' = iblocks, isize' \in [Files -> Offs],
         \A g \in Files \ {op[t].f} : isize'[g] = isize[g]
  PROVE  IInv' /\ Isolates(op[t].f)
  <1>1. op' = [op EXCEPT ![t] = Idle(FALSE)] /\ Idle(FALSE) \in IdleRecs
    BY DEF Return, IdleRecs
  <1>2. DataOk(mem, blk, iblocks)'
    BY DEF IInv
  <1>3. IInv'
    BY <1>1, <1>2, Ends
  <1>4. QED
    BY <1>3 DEF Isolates, OthersKept

(* The end of a clone of a range.                                          *)
LEMMA CloneEndStep ==
  ASSUME IInv, NEW t \in Threads, CloneEnd(t)
  PROVE  IInv' /\ Isolates(op[t].f)
  <1>1. Busy(t) /\ slock = t /\ slock' = NoThread /\ Return(t)
    BY DEF CloneEnd, Busy
  <1>2. mem' = mem /\ blk' = blk /\ iblocks' = iblocks /\ isize' = isize
    BY DEF CloneEnd, files
  <1>3. isize' \in [Files -> Offs] /\ \A g \in Files \ {op[t].f} : isize'[g] = isize[g]
    BY <1>2 DEF IInv, Typed
  <1>4. QED
    BY <1>1, <1>2, <1>3, CloneReturn

(* The end of a clone of a file: the size follows.                         *)
LEMMA ShareEndStep ==
  ASSUME IInv, NEW t \in Threads, ShareEnd(t)
  PROVE  IInv' /\ Isolates(op[t].f)
  <1>1. Busy(t) /\ slock = t /\ slock' = NoThread /\ Return(t)
    BY DEF ShareEnd, Busy
  <1>2. mem' = mem /\ blk' = blk /\ iblocks' = iblocks
    BY DEF ShareEnd
  <1>3. isize' = [isize EXCEPT ![op[t].f] = isize[op[t].s]]
    BY DEF ShareEnd
  <1>4. isize \in [Files -> Offs] /\ op[t].f \in Files /\ op[t].s \in Files
    BY <1>1, CallFields DEF IInv, Typed
  <1>5. isize' \in [Files -> Offs] /\ \A g \in Files \ {op[t].f} : isize'[g] = isize[g]
    BY <1>3, <1>4
  <1>6. QED
    BY <1>1, <1>2, <1>5, CloneReturn

(* One more reference to a block in use.                                   *)
OneMore(m, b) == [m EXCEPT !.refcnt[b] = @ + 1]

(* Nothing else of the pool changes.                                       *)
LEMMA OneMoreOk ==
  ASSUME NEW m, NEW n \in Nat, PoolOk(m, n), NEW b \in Blocks, m.refcnt[b] > 0,
         NEW r, r = OneMore(m, b)
  PROVE  /\ PoolOk(r, n) /\ r.data = m.data
         /\ r.refcnt[b] = m.refcnt[b] + 1
         /\ \A x \in Blocks \ {b} : r.refcnt[x] = m.refcnt[x]
  <1> DEFINE k == m.refcnt[b] + 1
  <1>1. m \in Mems /\ m.refcnt \in [Blocks -> Nat]
    BY PoolFacts DEF PoolOk
  <1>2. k \in Nat \ {0}
    BY <1>1
  <1>3. r = WithCount(m, b, k)
    BY DEF OneMore, WithCount
  <1> HIDE DEF k
  <1>4. PoolOk(r, n) /\ r.data = m.data /\ r.refcnt = [m.refcnt EXCEPT ![b] = k]
    BY <1>2, <1>3, RecountOk
  <1>5. r.refcnt[b] = k /\ \A x \in Blocks \ {b} : r.refcnt[x] = m.refcnt[x]
    BY <1>1, <1>4
  <1>6. QED
    BY <1>4, <1>5 DEF k

(* _clone_entire_file_range, one block of the source.                      *)
LEMMA ShareBlkStep ==
  ASSUME IInv, NEW t \in Threads, ShareBlk(t)
  PROVE  IInv' /\ Isolates(op[t].f)
  <1> DEFINE o == op[t]
             S == BlocksFrom(o.s, Page(o.off))
             p == First(S)
             b == blk[o.s][p]
             a == AcquireRef(mem, "i")
  <1>1. Busy(t) /\ o.k = "clonefile" /\ slock = t /\ S # {}
    BY DEF ShareBlk, Busy
  <1>2. \/ UNCHANGED mem /\ CloneFail(t)
        \/ /\ CanAcquire(mem, "i") /\ mem' = OneMore(a, b) /\ SetBlk(o.f, p, b)
           /\ Advance(t, (p + 1) * PageSize) /\ isize' = isize /\ slock' = slock
    BY DEF ShareBlk, OneMore
  <1>3. DataOk(mem, blk, iblocks) /\ blk \in Blks /\ isize \in [Files -> Offs] /\ CallOk(t)
    BY DEF IInv, DataOk, Typed
  <1>4. NMapped(blk) \in Nat /\ PoolOk(mem, NMapped(blk)) /\ mem.refcnt \in [Blocks -> Nat]
    BY <1>3, Counts, PoolFacts DEF DataOk
  <1>5. o.f \in Files /\ o.s \in Files /\ o.off \in Nat
    BY <1>1, CallFields
  <1>6. S \in SUBSET Nat
    BY DEF BlocksFrom, FilePages
  <1>7. p \in S /\ \A q \in S : p <= q
    BY <1>1, <1>6, FirstFacts
  <1>8. p \in FilePages /\ p \in Nat /\ p >= Page(o.off) /\ b # NoBlock
    BY <1>7 DEF BlocksFrom, FilePages
  <1>9. /\ o.f # o.s
        /\ \A q \in FilePages :
             blk[o.f][q] = IF q < Page(o.off) THEN blk[o.s][q] ELSE NoBlock
    BY <1>1, <1>3 DEF CallOk, CloneFileOk
  <1>10. Page(o.off) \in Nat
    BY <1>5, PageFacts
  <1>11. blk[o.f][p] = NoBlock
    BY <1>8, <1>9, <1>10
  <1>12. \A q \in FilePages : q < p /\ q >= Page(o.off) => blk[o.s][q] = NoBlock
    BY <1>6, <1>7 DEF BlocksFrom, FilePages
  <1>13. b \in Blocks /\ mem.refcnt[b] > 0
    BY <1>3, <1>5, <1>8, LiveRef
  <1> HIDE DEF S, p, b, a
  <1>14. CASE UNCHANGED mem /\ CloneFail(t)
    <2>1. Kept(mem, mem)
      BY DEF Kept
    <2>2. QED
      BY <1>1, <1>4, <1>14, <2>1, CloneFailStep
  <1>15. CASE /\ CanAcquire(mem, "i") /\ mem' = OneMore(a, b) /\ SetBlk(o.f, p, b)
              /\ Advance(t, (p + 1) * PageSize) /\ isize' = isize /\ slock' = slock
    <2>1. PoolOk(a, NMapped(blk) + 1) /\ a.refcnt = mem.refcnt /\ a.data = mem.data
      BY <1>4, <1>15, AcquireIblkref DEF a
    <2>2. /\ PoolOk(mem', NMapped(blk) + 1) /\ mem'.data = mem.data
          /\ mem'.refcnt[b] = mem.refcnt[b] + 1
          /\ \A x \in Blocks \ {b} : mem'.refcnt[x] = mem.refcnt[x]
      <3>1. NMapped(blk) + 1 \in Nat /\ a.refcnt[b] > 0
        BY <1>4, <1>13, <2>1
      <3>2. QED
        BY <1>13, <1>15, <2>1, <3>1, OneMoreOk
    <2>3. blk' = WithPage(blk, o.f, p, b) /\ iblocks' = CountsWith(blk, iblocks, o.f, p)
      BY <1>15 DEF SetBlk, WithPage, CountsWith
    <2>4. PagesWith(blk, o.f, p) = NMapped(blk) + 1
      BY <1>11 DEF PagesWith
    <2>5. DataOk(mem', blk', iblocks') /\ \A g \in Files \ {o.f} : blk'[g] = blk[g]
      <3>1. NRefs(blk, b) \in Nat /\ NRefs(blk, b) <= mem.refcnt[b]
        BY <1>3, <1>13, Counts DEF DataOk, Covered
      <3>2. mem.refcnt[b] \in Nat
        BY <1>4, <1>13
      <3>3. NRefs(blk, b) < mem'.refcnt[b] /\ blk[o.f][p] # b
        BY <1>8, <1>11, <2>2, <3>1, <3>2
      <3>4. \A x \in Blocks : x # b /\ x # blk[o.f][p] => mem.refcnt[x] <= mem'.refcnt[x]
        BY <1>4, <2>2
      <3>5. QED
        BY <1>3, <1>5, <1>8, <1>11, <1>13, <2>2, <2>3, <2>4, <3>3, <3>4, Relink
    <2>6. \A q \in FilePages : blk'[o.f][q] = IF q = p THEN b ELSE blk[o.f][q]
      BY <1>3, <1>5, <1>8, <2>3 DEF WithPage, Blks
    <2>7. blk'[o.s] = blk[o.s]
      BY <1>5, <1>9, <2>5
    <2> DEFINE x == (p + 1) * PageSize
               w == [op[t] EXCEPT !.off = x]
    <2>8. x \in Nat /\ Page(x) = p + 1
      BY <1>8, PageOfStart
    <2>9. /\ w \in CallRecs /\ op' = [op EXCEPT ![t] = w] /\ w.f = op[t].f /\ w.s = op[t].s
          /\ w.k = op[t].k
      BY <1>1, <1>15, <2>8, Advanced
    <2>10. op'[t].k = "clonefile" /\ op'[t].f = o.f /\ op'[t].s = o.s /\ op'[t].off = x
      BY <1>1, <1>15, <2>8, Advanced
    <2> HIDE DEF x, w
    <2>11. ASSUME NEW q \in FilePages
           PROVE  blk'[o.f][q] = IF q < p + 1 THEN blk'[o.s][q] ELSE NoBlock
      <3>1. q \in Nat
        BY DEF FilePages
      <3>2. CASE q = p
        BY <1>8, <2>6, <2>7, <3>2 DEF b
      <3>3. CASE q # p /\ q < p + 1
        <4>1. q < p
          BY <1>8, <3>1, <3>3
        <4>2. blk'[o.f][q] = IF q < Page(o.off) THEN blk[o.s][q] ELSE NoBlock
          BY <1>9, <2>6, <3>3
        <4>3. blk[o.s][q] = NoBlock \/ q < Page(o.off)
          BY <1>10, <1>12, <3>1, <4>1
        <4>4. QED
          BY <2>7, <3>3, <4>2, <4>3
      <3>4. CASE ~(q < p + 1)
        <4>1. q # p /\ ~(q < Page(o.off))
          BY <1>8, <1>10, <3>1, <3>4
        <4>2. QED
          BY <1>9, <2>6, <3>4, <4>1
      <3>5. QED
        BY <3>2, <3>3, <3>4
    <2>12. CallOk(t)'
      <3>1. slock' = t
        BY <1>1, <1>15
      <3>2. CloneFileOk(t, op[t])'
        BY <1>9, <2>8, <2>10, <2>11, <3>1 DEF CloneFileOk, Page
      <3>3. QED
        BY <2>10, <3>2 DEF CallOk, CollapseOk, CloneRangeOk, MmapOk, TruncOk
    <2>13. IsClone(w)
      BY <1>1, <2>9 DEF IsClone
    <2>14. isize' \in [Files -> Offs] /\ slock' = slock
      BY <1>3, <1>15
    <2>15. IInv'
      BY <1>1, <2>5, <2>9, <2>12, <2>13, <2>14, Goes
    <2>16. QED
      BY <1>15, <2>2, <2>5, <2>15 DEF Isolates, OthersKept
  <1>16. QED
    BY <1>2, <1>14, <1>15

(* A clone of a range goes on with the next page.                          *)
LEMMA CloneGoes ==
  ASSUME IInv, NEW t \in Threads, Busy(t), op[t].k = "clonerange", slock = t, slock' = slock,
         CloneAdvance(t), isize' \in [Files -> Offs], DataOk(mem', blk', iblocks'),
         \A g \in Files \ {op[t].f} : blk'[g] = blk[g]
  PROVE  IInv'
  <1> DEFINE w == [op[t] EXCEPT !.off = op[t].off + PageSize, !.src = op[t].src + PageSize]
  <1>1. op \in [Threads -> IdleRecs \cup CallRecs] /\ CallOk(t)
    BY DEF IInv, Typed
  <1>2. op[t] \in CallRecs /\ op[t].off \in Nat /\ op[t].src \in Nat /\ op[t].end \in Nat
    BY CallFields
  <1>3. PageSize \in Nat /\ MaxOff \in Nat
    BY ConstantsAssumption, PageInFile
  <1>4. op[t].off + PageSize \in Nat /\ op[t].src + PageSize \in Nat
    BY <1>2, <1>3
  <1>5. /\ w \in CallRecs /\ w.f = op[t].f /\ w.s = op[t].s /\ w.k = op[t].k
        /\ w.end = op[t].end
        /\ w.off = op[t].off + PageSize /\ w.src = op[t].src + PageSize
    BY <1>2, <1>4 DEF CallRecs
  <1>6. op' = [op EXCEPT ![t] = w]
    BY <1>2 DEF CloneAdvance, CallRecs
  <1> HIDE DEF w
  <1>7. op'[t] = w
    BY <1>1, <1>6
  <1>8. op[t].f # op[t].s /\ op[t].src + op[t].end <= MaxOff + op[t].off
    BY <1>1 DEF CallOk, CloneRangeOk
  <1>9. w.src + w.end <= MaxOff + w.off
    BY <1>2, <1>3, <1>5, <1>8
  <1>10. CallOk(t)'
    BY <1>5, <1>7, <1>8, <1>9
       DEF CallOk, CollapseOk, CloneFileOk, CloneRangeOk, MmapOk, TruncOk, MaxOff
  <1>11. IsClone(w)
    BY <1>5 DEF IsClone
  <1>12. QED
    BY <1>5, <1>6, <1>10, <1>11, Goes

(* Where a clone of a range reads and writes.                              *)
LEMMA ClonePages ==
  ASSUME IInv, NEW t \in Threads, Busy(t), op[t].k = "clonerange", op[t].off < op[t].end
  PROVE  /\ op[t].f \in Files /\ op[t].s \in Files /\ op[t].f # op[t].s
         /\ Page(op[t].off) \in FilePages /\ Page(op[t].src) \in FilePages
         /\ NextPage(op[t].off) \in Offs
  <1>1. /\ op[t].f \in Files /\ op[t].s \in Files /\ op[t].off \in Nat /\ op[t].src \in Nat
        /\ op[t].end \in Offs /\ op[t].end \in Nat
    BY CallFields
  <1>2. Page(op[t].off) \in FilePages /\ NextPage(op[t].off) \in Offs
    BY <1>1, OffInFile
  <1>3. op[t].f # op[t].s /\ op[t].src + op[t].end <= MaxOff + op[t].off /\ MaxOff \in Nat
    BY PageInFile DEF IInv, CallOk, CloneRangeOk
  <1>4. op[t].src < MaxOff
    BY <1>1, <1>3
  <1>5. Page(op[t].src) \in FilePages
    BY <1>1, <1>4, PageInFile
  <1>6. QED
    BY <1>1, <1>2, <1>3, <1>5

(* The size follows the pages of a clone.                                  *)
LEMMA ExtendOk ==
  ASSUME isize \in [Files -> Offs], NEW f \in Files, NEW e \in Offs, Extend(f, e)
  PROVE  isize' \in [Files -> Offs] /\ \A g \in Files \ {f} : isize'[g] = isize[g]
  BY DEF Extend

(* _clone_range with a block in the source: the block that was required is *)
(* given back for the block that is shared.                                *)
LEMMA ClonePageStep ==
  ASSUME IInv, NEW t \in Threads, ClonePage(t)
  PROVE  IInv' /\ Isolates(op[t].f)
  <1> DEFINE o == op[t]
             p == Page(o.off)
             sb == blk[o.s][Page(o.src)]
             n == Require(o.f, p)
  <1>1. /\ Busy(t) /\ o.k = "clonerange" /\ slock = t /\ o.off < o.end /\ sb # NoBlock
    BY DEF ClonePage, Busy
  <1>2. \/ n.b = NoBlock /\ mem' = n.m /\ CloneFail(t)
        \/ /\ n.b # NoBlock /\ mem' = OneMore(Decref(n.m, n.b), sb) /\ SetBlk(o.f, p, sb)
           /\ Extend(o.f, NextPage(o.off)) /\ CloneAdvance(t) /\ slock' = slock
    BY DEF ClonePage, SharePage, OneMore
  <1>3. DataOk(mem, blk, iblocks) /\ blk \in Blks /\ isize \in [Files -> Offs]
    BY DEF IInv, DataOk, Typed
  <1>4. mem.refcnt \in [Blocks -> Nat]
    BY <1>3, Counts, PoolFacts DEF DataOk
  <1>5. /\ o.f \in Files /\ o.s \in Files \ {o.f} /\ p \in FilePages
        /\ Page(o.src) \in FilePages /\ NextPage(o.off) \in Offs
    BY <1>1, ClonePages
  <1>6. sb \in Blocks /\ mem.refcnt[sb] > 0
    BY <1>1, <1>3, <1>5, LiveRef
  <1> HIDE DEF n, p
  <1>7. n = Require(o.f, p)
    BY DEF n
  <1>8. CASE n.b = NoBlock /\ mem' = n.m /\ CloneFail(t)
    <2>1. n.b \notin Blocks
      BY <1>8 DEF Blocks, NoBlock
    <2>2. PoolOk(n.m, NMapped(blk)) /\ n.m.refcnt = mem.refcnt /\ Kept(mem, n.m)
      BY <1>3, <1>5, <1>7, <2>1, RequireOk
    <2>3. QED
      BY <1>1, <1>8, <2>2, CloneFailStep
  <1>9. CASE /\ n.b # NoBlock /\ mem' = OneMore(Decref(n.m, n.b), sb) /\ SetBlk(o.f, p, sb)
             /\ Extend(o.f, NextPage(o.off)) /\ CloneAdvance(t) /\ slock' = slock
    <2> DEFINE k == PagesWith(blk, o.f, p)
               c == n.b
               m == n.m
               d == Decref(m, c)
    <2>1. k \in Nat
      BY Counts DEF PagesWith
    <2>2. /\ c \in Blocks /\ PoolOk(m, k) /\ Kept(mem, m)
          /\ \/ mem.refcnt[c] = 0 /\ m.refcnt = [mem.refcnt EXCEPT ![c] = 1]
             \/ c = blk[o.f][p] /\ mem.refcnt[c] = 1 /\ m = mem
      BY <1>3, <1>5, <1>7, <1>9, RequireOk
    <2>3. sb # c
      <3>1. /\ PoolOk(n.m, PagesWith(blk, o.f, p)) /\ n.b # NoBlock
        BY <1>9, <2>2
      <3>2. \A g \in Files \ {o.f}, q \in FilePages : blk[g][q] # n.b
        BY <1>3, <1>5, <1>7, <3>1, WriteOk
      <3>3. QED
        BY <1>5, <3>2
    <2> HIDE DEF k, c, m, sb
    <2>4. m.refcnt[c] = 1 /\ \A x \in Blocks \ {c} : m.refcnt[x] = mem.refcnt[x]
      BY <1>4, <2>2
    <2>5. /\ PoolOk(d, k) /\ Kept(m, d)
          /\ d.refcnt = [m.refcnt EXCEPT ![c] = m.refcnt[c] - 1]
      BY <2>1, <2>2, <2>4, DecrefOk
    <2>6. m.refcnt \in [Blocks -> Nat]
      BY <2>1, <2>2, PoolFacts
    <2>7. d.refcnt[c] = 0 /\ \A x \in Blocks \ {c} : d.refcnt[x] = mem.refcnt[x]
      BY <2>2, <2>4, <2>5, <2>6
    <2>8. mem' = OneMore(d, sb)
      BY <1>9 DEF c, m
    <2> HIDE DEF d
    <2>9. /\ PoolOk(mem', k) /\ mem'.data = d.data
          /\ mem'.refcnt[sb] = mem.refcnt[sb] + 1 /\ mem'.refcnt[c] = 0
          /\ \A x \in Blocks \ {c, sb} : mem'.refcnt[x] = mem.refcnt[x]
      <3>1. d.refcnt[sb] > 0 /\ d.refcnt[sb] = mem.refcnt[sb]
        BY <1>6, <2>3, <2>7
      <3> DEFINE r == mem'
      <3>2. PoolOk(d, k) /\ r = OneMore(d, sb) /\ sb \in Blocks
        BY <1>6, <2>5, <2>8
      <3> HIDE DEF r
      <3>3. /\ PoolOk(r, k) /\ r.data = d.data /\ r.refcnt[sb] = d.refcnt[sb] + 1
            /\ \A x \in Blocks \ {sb} : r.refcnt[x] = d.refcnt[x]
        BY <2>1, <3>1, <3>2, OneMoreOk
      <3>4. /\ PoolOk(mem', k) /\ mem'.data = d.data /\ mem'.refcnt[sb] = d.refcnt[sb] + 1
            /\ \A x \in Blocks \ {sb} : mem'.refcnt[x] = d.refcnt[x]
        BY <3>3 DEF r
      <3>5. QED
        BY <2>2, <2>3, <2>7, <3>1, <3>4
    <2>10. blk' = WithPage(blk, o.f, p, sb) /\ iblocks' = CountsWith(blk, iblocks, o.f, p)
      BY <1>9 DEF SetBlk, WithPage, CountsWith
    <2>11. NRefs(blk, sb) < mem'.refcnt[sb]
      <3>1. NRefs(blk, sb) \in Nat /\ NRefs(blk, sb) <= mem.refcnt[sb]
        BY <1>3, <1>6, Counts DEF DataOk, Covered
      <3>2. mem.refcnt[sb] \in Nat
        BY <1>4, <1>6
      <3>3. QED
        BY <2>9, <3>1, <3>2
    <2>12. \A x \in Blocks : x # blk[o.f][p] \/ x # c => mem.refcnt[x] <= mem'.refcnt[x]
      <3> SUFFICES ASSUME NEW x \in Blocks, x # blk[o.f][p] \/ x # c
                   PROVE  mem.refcnt[x] <= mem'.refcnt[x]
        OBVIOUS
      <3>1. mem.refcnt[x] \in Nat
        BY <1>4
      <3>2. CASE x = c
        BY <2>2, <2>9, <3>2
      <3>3. CASE x = sb
        BY <2>9, <3>1, <3>3
      <3>4. CASE x # c /\ x # sb
        BY <2>9, <3>1, <3>4
      <3>5. QED
        BY <3>2, <3>3, <3>4
    <2>13. DataOk(mem', blk', iblocks') /\ \A g \in Files \ {o.f} : blk'[g] = blk[g]
      <3>1. CASE blk[o.f][p] = sb
        <4>1. blk' = blk
          BY <1>3, <1>5, <2>10, <3>1, SamePage
        <4>2. iblocks' = iblocks /\ k = NMapped(blk)
          BY <1>1, <2>10, <3>1 DEF k, CountsWith, PagesWith, sb
        <4>3. \A x \in Blocks : mem.refcnt[x] <= mem'.refcnt[x]
          BY <2>3, <2>12, <3>1
        <4>4. QED
          BY <1>3, <2>9, <4>1, <4>2, <4>3, SameFiles
      <3>2. CASE blk[o.f][p] # sb
        <4>1. blk[o.f][p] # NoBlock =>
                mem.refcnt[blk[o.f][p]] <= mem'.refcnt[blk[o.f][p]] + 1
          <5> SUFFICES ASSUME blk[o.f][p] # NoBlock
                       PROVE  mem.refcnt[blk[o.f][p]] <= mem'.refcnt[blk[o.f][p]] + 1
            OBVIOUS
          <5> DEFINE old == blk[o.f][p]
          <5>1. old \in Blocks /\ mem.refcnt[old] \in Nat
            BY <1>3, <1>5, LiveRef
          <5>2. CASE old = c
            BY <2>2, <2>9, <5>1, <5>2
          <5>3. CASE old # c
            BY <2>9, <3>2, <5>1, <5>3
          <5>4. QED
            BY <5>2, <5>3
        <4>2. \A x \in Blocks : x # sb /\ x # blk[o.f][p] => mem.refcnt[x] <= mem'.refcnt[x]
          BY <2>12
        <4>3. QED
          BY <1>3, <1>5, <1>6, <2>9, <2>10, <2>11, <3>2, <4>1, <4>2, Relink DEF k
      <3>3. QED
        BY <3>1, <3>2
    <2>14. Kept(mem, mem')
      <3> SUFFICES ASSUME NEW x \in Blocks, mem.refcnt[x] > 0, mem'.refcnt[x] > 0
                   PROVE  mem'.data[x] = mem.data[x]
        BY DEF Kept
      <3>1. x # c
        BY <2>9
      <3>2. m.refcnt[x] > 0 /\ d.refcnt[x] > 0
        BY <2>4, <2>7, <3>1
      <3>3. QED
        BY <2>2, <2>5, <2>9, <3>2 DEF Kept
    <2>15. OthersKept(o.f, blk, mem, mem')
      BY <1>3, <2>13, <2>14, KeptOthers
    <2>16. isize' \in [Files -> Offs] /\ \A g \in Files \ {o.f} : isize'[g] = isize[g]
      BY <1>3, <1>5, <1>9, ExtendOk
    <2>17. IInv'
      BY <1>1, <1>9, <2>13, <2>16, CloneGoes
    <2>18. QED
      BY <2>13, <2>15, <2>16, <2>17 DEF Isolates
  <1>10. QED
    BY <1>2, <1>8, <1>9

(* _clone_range with a hole in the source: a block of the destination is   *)
(* made its own, and zeroed.                                               *)
LEMMA CloneHoleStep ==
  ASSUME IInv, NEW t \in Threads, CloneHole(t)
  PROVE  IInv' /\ Isolates(op[t].f)
  <1> DEFINE o == op[t]
             p == Page(o.off)
             b == blk[o.f][p]
             n == IF mem.refcnt[b] > 1 THEN Copy(mem, b) ELSE [b |-> b, m |-> mem]
             m == IF n.b # b THEN [n.m EXCEPT !.refcnt[b] = @ - 1] ELSE n.m
  <1>1. Busy(t) /\ o.k = "clonerange" /\ slock = t /\ o.off < o.end
    BY DEF CloneHole, Busy
  <1>2. \/ /\ b = NoBlock /\ CloneAdvance(t) /\ mem' = mem /\ slock' = slock
           /\ blk' = blk /\ isize' = isize /\ iblocks' = iblocks
        \/ b # NoBlock /\ n.b = NoBlock /\ mem' = n.m /\ CloneFail(t)
        \/ /\ b # NoBlock /\ n.b # NoBlock /\ mem' = Fill(m, n.b, 0, PageSize, 0)
           /\ SetBlk(o.f, p, n.b)
           /\ Extend(o.f, NextPage(o.off)) /\ CloneAdvance(t) /\ slock' = slock
    BY DEF CloneHole, files
  <1>3. DataOk(mem, blk, iblocks) /\ blk \in Blks /\ isize \in [Files -> Offs]
    BY DEF IInv, DataOk, Typed
  <1>4. NMapped(blk) \in Nat /\ PoolOk(mem, NMapped(blk)) /\ mem.refcnt \in [Blocks -> Nat]
    BY <1>3, Counts, PoolFacts DEF DataOk
  <1>5. o.f \in Files /\ p \in FilePages /\ NextPage(o.off) \in Offs /\ 0 \in Bytes
    BY <1>1, ClonePages DEF Bytes
  <1>6. CASE /\ b = NoBlock /\ CloneAdvance(t) /\ mem' = mem /\ slock' = slock
             /\ blk' = blk /\ isize' = isize /\ iblocks' = iblocks
    <2>1. IInv'
      BY <1>1, <1>3, <1>6, CloneGoes
    <2>2. QED
      BY <1>6, <2>1 DEF Isolates, OthersKept
  <1>7. CASE b # NoBlock /\ mem.refcnt[b] > 1
    <2>1. b \in Blocks /\ mem.refcnt[b] \in Nat /\ mem.refcnt[b] > 0
      BY <1>3, <1>5, <1>7, LiveRef
    <2>2. n = Copy(mem, b)
      BY <1>7
    <2> HIDE DEF n, p
    <2>3. /\ PoolOk(n.m, NMapped(blk)) /\ Kept(mem, n.m)
          /\ \/ n.b = NoBlock /\ n.m.refcnt = mem.refcnt
             \/ /\ n.b \in Blocks /\ mem.refcnt[n.b] = 0
                /\ n.m.refcnt = [mem.refcnt EXCEPT ![n.b] = 1]
      BY <1>4, <2>1, <2>2, CopyOk
    <2>4. CASE n.b = NoBlock /\ mem' = n.m /\ CloneFail(t)
      <3>1. n.b \notin Blocks
        BY <2>4 DEF Blocks, NoBlock
      <3>2. QED
        BY <1>1, <2>3, <2>4, <3>1, CloneFailStep
    <2>5. CASE /\ n.b # NoBlock /\ mem' = Fill(m, n.b, 0, PageSize, 0)
               /\ SetBlk(o.f, p, n.b)
               /\ Extend(o.f, NextPage(o.off)) /\ CloneAdvance(t) /\ slock' = slock
      <3> DEFINE c == n.b
                 k == n.m
                 r == mem.refcnt[b] - 1
      <3>1. /\ c \in Blocks /\ mem.refcnt[c] = 0 /\ c # b
            /\ k.refcnt = [mem.refcnt EXCEPT ![c] = 1]
        BY <2>1, <2>3, <2>5
      <3>2. k.refcnt[b] = mem.refcnt[b] /\ k.refcnt[c] = 1
        BY <1>4, <2>1, <3>1
      <3>3. m = WithCount(k, b, r) /\ r \in Nat \ {0}
        BY <1>7, <2>1, <3>1, <3>2 DEF WithCount
      <3>4. mem' = Fill(m, c, 0, PageSize, 0) /\ PoolOk(k, NMapped(blk)) /\ k.refcnt[b] > 0
        BY <2>1, <2>3, <2>5, <3>2
      <3> HIDE DEF c, k, r, m
      <3>5. /\ PoolOk(m, NMapped(blk)) /\ m.data = k.data
            /\ m.refcnt = [k.refcnt EXCEPT ![b] = r]
        BY <1>4, <2>1, <3>3, <3>4, RecountOk
      <3>6. PoolOk(mem', NMapped(blk)) /\ mem'.refcnt = m.refcnt
        BY <1>4, <1>5, <3>1, <3>4, <3>5, FillOk
      <3>7. k.refcnt \in [Blocks -> Nat]
        BY <1>4, <3>4, PoolFacts
      <3>8. /\ mem'.refcnt[c] = 1 /\ mem'.refcnt[b] = r
            /\ \A x \in Blocks \ {b, c} : mem'.refcnt[x] = mem.refcnt[x]
        BY <1>4, <2>1, <3>1, <3>2, <3>5, <3>6, <3>7
      <3>9. /\ blk' = WithPage(blk, o.f, p, c) /\ iblocks' = CountsWith(blk, iblocks, o.f, p)
        BY <2>5 DEF c, SetBlk, WithPage, CountsWith
      <3>10. PagesWith(blk, o.f, p) = NMapped(blk)
        BY <1>7 DEF PagesWith
      <3>11. NRefs(blk, c) < mem'.refcnt[c]
        <4>1. NRefs(blk, c) \in Nat /\ NRefs(blk, c) <= mem.refcnt[c]
          BY <1>3, <3>1, Counts DEF DataOk, Covered
        <4>2. QED
          BY <3>1, <3>8, <4>1
      <3>12. mem.refcnt[blk[o.f][p]] <= mem'.refcnt[blk[o.f][p]] + 1
        BY <2>1, <3>8 DEF r
      <3>13. \A x \in Blocks : x # c /\ x # blk[o.f][p] => mem.refcnt[x] <= mem'.refcnt[x]
        BY <1>4, <3>8
      <3>14. DataOk(mem', blk', iblocks') /\ \A g \in Files \ {o.f} : blk'[g] = blk[g]
        BY <1>3, <1>5, <3>1, <3>6, <3>9, <3>10, <3>11, <3>12, <3>13, Relink
      <3>15. OthersKept(o.f, blk, mem, mem')
        <4>1. \A x \in Blocks : mem.refcnt[x] <= k.refcnt[x]
          BY <1>4, <3>1
        <4>2. DataOk(k, blk, iblocks)
          BY <1>3, <3>4, <4>1, SameFiles
        <4>3. OthersKept(o.f, blk, mem, k)
          BY <1>3, <2>3, <4>2, KeptOthers DEF k
        <4>4. OthersKept(o.f, blk, mem, m)
          BY <3>5, <4>3 DEF OthersKept
        <4>5. \A g \in Files, q \in FilePages : blk[g][q] # NoBlock => mem.refcnt[blk[g][q]] > 0
          BY <1>3, LiveRef
        <4>6. \A g \in Files \ {o.f}, q \in FilePages : blk[g][q] # c
          BY <3>1, <4>5 DEF Blocks, NoBlock
        <4>7. QED
          BY <1>3, <1>4, <1>5, <3>1, <3>4, <3>5, <4>4, <4>6, FillOthers
      <3>16. isize' \in [Files -> Offs] /\ \A g \in Files \ {o.f} : isize'[g] = isize[g]
        BY <1>3, <1>5, <2>5, ExtendOk
      <3>17. IInv'
        BY <1>1, <2>5, <3>14, <3>16, CloneGoes
      <3>18. QED
        BY <3>14, <3>15, <3>16, <3>17 DEF Isolates
    <2>6. QED
      BY <1>2, <1>7, <2>4, <2>5
  <1>8. CASE b # NoBlock /\ ~(mem.refcnt[b] > 1)
    <2>1. b \in Blocks /\ mem.refcnt[b] \in Nat /\ mem.refcnt[b] > 0
      BY <1>3, <1>5, <1>8, LiveRef
    <2>2. n.b = b /\ m = mem
      BY <1>8
    <2>3. /\ mem' = Fill(mem, b, 0, PageSize, 0) /\ SetBlk(o.f, p, b)
          /\ Extend(o.f, NextPage(o.off)) /\ CloneAdvance(t) /\ slock' = slock
      BY <1>2, <1>8, <2>2
    <2> HIDE DEF n, m, p
    <2>4. blk' = blk /\ iblocks' = iblocks
      <3>1. blk' = WithPage(blk, o.f, p, blk[o.f][p])
        BY <2>3 DEF SetBlk, WithPage
      <3>2. QED
        BY <1>3, <1>5, <1>8, <2>3, <3>1, SamePage DEF SetBlk
    <2>5. DataOk(mem', blk', iblocks')
      BY <1>3, <1>5, <2>1, <2>3, <2>4, FillInPlace
    <2>6. OthersKept(o.f, blk, mem, mem')
      <3>1. \A g \in Files \ {o.f}, q \in FilePages : blk[g][q] # b
        <4> SUFFICES ASSUME NEW g \in Files \ {o.f}, NEW q \in FilePages, blk[g][q] = blk[o.f][p]
                     PROVE  FALSE
          OBVIOUS
        <4>1. QED
          BY <1>3, <1>5, <1>8, LiveRef
      <3>2. OthersKept(o.f, blk, mem, mem)
        BY DEF OthersKept
      <3>3. QED
        BY <1>3, <1>4, <1>5, <2>1, <2>3, <3>1, <3>2, FillOthers
    <2>7. isize' \in [Files -> Offs] /\ \A g \in Files \ {o.f} : isize'[g] = isize[g]
      BY <1>3, <1>5, <2>3, ExtendOk
    <2>8. IInv'
      BY <1>1, <2>3, <2>4, <2>5, <2>7, CloneGoes
    <2>9. QED
      BY <2>4, <2>6, <2>7, <2>8 DEF Isolates
  <1>9. QED
    BY <1>2, <1>6, <1>7, <1>8

(* A store through a mapping.                                              *)
LEMMA MmapWriteStep ==
  ASSUME IInv, NEW t \in Threads, MmapWrite(t)
  PROVE  IInv'
  <1> DEFINE o == op[t]
             p == Page(o.off)
             b == blk[o.f][p]
             n == IF b # NoBlock THEN [b |-> b, m |-> mem] ELSE Require(o.f, p)
             i == o.off % PageSize
             j == i + 1
  <1>1. Busy(t) /\ o.k = "mmap" /\ ~IsClone(op[t])
    BY DEF MmapWrite, Busy, IsClone
  <1>2. /\ \/ /\ n.b = NoBlock /\ mem' = n.m /\ op' = [op EXCEPT ![t] = Idle(TRUE)]
              /\ blk' = blk /\ iblocks' = iblocks
           \/ /\ n.b # NoBlock /\ mem' = Fill(n.m, n.b, i, j, o.v) /\ SetBlk(o.f, p, n.b)
              /\ op' = [op EXCEPT ![t] = Idle(FALSE)]
        /\ isize' = isize /\ slock' = slock
    BY DEF MmapWrite, Fail, Return
  <1>3. DataOk(mem, blk, iblocks) /\ blk \in Blks /\ isize \in [Files -> Offs] /\ CallOk(t)
    BY DEF IInv, DataOk, Typed
  <1>4. mem.refcnt \in [Blocks -> Nat]
    BY <1>3, Counts, PoolFacts DEF DataOk
  <1>5. o.f \in Files /\ o.off \in Nat /\ o.v \in Bytes
    BY <1>1, CallFields
  <1>6. p \in FilePages
    <2>1. o.off < MaxOff
      BY <1>1, <1>3 DEF CallOk, MmapOk
    <2>2. QED
      BY <1>5, <2>1, PageInFile
  <1>7. Idle(TRUE) \in IdleRecs /\ Idle(FALSE) \in IdleRecs
    BY DEF IdleRecs
  <1>8. DataOk(mem', blk', iblocks') /\ \A g \in Files \ {o.f} : blk'[g] = blk[g]
    <2>1. CASE b # NoBlock
      <3>1. b \in Blocks
        BY <1>3, <1>5, <1>6, <2>1 DEF Blks
      <3>2. n.b = b /\ n.m = mem
        BY <2>1
      <3>3. mem' = Fill(mem, b, i, j, o.v) /\ SetBlk(o.f, p, b)
        BY <1>2, <2>1, <3>2
      <3> HIDE DEF n, p, i, j
      <3>4. blk' = WithPage(blk, o.f, p, blk[o.f][p]) /\ iblocks' = iblocks
        BY <2>1, <3>3 DEF SetBlk, WithPage
      <3>5. blk' = blk
        BY <1>3, <1>5, <1>6, <3>4, SamePage
      <3>6. QED
        BY <1>3, <1>5, <3>1, <3>3, <3>4, <3>5, FillInPlace
    <2>2. CASE b = NoBlock
      <3>1. n = Require(o.f, p)
        BY <2>2
      <3> HIDE DEF n, p, i, j
      <3>2. CASE n.b = NoBlock
        <4>1. n.b \notin Blocks
          BY <3>2 DEF Blocks, NoBlock
        <4>2. PoolOk(n.m, NMapped(blk)) /\ n.m.refcnt = mem.refcnt
          BY <1>3, <1>5, <1>6, <3>1, <4>1, RequireOk
        <4>3. \A x \in Blocks : mem.refcnt[x] <= n.m.refcnt[x]
          BY <1>4, <4>2
        <4>4. mem' = n.m /\ blk' = blk /\ iblocks' = iblocks
          BY <1>2, <3>2
        <4>5. QED
          BY <1>3, <4>2, <4>3, <4>4, SameFiles
      <3>3. CASE n.b # NoBlock
        <4>1. n.b \in Blocks /\ PoolOk(n.m, PagesWith(blk, o.f, p))
          BY <1>3, <1>5, <1>6, <3>1, <3>3, RequireOk
        <4>2. PagesWith(blk, o.f, p) \in Nat
          BY Counts DEF PagesWith
        <4>3. mem' = Fill(n.m, n.b, i, j, o.v) /\ SetBlk(o.f, p, n.b)
          BY <1>2, <3>3
        <4>4. PoolOk(mem', PagesWith(blk, o.f, p)) /\ mem'.refcnt = n.m.refcnt
          BY <1>5, <4>1, <4>2, <4>3, FillOk
        <4>5. blk' = WithPage(blk, o.f, p, n.b) /\ iblocks' = CountsWith(blk, iblocks, o.f, p)
          BY <4>3 DEF SetBlk, WithPage, CountsWith
        <4>6. QED
          BY <1>3, <1>5, <1>6, <3>1, <3>3, <4>4, <4>5, WriteOk
      <3>4. QED
        BY <3>2, <3>3
    <2>3. QED
      BY <2>1, <2>2
  <1>9. isize' \in [Files -> Offs]
    BY <1>2, <1>3
  <1> HIDE DEF n, p, i, j
  <1>10. CASE op' = [op EXCEPT ![t] = Idle(TRUE)]
    BY <1>1, <1>2, <1>7, <1>8, <1>9, <1>10, Ends
  <1>11. CASE op' = [op EXCEPT ![t] = Idle(FALSE)]
    BY <1>1, <1>2, <1>7, <1>8, <1>9, <1>11, Ends
  <1>12. QED
    BY <1>2, <1>10, <1>11

(* The records of the calls that are issued.                               *)
LEMMA CallType ==
  ASSUME NEW k \in Ops, NEW f \in Files, NEW s \in Files, NEW from \in Nat,
         NEW end \in Offs, NEW src \in Nat, NEW v \in Bytes, NEW c,
         c = Call(k, f, s, from, end, src, v)
  PROVE  /\ c \in CallRecs /\ c.k = k /\ c.f = f /\ c.s = s /\ c.from = from /\ c.off = from
         /\ c.end = end /\ c.src = src
  BY DEF Call, CallRecs, Kinds

(* What a valid call starts with.                                          *)
StartsOk(c) ==
  /\ c \in CallRecs /\ c.k \in Ops
  /\ c.k = "collapse" =>
       Aligned(c.from) /\ Aligned(c.end) /\ c.off = c.from /\ c.from <= c.end
  /\ c.k = "clonefile" => c.f # c.s /\ c.off = 0
  /\ c.k = "clonerange" => c.f # c.s /\ c.src + c.end <= MaxOff + c.off
  /\ c.k = "mmap" => c.off < MaxOff

(* Each of the calls that pass the checks starts so.                       *)
LEMMA ValidCall ==
  ASSUME IInv, NEW c \in Calls, IsValid(c)
  PROVE  StartsOk(c)
  <1>1. c.k \in Ops /\ MaxOff \in Nat /\ 0 \in Offs /\ 0 \in Bytes /\ Values \subseteq Bytes
    BY PageInFile DEF IsValid, Offs, Bytes
  <1>2. \A r \in Ranges : r[1] \in Nat /\ r[2] \in Offs /\ r[1] < r[2]
    BY <1>1, ConstantsAssumption DEF Offs, MaxOff
  <1>3. Offs \subseteq Nat
    BY DEF Offs
  <1>4. CASE \E k \in {"falloc", "punch", "zero", "collapse"}, f \in Files, r \in Ranges :
               c = Call(k, f, f, r[1], r[2], 0, 0)
    <2>1. PICK k \in {"falloc", "punch", "zero", "collapse"}, f \in Files, r \in Ranges :
                 c = Call(k, f, f, r[1], r[2], 0, 0)
      BY <1>4
    <2> DEFINE lo == r[1]
               hi == r[2]
    <2>2. lo \in Nat /\ hi \in Offs /\ hi \in Nat /\ lo < hi /\ c.k = k
      BY <1>2, <1>3, <2>1 DEF Call
    <2>3. c = Call(k, f, f, lo, hi, 0, 0)
      BY <2>1
    <2> HIDE DEF lo, hi
    <2>4. c \in CallRecs /\ c.from = lo /\ c.off = lo /\ c.end = hi
      BY <1>1, <2>1, <2>2, <2>3, CallType
    <2>5. c.off = c.from /\ c.from <= c.end
      BY <2>2, <2>4
    <2>6. QED
      BY <1>1, <2>1, <2>2, <2>4, <2>5 DEF StartsOk, IsValid
  <1>5. CASE \E f \in Files, r \in Ranges, v \in Values :
               c = Call("write", f, f, r[1], r[2], 0, v)
    <2>1. PICK f \in Files, r \in Ranges, v \in Values :
                 c = Call("write", f, f, r[1], r[2], 0, v)
      BY <1>5
    <2> DEFINE lo == r[1]
               hi == r[2]
               k == "write"
    <2>2. lo \in Nat /\ hi \in Offs /\ c.k = k /\ v \in Bytes
      BY <1>1, <1>2, <2>1 DEF Call
    <2>3. c = Call(k, f, f, lo, hi, 0, v) /\ k \in Ops
      BY <1>1, <2>1, <2>2
    <2> HIDE DEF lo, hi, k
    <2>4. c \in CallRecs
      BY <1>1, <1>3, <2>1, <2>2, <2>3, CallType
    <2>5. QED
      BY <1>1, <2>2, <2>4 DEF StartsOk, k
  <1>6. CASE \E f \in Files, size \in Offs : c = Call("trunc", f, f, 0, size, 0, 0)
    <2>1. PICK f \in Files, size \in Offs : c = Call("trunc", f, f, 0, size, 0, 0)
      BY <1>6
    <2>2. c.k = "trunc"
      BY <2>1 DEF Call
    <2>3. c \in CallRecs
      BY <1>1, <2>1, <2>2, CallType
    <2>4. QED
      BY <1>1, <2>2, <2>3 DEF StartsOk
  <1>7. CASE \E f \in Files, s \in Files : c = Call("clonefile", f, s, 0, 0, 0, 0)
    <2>1. PICK f \in Files, s \in Files : c = Call("clonefile", f, s, 0, 0, 0, 0)
      BY <1>7
    <2>2. c.k = "clonefile"
      BY <2>1 DEF Call
    <2>3. c \in CallRecs /\ c.f = f /\ c.s = s /\ c.off = 0
      BY <1>1, <2>1, <2>2, CallType
    <2>4. c.f # c.s
      BY <2>2 DEF IsValid, IsClone
    <2>5. QED
      BY <1>1, <2>2, <2>3, <2>4 DEF StartsOk
  <1>8. CASE \E f \in Files, s \in Files, r \in Ranges, src \in Offs :
               c = Call("clonerange", f, s, r[1], r[2], src, 0)
    <2>1. PICK f \in Files, s \in Files, r \in Ranges, src \in Offs :
                 c = Call("clonerange", f, s, r[1], r[2], src, 0)
      BY <1>8
    <2>2. r[1] \in Nat /\ r[2] \in Offs /\ r[2] \in Nat /\ src \in Nat /\ c.k = "clonerange"
      BY <1>2, <1>3, <2>1 DEF Call
    <2>3. /\ c \in CallRecs /\ c.f = f /\ c.s = s /\ c.from = r[1] /\ c.off = r[1]
          /\ c.end = r[2] /\ c.src = src
      BY <1>1, <2>1, <2>2, CallType
    <2>4. c.f # c.s /\ c.src + (c.end - c.from) <= MaxOff
      BY <2>2 DEF IsValid, IsClone
    <2>5. c.src + c.end <= MaxOff + c.off
      BY <1>1, <2>2, <2>3, <2>4
    <2>6. QED
      BY <1>1, <2>2, <2>3, <2>4, <2>5 DEF StartsOk
  <1>9. CASE \E f \in Files, off \in Offs, v \in Values :
               c = Call("mmap", f, f, off, off + 1, 0, v)
    <2>1. PICK f \in Files, off \in Offs, v \in Values :
                 c = Call("mmap", f, f, off, off + 1, 0, v)
      BY <1>9
    <2>2. c.k = "mmap" /\ c.from = off /\ c.f = f /\ v \in Bytes /\ off \in Nat
      BY <1>1, <1>3, <2>1 DEF Call
    <2>3. off < MaxOff
      <3>1. off < isize[f] /\ isize[f] \in Offs
        BY <2>2 DEF IsValid, IInv, Typed
      <3>2. isize[f] <= MaxOff /\ isize[f] \in Nat
        BY <1>3, <3>1 DEF Offs
      <3>3. QED
        BY <1>1, <2>2, <3>1, <3>2
    <2>4. off + 1 \in Offs
      BY <1>1, <2>2, <2>3 DEF Offs
    <2>5. c \in CallRecs /\ c.off = off
      BY <1>1, <2>1, <2>2, <2>4, CallType
    <2>6. QED
      BY <1>1, <2>2, <2>3, <2>5 DEF StartsOk
  <1>10. QED
    BY <1>4, <1>5, <1>6, <1>7, <1>8, <1>9 DEF Calls

(* A call begins on files that no other call is about.                     *)
LEMMA BeginStep ==
  ASSUME TruncUse, IInv, NEW t \in Threads, NEW c \in Calls, Begin(t, c)
  PROVE  IInv'
  <1>1. StartsOk(c)
    BY ValidCall DEF Begin
  <1>2. /\ op[t].k = "none" /\ ~InUse(c.f) /\ ~InUse(c.s) /\ op' = [op EXCEPT ![t] = c]
        /\ mem' = mem /\ blk' = blk /\ isize' = isize /\ iblocks' = iblocks /\ slock' = slock
    BY DEF Begin, files
  <1>3. op \in [Threads -> IdleRecs \cup CallRecs]
    BY DEF IInv, Typed
  <1>4. /\ op' \in [Threads -> IdleRecs \cup CallRecs] /\ op'[t] = c
        /\ \A u \in Threads \ {t} : op'[u] = op[u]
    BY <1>1, <1>2, <1>3 DEF StartsOk
  <1>5. Typed'
    BY <1>2, <1>4 DEF IInv, Typed
  <1>6. DataOk(mem, blk, iblocks)'
    BY <1>2 DEF IInv
  <1>7. Apart'
    BY <1>2, <1>4 DEF IInv, Apart, Busy, InUse
  <1>8. slock # t
    BY <1>2 DEF IInv, LockedByClone, Busy
  <1>9. LockedByClone'
    BY <1>2, <1>4, <1>8 DEF IInv, LockedByClone, Busy, IsClone
  <1>10. CallOk(t)'
    <2>1. c.k = "trunc" => Threads = {t}
      BY <1>1 DEF StartsOk, TruncUse
    <2>2. c.k \notin {"load", "store"}
      BY <1>1, ConstantsAssumption DEF StartsOk
    <2>3. c.k = "collapse" => c.from \in Nat
      BY <1>1 DEF StartsOk, CallRecs
    <2>4. c.k = "collapse" =>
            \A p \in FilePages : Page(c.from) <= p /\ p < Page(c.off) => FALSE
      BY <1>1, <2>3, PageFacts DEF StartsOk, FilePages
    <2>5. CollapseOk(c)'
      BY <1>1, <2>3, <2>4 DEF StartsOk, CollapseOk, Page, Aligned
    <2>6. CloneFileOk(t, c)' /\ CloneRangeOk(c)' /\ MmapOk(c)' /\ TruncOk(t, c)'
      BY <1>1, <1>2, <1>8, <2>1, <2>2
         DEF StartsOk, CloneFileOk, CloneRangeOk, MmapOk, TruncOk, MaxOff
    <2>7. QED
      BY <1>4, <2>5, <2>6 DEF CallOk, CollapseOk, CloneFileOk, CloneRangeOk, MmapOk, TruncOk
  <1>11. ASSUME NEW u \in Threads \ {t} PROVE CallOk(u)'
    <2>1. CallOk(u) /\ op'[u] = op[u]
      BY <1>4 DEF IInv
    <2>2. QED
      BY <1>2, <2>1 DEF CallOk, CollapseOk, CloneFileOk, CloneRangeOk, MmapOk, TruncOk, TailBlk
  <1>12. QED
    BY <1>5, <1>6, <1>7, <1>9, <1>10, <1>11 DEF IInv
-----------------------------------------------------------------------------
(* The invariant, for all behaviours.                                      *)

(* The invariant holds at first.                                           *)
LEMMA InitOk ==
  ASSUME Init
  PROVE  IInv
  <1>1. /\ blk = [f \in Files |-> [p \in FilePages |-> NoBlock]]
        /\ isize = [f \in Files |-> 0] /\ iblocks = [f \in Files |-> 0]
        /\ slock = NoThread /\ op = [t \in Threads |-> Idle(FALSE)]
    BY DEF Init
  <1>2. blk \in Blks /\ \A f \in Files, p \in FilePages : blk[f][p] = NoBlock
    BY <1>1 DEF Blks
  <1>3. NMapped(blk) = 0 /\ (\A f \in Files : NMappedOf(blk, f) = 0)
                         /\ \A b \in Blocks : NRefs(blk, b) = 0
    <2>1. Mapped(blk) = {} /\ \A f \in Files : MappedOf(blk, f) = {}
      BY <1>2 DEF Mapped, MappedOf
    <2>2. \A b \in Blocks : RefsOf(blk, b) = {}
      BY <1>2 DEF RefsOf, Blocks, NoBlock
    <2>3. QED
      BY <2>1, <2>2, FS_EmptySet DEF NMapped, NMappedOf, NRefs
  <1>4. /\ mem.pages = Blocks /\ mem.bfree = NBlocks + 1
        /\ mem.free["d"] = 0 /\ mem.free["i"] = 0
        /\ mem.refcnt = [b \in Blocks |-> 0]
    BY DEF Init
  <1>5. mem \in Mems
    <2>1. Zeros \in [0 .. PageSize - 1 -> Bytes]
      BY DEF Zeros, Bytes
    <2>2. NBlocks + 1 \in Nat
      BY ConstantsAssumption
    <2>3. QED
      BY <2>1, <2>2 DEF Init, Mems
  <1>6. Used(mem) = {} /\ Cardinality(Used(mem)) = 0
    <2>1. Used(mem) = {}
      BY <1>4 DEF Used
    <2>2. QED
      BY <2>1, FS_EmptySet
  <1>7. Cardinality(mem.pages) = NBlocks
    <2>1. 1 \in Int /\ NBlocks \in Int /\ NBlocks \in Nat
      BY ConstantsAssumption
    <2>2. Cardinality(1 .. NBlocks) = IF 1 > NBlocks THEN 0 ELSE (NBlocks - 1) + 1
      BY <2>1, FS_Interval
    <2>3. QED
      BY <1>4, <2>1, <2>2 DEF Blocks
  <1>8. Balanced(NBlocks, 0, 0, 0, 0)
    <2>1. ASSUME NEW n \in Nat \ {0} PROVE 0 % n = 0 /\ 0 \div n = 0
      <3>1. 0 = 0 * n + 0 /\ 0 \in 0 .. n - 1
        OBVIOUS
      <3>2. QED
        BY <3>1, DivUnique
    <2>2. Per["d"] \in Nat \ {0} /\ Per["i"] \in Nat \ {0} /\ NBlocks \in Nat
      BY ConstantsAssumption
    <2>3. 0 % Per["d"] = 0 /\ 0 \div Per["d"] = 0 /\ 0 % Per["i"] = 0 /\ 0 \div Per["i"] = 0
      BY <2>1, <2>2
    <2>4. QED
      BY <2>2, <2>3 DEF Balanced
  <1>9. PoolOk(mem, NMapped(blk))
    BY <1>3, <1>4, <1>5, <1>6, <1>7, <1>8, ConstantsAssumption DEF PoolOk
  <1>10. DataOk(mem, blk, iblocks)
    BY <1>1, <1>2, <1>3, <1>4, <1>9 DEF DataOk, Covered, Counted
  <1>11. Typed
    BY <1>1, PageInFile DEF Typed, IdleRecs, Offs
  <1>12. Apart /\ LockedByClone /\ \A t \in Threads : CallOk(t)
    BY <1>1, ConstantsAssumption
       DEF Apart, LockedByClone, Busy, CallOk, CollapseOk, CloneFileOk, CloneRangeOk,
           MmapOk, TruncOk, Idle
  <1>13. QED
    BY <1>10, <1>11, <1>12 DEF IInv

(* Calls that write a block in place, even a shared one.                   *)
InPlace == {"zero", "punch", "mmap"}

(* Every step keeps the invariant, and all but the writes in place keep    *)
(* the other files.                                                        *)
LEMMA StepOk ==
  ASSUME IInv, NEW t \in Threads, Step(t)
  PROVE  IInv' /\ (op[t].k \notin InPlace => Isolates(op[t].f))
  <1>1. CASE RwPage(t) \/ RwNoSpace(t) \/ RwEnd(t)
    BY <1>1, RwPageStep, RwNoSpaceStep, RwEndStep
  <1>2. CASE PunchPage(t) \/ PunchEnd(t)
    BY <1>2, PunchPageStep, PunchEndStep DEF InPlace, PunchEnd
  <1>3. CASE CollapseEnd(t) \/ DropRange(t)
    BY <1>3, CollapseEndStep, DropRangeStep
  <1>4. CASE ZeroBlk(t) \/ ZeroEnd(t)
    BY <1>4, ZeroBlkStep, ZeroEndStep DEF InPlace, ZeroBlk, ZeroEnd
  <1>5. CASE TruncEnd(t) \/ TruncCopy(t) \/ TruncLoad(t) \/ TruncStore(t)
    BY <1>5, TruncEndStep, TruncCopyStep, TruncLoadStep, TruncStoreStep
  <1>6. CASE CloneLock(t) \/ ShareBlk(t) \/ ShareEnd(t)
    BY <1>6, CloneLockStep, ShareBlkStep, ShareEndStep
  <1>7. CASE ClonePage(t) \/ CloneHole(t) \/ CloneEnd(t)
    BY <1>7, ClonePageStep, CloneHoleStep, CloneEndStep
  <1>8. CASE MmapWrite(t)
    BY <1>8, MmapWriteStep DEF InPlace, MmapWrite
  <1>9. QED
    BY <1>1, <1>2, <1>3, <1>4, <1>5, <1>6, <1>7, <1>8 DEF Step

(* A step is one of a call.                                                *)
LEMMA StepBusy ==
  ASSUME NEW t \in Threads, Step(t)
  PROVE  Busy(t)
  BY DEF Step, RwPage, RwNoSpace, RwEnd, PunchPage, PunchEnd, CollapseEnd, ZeroBlk, ZeroEnd,
         DropRange, TruncEnd, TruncCopy, TruncLoad, TruncStore, CloneLock, IsClone, ShareBlk,
         ShareEnd, ClonePage, CloneHole, CloneEnd, MmapWrite, Busy

(* A step that changes nothing.                                            *)
LEMMA StutterOk ==
  ASSUME IInv, UNCHANGED vars
  PROVE  IInv'
  <1>1. /\ mem' = mem /\ blk' = blk /\ isize' = isize /\ iblocks' = iblocks
        /\ slock' = slock /\ op' = op
    BY DEF vars, files
  <1>2. Typed' /\ DataOk(mem, blk, iblocks)' /\ Apart' /\ LockedByClone'
    BY <1>1 DEF IInv, Typed, Apart, LockedByClone, Busy
  <1>3. \A t \in Threads : CallOk(t)'
    BY <1>1
       DEF IInv, CallOk, CollapseOk, CloneFileOk, CloneRangeOk, MmapOk, TruncOk, TailBlk
  <1>4. QED
    BY <1>2, <1>3 DEF IInv

(* The invariant is inductive: it holds at first and is kept by every call *)
(* of file.c and mmap.c, whatever the others are in.                       *)
THEOREM FileInductive ==
  ASSUME TruncUse
  PROVE  Spec => []IInv
  <1>1. Init => IInv
    BY InitOk
  <1>2. IInv /\ [Next]_vars => IInv'
    <2> SUFFICES ASSUME IInv, [Next]_vars PROVE IInv'
      OBVIOUS
    <2>1. CASE UNCHANGED vars
      BY <2>1, StutterOk
    <2>2. CASE Next
      BY <2>2, StepOk, BeginStep DEF Next
    <2>3. QED
      BY <2>1, <2>2
  <1>3. QED
    BY <1>1, <1>2, PTL DEF Spec

(* RefsCovered: the count of a block is never below the number of pages    *)
(* that refer to it, and such a block is not in the pool (_decref_dblkref, *)
(* _require_iblkref, _share_page).                                         *)
THEOREM FileRefsCovered ==
  ASSUME TruncUse
  PROVE  Spec => []RefsCovered
  <1>1. IInv => RefsCovered
    <2> SUFFICES ASSUME IInv, NEW b \in LiveBlocks
                 PROVE  mem.refcnt[b] >= Cardinality(Refs(b)) /\ b \notin mem.pages
      BY DEF RefsCovered
    <2>1. b \in Blocks /\ Refs(b) = RefsOf(blk, b) /\ Refs(b) # {}
      BY DEF LiveBlocks, Refs, RefsOf
    <2>2. NRefs(blk, b) \in Nat /\ NMapped(blk) \in Nat
      BY Counts
    <2>3. mem.refcnt \in [Blocks -> Nat] /\ \A x \in mem.pages : mem.refcnt[x] = 0
      BY <2>2, PoolFacts DEF IInv, DataOk
    <2>4. NRefs(blk, b) <= mem.refcnt[b] /\ mem.refcnt[b] \in Nat
      BY <2>1, <2>3 DEF IInv, DataOk, Covered
    <2>5. NRefs(blk, b) # 0
      <3>1. RefsOf(blk, b) \subseteq Files \X FilePages
        BY DEF RefsOf
      <3>2. QED
        BY <2>1, <3>1, CountSet DEF NRefs
    <2>6. mem.refcnt[b] # 0
      BY <2>2, <2>4, <2>5
    <2>7. QED
      BY <2>1, <2>2, <2>3, <2>4, <2>6 DEF NRefs
  <1>2. QED
    BY <1>1, FileInductive, PTL

(* PoolExact: every page of the device is free, a block of a file, cut     *)
(* into references or stranded by a copy on write, and only one of these,  *)
(* and f_bfree and i_blocks agree with that, also after calls that fail    *)
(* for want of space (_new_dblkref, _free_iblkref, toyfs_statfs).          *)
THEOREM FilePoolExact ==
  ASSUME TruncUse
  PROVE  Spec => []PoolExact
  <1>1. IInv => PoolExact
    <2> SUFFICES ASSUME IInv PROVE PoolExact
      OBVIOUS
    <2>1. DataOk(mem, blk, iblocks) /\ NMapped(blk) \in Nat /\ PoolOk(mem, NMapped(blk))
      BY Counts DEF IInv, DataOk
    <2>2. /\ mem.pages \in SUBSET Blocks /\ mem.bfree \in Nat
          /\ mem.free \in [{"d", "i"} -> Nat] /\ mem.free["d"] \in Nat /\ mem.free["i"] \in Nat
          /\ mem.refcnt \in [Blocks -> Nat]
          /\ mem.data \in [Blocks -> [0 .. PageSize - 1 -> Bytes]]
          /\ Cardinality(mem.pages) \in Nat /\ Cardinality(Used(mem)) \in Nat
      BY <2>1, PoolFacts
    <2>3. TypeOK
      <3>1. ASSUME NEW t \in Threads
            PROVE  op[t] \in {Idle(TRUE), Idle(FALSE)} \/ op[t].k \in Kinds
        BY DEF IInv, Typed, IdleRecs, CallRecs
      <3>2. blk \in [Files -> [FilePages -> Blocks \cup {NoBlock}]] /\ iblocks \in [Files -> Nat]
        BY <2>1 DEF DataOk, Blks, Counted
      <3>3. isize \in [Files -> Offs] /\ slock \in Threads \cup {NoThread}
        BY DEF IInv, Typed
      <3>4. QED
        BY <2>2, <3>1, <3>2, <3>3 DEF TypeOK
    <2>4. IBlocks
      <3>1. \A f \in Files : BlocksFrom(f, 0) = MappedOf(blk, f)
        BY DEF BlocksFrom, MappedOf, FilePages
      <3>2. QED
        BY <2>1, <3>1 DEF IBlocks, DataOk, Counted, NMappedOf
    <2>5. PoolConserved
      <3> DEFINE held == LiveBlocks \cup InCopy
      <3>1. held \subseteq Used(mem) /\ Stranded = Used(mem) \ held
        <4>1. ASSUME NEW b \in LiveBlocks PROVE b \in Used(mem)
          <5>1. b \in Blocks /\ RefsOf(blk, b) # {} /\ RefsOf(blk, b) \subseteq Files \X FilePages
            BY DEF LiveBlocks, Refs, RefsOf
          <5>2. NRefs(blk, b) \in Nat /\ NRefs(blk, b) # 0
            BY <5>1, CountSet DEF NRefs
          <5>3. NRefs(blk, b) <= mem.refcnt[b] /\ mem.refcnt[b] \in Nat
            BY <2>1, <2>2, <5>1 DEF DataOk, Covered
          <5>4. QED
            BY <5>1, <5>2, <5>3 DEF Used
        <4>2. ASSUME NEW b \in InCopy PROVE b \in Used(mem)
          <5>1. PICK t \in Threads : op[t].k \in {"load", "store"} /\ b = op[t].b
            BY DEF InCopy
          <5>2. TruncOk(t, op[t])
            BY DEF IInv, CallOk
          <5>3. QED
            BY <5>1, <5>2 DEF TruncOk, Used
        <4>3. QED
          BY <4>1, <4>2 DEF Stranded, Used
      <3>7. Cardinality(held) + Cardinality(Stranded) = Cardinality(Used(mem))
        <4>1. IsFiniteSet(Used(mem))
          BY BlocksFinite, FS_Subset DEF Used
        <4>2. Used(mem) \cap held = held
          BY <3>1
        <4>3. /\ Cardinality(Used(mem) \ held) = Cardinality(Used(mem)) - Cardinality(Used(mem) \cap held)
              /\ IsFiniteSet(held) /\ Cardinality(held) \in Nat
          BY <3>1, <4>1, FS_Difference, FS_Subset, FS_CardinalityType
        <4>5. Cardinality(Stranded) = Cardinality(Used(mem)) - Cardinality(held)
          BY <3>1, <4>2, <4>3, Zenon
        <4> HIDE DEF held
        <4>4. QED
          BY <2>2, <4>3, <4>5
      <3>8. held \cup Stranded = Used(mem)
        BY <3>1
      <3>2. Cardinality({fp \in Files \X FilePages : blk[fp[1]][fp[2]] # NoBlock}) = NMapped(blk)
        BY DEF NMapped, Mapped
      <3> DEFINE nu == Cardinality(Used(mem))
                 ni == NMapped(blk)
      <3>3. NBlocks = Cardinality(mem.pages) + nu
                      + ((mem.free["d"] + nu) \div Per["d"])
                      + ((mem.free["i"] + ni) \div Per["i"])
        BY <2>1 DEF PoolOk, Balanced
      <3>4. mem.pages \cap Used(mem) = {} /\ mem.bfree + nu = NBlocks + 1
        BY <2>1 DEF PoolOk
      <3>5. mem.bfree = NBlocks + 1 - nu
        <4>1. mem.bfree \in Nat /\ nu \in Nat /\ NBlocks \in Nat
          BY <2>2, ConstantsAssumption
        <4> HIDE DEF nu
        <4>2. QED
          BY <3>4, <4>1
      <3> HIDE DEF nu, ni, held
      <3>6. QED
        BY <3>2, <3>3, <3>4, <3>5, <3>7, <3>8 DEF PoolConserved, nu, ni, held
    <2>6. QED
      BY <2>3, <2>4, <2>5 DEF PoolExact
  <1>2. QED
    BY <1>1, FileInductive, PTL
-----------------------------------------------------------------------------
(* What is read from the files.                                            *)

(* The bytes of a file whose pages, size and blocks stay as they are.      *)
LEMMA SameBytes ==
  ASSUME IInv, NEW f \in Files, blk'[f] = blk[f], isize'[f] = isize[f],
         \A q \in FilePages : blk[f][q] # NoBlock => mem'.data[blk[f][q]] = mem.data[blk[f][q]]
  PROVE  /\ \A i \in 0 .. isize[f] - 1 : Byte(f, i)' = Byte(f, i)
         /\ Content(f)' = Content(f)
  <1>1. isize[f] \in Offs /\ MaxOff \in Nat
    BY PageInFile DEF IInv, Typed
  <1>2. \A i \in 0 .. isize[f] - 1 : Page(i) \in FilePages
    <2> SUFFICES ASSUME NEW i \in 0 .. isize[f] - 1 PROVE Page(i) \in FilePages
      OBVIOUS
    <2>1. i \in Nat /\ i < MaxOff
      BY <1>1 DEF Offs
    <2>2. QED
      BY <2>1, PageInFile
  <1>3. \A i \in 0 .. isize[f] - 1 : Byte(f, i)' = Byte(f, i)
    BY <1>2 DEF Byte, Page, NoBlock
  <1>4. QED
    BY <1>3 DEF Content

(* What a call that writes in place leaves alone: the blocks that its file *)
(* does not refer to.                                                      *)
SparesUnshared(f) ==
  /\ \A g \in Files \ {f} : blk'[g] = blk[g] /\ isize'[g] = isize[g]
  /\ \A g \in Files \ {f}, q \in FilePages :
       blk[g][q] # NoBlock /\ (\A p \in FilePages : blk[f][p] # blk[g][q])
         => mem'.data[blk[g][q]] = mem.data[blk[g][q]]

(* Bytes of one block of the file change.                                  *)
LEMMA FillSpares ==
  ASSUME IInv, NEW f \in Files, NEW p \in FilePages, blk[f][p] # NoBlock,
         NEW lo, NEW hi, NEW v \in Bytes, mem' = Fill(mem, blk[f][p], lo, hi, v),
         blk' = blk, isize' = isize
  PROVE  SparesUnshared(f)
  <1>1. DataOk(mem, blk, iblocks) /\ blk \in Blks /\ NMapped(blk) \in Nat /\ PoolOk(mem, NMapped(blk))
    BY Counts DEF IInv, DataOk
  <1>2. blk[f][p] \in Blocks
    BY <1>1 DEF Blks
  <1>3. \A x \in Blocks \ {blk[f][p]} : mem'.data[x] = mem.data[x]
    BY <1>1, <1>2, FillOk
  <1>4. ASSUME NEW g \in Files \ {f}, NEW q \in FilePages, blk[g][q] # NoBlock,
               \A r \in FilePages : blk[f][r] # blk[g][q]
        PROVE  mem'.data[blk[g][q]] = mem.data[blk[g][q]]
    BY <1>1, <1>3, <1>4 DEF Blks
  <1>5. QED
    BY <1>4 DEF SparesUnshared

(* _punch_hole, _zero_range and a store through a mapping change no block  *)
(* that only other files refer to.                                         *)
LEMMA InPlaceSpares ==
  ASSUME IInv, NEW t \in Threads, Step(t), op[t].k \in InPlace
  PROVE  SparesUnshared(op[t].f)
  <1> DEFINE f == op[t].f
  <1>1. Busy(t) /\ f \in Files /\ op[t].off \in Nat /\ op[t].v \in Bytes /\ 0 \in Bytes
    BY CallFields DEF InPlace, Busy, Bytes
  <1>2. DataOk(mem, blk, iblocks) /\ blk \in Blks
    BY DEF IInv, DataOk
  <1>3. PunchPage(t) \/ PunchEnd(t) \/ ZeroBlk(t) \/ ZeroEnd(t) \/ MmapWrite(t)
    <2>1. ~RwPage(t) /\ ~RwNoSpace(t) /\ ~RwEnd(t) /\ ~CollapseEnd(t) /\ ~DropRange(t)
      BY DEF InPlace, RwPage, RwNoSpace, RwEnd, CollapseEnd, DropRange
    <2>2. ~TruncEnd(t) /\ ~TruncCopy(t) /\ ~TruncLoad(t) /\ ~TruncStore(t)
      BY DEF InPlace, TruncEnd, TruncCopy, TruncLoad, TruncStore
    <2>3. ~CloneLock(t) /\ ~ShareBlk(t) /\ ~ShareEnd(t)
      BY DEF InPlace, CloneLock, IsClone, ShareBlk, ShareEnd
    <2>4. ~ClonePage(t)
      BY DEF InPlace, ClonePage
    <2>5. ~CloneHole(t)
      <3>1. CloneHole(t) => op[t].k = "clonerange"
        BY Zenon DEF CloneHole
      <3>2. QED
        BY <3>1 DEF InPlace
    <2>6. ~CloneEnd(t)
      BY DEF InPlace, CloneEnd
    <2>7. QED
      BY <2>1, <2>2, <2>3, <2>4, <2>5, <2>6 DEF Step
  <1>4. CASE PunchEnd(t) \/ ZeroEnd(t)
    BY <1>4 DEF PunchEnd, ZeroEnd, files, SparesUnshared
  <1>5. CASE PunchPage(t)
    <2> DEFINE p == Page(op[t].off)
               len == Least(NextPage(op[t].off), op[t].end) - op[t].off
               lo == op[t].off % PageSize
    <2>1. p \in FilePages
      BY <1>1, <1>5, CallFields, OffInFile DEF PunchPage
    <2>2. /\ isize' = isize
          /\ \/ UNCHANGED <<mem, blk, iblocks>>
             \/ /\ blk[f][p] # NoBlock /\ mem' = Fill(mem, blk[f][p], lo, lo + len, 0)
                /\ UNCHANGED <<blk, iblocks>>
             \/ blk[f][p] # NoBlock /\ Drop(t, f, p)
      BY <1>5 DEF PunchPage
    <2> HIDE DEF p, len, lo, f
    <2>6. SparesUnshared(f)
      <3>1. CASE UNCHANGED <<mem, blk, iblocks>>
        BY <2>2, <3>1 DEF SparesUnshared
      <3>2. CASE /\ blk[f][p] # NoBlock /\ mem' = Fill(mem, blk[f][p], lo, lo + len, 0)
                 /\ UNCHANGED <<blk, iblocks>>
        BY <1>1, <2>1, <2>2, <3>2, FillSpares
      <3>3. CASE blk[f][p] # NoBlock /\ Drop(t, f, p)
        <4>1. OthersKept(f, blk, mem, mem') /\ \A g \in Files \ {f} : blk'[g] = blk[g]
          BY <1>1, <1>2, <2>1, <3>3, DropStep
        <4>2. QED
          BY <2>2, <4>1 DEF SparesUnshared, OthersKept
      <3>4. QED
        BY <2>2, <3>1, <3>2, <3>3
    <2>7. QED
      BY <2>6 DEF f
  <1>6. CASE ZeroBlk(t)
    <2> DEFINE S == BlocksFrom(f, Page(op[t].off))
               p == First(S)
               off == IF op[t].off = op[t].from THEN op[t].from ELSE p * PageSize
               lo == off % PageSize
               len == Least((p + 1) * PageSize, op[t].end) - off
    <2>1. S # {} /\ mem' = Fill(mem, blk[f][p], lo, lo + len, 0) /\ blk' = blk /\ isize' = isize
      BY <1>6 DEF ZeroBlk, files
    <2>2. S \in SUBSET Nat
      BY DEF BlocksFrom, FilePages
    <2>3. p \in S
      BY <2>1, <2>2, FirstFacts
    <2>4. p \in FilePages /\ blk[f][p] # NoBlock
      BY <2>3 DEF BlocksFrom
    <2> HIDE DEF p, lo, len, f
    <2>5. SparesUnshared(f)
      BY <1>1, <2>1, <2>4, FillSpares
    <2>6. QED
      BY <2>5 DEF f
  <1>7. CASE MmapWrite(t)
    <2> DEFINE p == Page(op[t].off)
               b == blk[f][p]
               n == IF b # NoBlock THEN [b |-> b, m |-> mem] ELSE Require(f, p)
               i == op[t].off % PageSize
               j == i + 1
    <2>1. /\ isize' = isize /\ op[t].k = "mmap"
          /\ \/ n.b = NoBlock /\ mem' = n.m /\ blk' = blk
             \/ n.b # NoBlock /\ mem' = Fill(n.m, n.b, i, j, op[t].v) /\ SetBlk(f, p, n.b)
      BY <1>7 DEF MmapWrite
    <2>2. p \in FilePages
      <3>1. op[t].off < MaxOff
        BY <2>1 DEF IInv, CallOk, MmapOk
      <3>2. QED
        BY <1>1, <3>1, PageInFile
    <2>3. CASE b # NoBlock
      <3>1. n.b = b /\ n.m = mem
        BY <2>3
      <3>2. mem' = Fill(mem, blk[f][p], i, j, op[t].v) /\ SetBlk(f, p, blk[f][p])
        BY <2>1, <2>3, <3>1
      <3> HIDE DEF n, p, i, j, f
      <3>3. blk' = WithPage(blk, f, p, blk[f][p])
        BY <3>2 DEF SetBlk, WithPage
      <3>4. blk' = blk
        BY <1>1, <1>2, <2>2, <3>3, SamePage
      <3>5. SparesUnshared(f)
        BY <1>1, <2>1, <2>2, <2>3, <3>2, <3>4, FillSpares
      <3>6. QED
        BY <3>5 DEF f
    <2>4. CASE b = NoBlock
      <3>1. n = Require(f, p)
        BY <2>4
      <3> HIDE DEF n, p, i, j, f
      <3>2. CASE n.b = NoBlock
        <4>1. n.b \notin Blocks
          BY <3>2 DEF Blocks, NoBlock
        <4>3. mem' = n.m /\ blk' = blk
          BY <2>1, <3>2
        <4>6. PoolOk(n.m, NMapped(blk)) /\ n.m.refcnt = mem.refcnt /\ Kept(mem, n.m)
          BY <1>1, <1>2, <2>2, <3>1, <4>1, RequireOk
        <4>7. mem.refcnt \in [Blocks -> Nat]
          BY <1>2, Counts, PoolFacts DEF DataOk
        <4>8. DataOk(n.m, blk, iblocks)
          BY <1>2, <4>6, <4>7, SameFiles
        <4>2. OthersKept(f, blk, mem, n.m)
          BY <1>2, <4>6, <4>8, KeptOthers
        <4>4. SparesUnshared(f)
          BY <2>1, <4>2, <4>3 DEF SparesUnshared, OthersKept
        <4>5. QED
          BY <4>4 DEF f
      <3>3. CASE n.b # NoBlock
        <4>1. mem' = Fill(n.m, n.b, i, j, op[t].v) /\ SetBlk(f, p, n.b)
          BY <2>1, <3>3
        <4>2. blk' = WithPage(blk, f, p, n.b)
          BY <4>1 DEF SetBlk, WithPage
        <4> DEFINE ib == CountsWith(blk, iblocks, f, p)
        <4>7. n.b \in Blocks /\ PoolOk(n.m, PagesWith(blk, f, p)) /\ Kept(mem, n.m)
          BY <1>1, <1>2, <2>2, <3>1, <3>3, RequireOk
        <4>8. PagesWith(blk, f, p) \in Nat
          BY Counts DEF PagesWith
        <4>3. /\ DataOk(n.m, blk', ib) /\ \A g \in Files \ {f} : blk'[g] = blk[g]
              /\ \A g \in Files \ {f}, q \in FilePages : blk[g][q] # n.b
          BY <1>1, <1>2, <2>2, <3>1, <3>3, <4>2, <4>7, WriteOk
        <4> HIDE DEF ib
        <4>9. OthersKept(f, blk, mem, n.m)
          BY <1>2, <4>3, <4>7, KeptOthers
        <4>4. OthersKept(f, blk, mem, mem')
          BY <1>1, <1>2, <4>1, <4>3, <4>7, <4>8, <4>9, FillOthers
        <4>5. SparesUnshared(f)
          BY <2>1, <4>3, <4>4 DEF SparesUnshared, OthersKept
        <4>6. QED
          BY <4>5 DEF f
      <3>4. QED
        BY <3>2, <3>3
    <2>5. QED
      BY <2>3, <2>4
  <1>8. QED
    BY <1>3, <1>4, <1>5, <1>6, <1>7

(* A step of one thread leaves the calls of the others alone.              *)
LEMMA OthersCalls ==
  ASSUME IInv, NEW t \in Threads, Step(t) \/ \E c \in Calls : Begin(t, c)
  PROVE  \A u \in Threads \ {t} : op'[u] = op[u]
  <1>1. op \in [Threads -> IdleRecs \cup CallRecs]
    BY DEF IInv, Typed
  <1>2. op' = op \/ \E w : op' = [op EXCEPT ![t] = w]
    <2>1. CASE \E c \in Calls : Begin(t, c)
      BY <2>1 DEF Begin
    <2>2. CASE RwPage(t) \/ RwNoSpace(t) \/ RwEnd(t)
      BY <2>2 DEF RwPage, RwNoSpace, RwEnd, Advance, Return, Fail
    <2>3. CASE PunchPage(t) \/ PunchEnd(t) \/ CollapseEnd(t) \/ ZeroBlk(t) \/ ZeroEnd(t)
      BY <2>3 DEF PunchPage, PunchEnd, CollapseEnd, ZeroBlk, ZeroEnd, Advance, Return
    <2>4. CASE DropRange(t) \/ TruncEnd(t)
      BY <2>4 DEF DropRange, TruncEnd, Return
    <2>5. CASE TruncCopy(t)
      BY <2>5 DEF TruncCopy, Fail
    <2>6. CASE TruncLoad(t) \/ TruncStore(t)
      BY <2>6 DEF TruncLoad, TruncStore, Return
    <2>7. CASE CloneLock(t) \/ ShareBlk(t) \/ ShareEnd(t)
      <3>1. CASE ShareBlk(t)
        BY <3>1 DEF ShareBlk, CloneFail, Fail, Advance
      <3>2. CASE CloneLock(t) \/ ShareEnd(t)
        BY <3>2 DEF CloneLock, ShareEnd, Return
      <3>3. QED
        BY <2>7, <3>1, <3>2
    <2>8. CASE ClonePage(t) \/ CloneHole(t) \/ CloneEnd(t)
      BY <2>8 DEF ClonePage, CloneHole, CloneEnd, CloneFail, CloneAdvance, Fail, Return
    <2>9. CASE MmapWrite(t)
      BY <2>9 DEF MmapWrite, Fail, Return
    <2>10. QED
      BY <2>1, <2>2, <2>3, <2>4, <2>5, <2>6, <2>7, <2>8, <2>9 DEF Step
  <1>3. QED
    BY <1>1, <1>2

(* Of the steps of a clone of a file only ShareEnd returns.                *)
LEMMA CloneReturns ==
  ASSUME IInv, NEW t \in Threads, Step(t), op[t].k = "clonefile", Returned(t)
  PROVE  ShareEnd(t)
  <1>1. op \in [Threads -> IdleRecs \cup CallRecs] /\ op'[t].k = "none" /\ Busy(t)
    BY DEF IInv, Typed, Returned, Idle, Busy
  <1>2. ~DropRange(t) /\ ~CloneLock(t)
    BY <1>1 DEF DropRange, CloneLock
  <1>3. ~ShareBlk(t)
    <2> SUFFICES ASSUME ShareBlk(t) PROVE FALSE
      OBVIOUS
    <2> DEFINE x == (First(BlocksFrom(op[t].s, Page(op[t].off))) + 1) * PageSize
    <2>1. CloneFail(t) \/ Advance(t, x)
      BY DEF ShareBlk
    <2> HIDE DEF x
    <2>2. CASE CloneFail(t)
      BY <1>1, <2>2 DEF CloneFail, Fail, Returned, Idle
    <2>3. CASE Advance(t, x)
      <3>1. op[t] \in CallRecs
        BY <1>1, CallFields
      <3>2. op'[t] = [op[t] EXCEPT !.off = x]
        BY <1>1, <2>3 DEF Advance
      <3>3. op'[t].k = op[t].k
        BY <3>1, <3>2 DEF CallRecs
      <3>4. QED
        BY <1>1, <3>3
    <2>4. QED
      BY <2>1, <2>2, <2>3
  <1>4. ~(RwPage(t) \/ RwNoSpace(t) \/ RwEnd(t) \/ PunchPage(t) \/ PunchEnd(t)
          \/ CollapseEnd(t) \/ ZeroBlk(t) \/ ZeroEnd(t) \/ TruncEnd(t) \/ TruncCopy(t))
    BY DEF RwPage, RwNoSpace, RwEnd, PunchPage, PunchEnd, CollapseEnd, ZeroBlk, ZeroEnd,
           TruncEnd, TruncCopy
  <1>5. ~(TruncLoad(t) \/ TruncStore(t) \/ ClonePage(t) \/ CloneHole(t) \/ CloneEnd(t)
          \/ MmapWrite(t))
    BY DEF TruncLoad, TruncStore, ClonePage, CloneHole, CloneEnd, MmapWrite
  <1>6. QED
    BY <1>2, <1>3, <1>4, <1>5 DEF Step

(* The clone that has passed all blocks of the source equals it.           *)
LEMMA ShareEndEqual ==
  ASSUME IInv, NEW t \in Threads, ShareEnd(t), NEW f, NEW s, op[t].f = f, op[t].s = s
  PROVE  Content(f)' = Content(s)'
  <1> DEFINE off == op[t].off
  <1>1. Busy(t) /\ op[t].k = "clonefile" /\ slock = t /\ BlocksFrom(s, Page(off)) = {}
    BY DEF ShareEnd, Busy
  <1>2. isize' = [isize EXCEPT ![f] = isize[s]] /\ blk' = blk
    BY DEF ShareEnd
  <1>3. /\ f # s
        /\ \A q \in FilePages : blk[f][q] = IF q < Page(off) THEN blk[s][q] ELSE NoBlock
    BY <1>1 DEF IInv, CallOk, CloneFileOk
  <1>4. /\ f \in Files /\ s \in Files /\ off \in Nat /\ isize \in [Files -> Offs] /\ blk \in Blks
    BY <1>1, CallFields DEF IInv, Typed, DataOk
  <1>5. Page(off) \in Nat
    BY <1>4, PageFacts
  <1>6. \A q \in FilePages : ~(q < Page(off)) => blk[s][q] = NoBlock
    BY <1>1, <1>5 DEF BlocksFrom, FilePages
  <1>7. blk[f] = blk[s]
    <2>1. \A q \in FilePages : blk[f][q] = blk[s][q]
      BY <1>3, <1>6
    <2>2. /\ blk[f] \in [FilePages -> Blocks \cup {NoBlock}]
          /\ blk[s] \in [FilePages -> Blocks \cup {NoBlock}]
      BY <1>4 DEF Blks
    <2>3. QED
      BY <2>1, <2>2
  <1>8. isize'[f] = isize'[s] /\ blk'[f] = blk'[s]
    BY <1>2, <1>3, <1>4, <1>7
  <1>9. QED
    BY <1>8 DEF Content, Byte

(* ClonesIndependent: a call changes what is read from its own file and    *)
(* from no other, though they share blocks, and a clone that returns       *)
(* equals its source (_require_iblkref, _clone_entire_file_range).         *)
THEOREM FileClonesIndependent ==
  ASSUME TruncUse
  PROVE  Spec => ClonesIndependent
  <1> DEFINE Cow == \A f \in Files :
                      Content(f)' # Content(f) =>
                        \E t \in Threads :
                          \/ Target(t, f)
                          \/ op[t].k \in {"zero", "punch", "mmap"} /\ Shares(op[t].f, f)
             Equal == \A t \in Threads, f \in Files, s \in Files :
                        (Target(t, f) /\ op[t].k = "clonefile" /\ op[t].s = s /\ Returned(t)) =>
                          Content(f)' = Content(s)'
  <1>1. IInv /\ [Next]_vars => [Cow]_vars
    <2> SUFFICES ASSUME IInv, Next, NEW f \in Files, Content(f)' # Content(f)
                 PROVE  \E t \in Threads :
                          \/ Target(t, f)
                          \/ op[t].k \in {"zero", "punch", "mmap"} /\ Shares(op[t].f, f)
      OBVIOUS
    <2>1. PICK t \in Threads : Step(t) \/ \E c \in Calls : Begin(t, c)
      BY DEF Next
    <2>2. CASE \E c \in Calls : Begin(t, c)
      <3>1. blk' = blk /\ isize' = isize /\ mem' = mem
        BY <2>2 DEF Begin, files
      <3>2. QED
        BY <3>1, SameBytes
    <2>3. CASE Step(t)
      <3>1. CASE op[t].k \in InPlace
        <4> SUFFICES ASSUME op[t].f # f, ~Shares(op[t].f, f) PROVE FALSE
          BY <2>3, <3>1, StepBusy DEF InPlace, Target, Busy
        <4>1. /\ blk'[f] = blk[f] /\ isize'[f] = isize[f]
              /\ \A q \in FilePages :
                   blk[f][q] # NoBlock => mem'.data[blk[f][q]] = mem.data[blk[f][q]]
          BY <2>3, <3>1, InPlaceSpares DEF SparesUnshared, Shares
        <4>2. QED
          BY <4>1, SameBytes
      <3>2. CASE op[t].k \notin InPlace
        <4>1. Isolates(op[t].f)
          BY <2>3, <3>2, StepOk
        <4>2. op[t].f = f
          <5> SUFFICES ASSUME op[t].f # f PROVE FALSE
            OBVIOUS
          <5>1. f \in Files \ {op[t].f}
            OBVIOUS
          <5>2. /\ blk'[f] = blk[f] /\ isize'[f] = isize[f]
                /\ \A q \in FilePages :
                     blk[f][q] # NoBlock => mem'.data[blk[f][q]] = mem.data[blk[f][q]]
            BY <4>1, <5>1 DEF Isolates, OthersKept
          <5>3. QED
            BY <5>2, SameBytes
        <4>3. op[t].k # "none"
          BY <2>3, StepBusy DEF Busy
        <4>4. QED
          BY <4>2, <4>3 DEF Target
      <3>3. QED
        BY <3>1, <3>2
    <2>4. QED
      BY <2>1, <2>2, <2>3
  <1>2. IInv /\ [Next]_vars => [Equal]_vars
    <2> SUFFICES ASSUME IInv, Next, NEW t \in Threads, NEW f \in Files, NEW s \in Files,
                        Target(t, f), op[t].k = "clonefile", op[t].s = s, Returned(t)
                 PROVE  Content(f)' = Content(s)'
      OBVIOUS
    <2>1. PICK u \in Threads : Step(u) \/ \E c \in Calls : Begin(u, c)
      BY DEF Next
    <2>2. op'[t] # op[t]
      BY DEF Returned, Idle
    <2>3. u = t
      BY <2>1, <2>2, OthersCalls
    <2>4. Step(t)
      BY <2>1, <2>3 DEF Begin
    <2>5. ShareEnd(t)
      BY <2>4, CloneReturns
    <2>6. QED
      BY <2>5, ShareEndEqual DEF Target
  <1>3. QED
    BY <1>1, <1>2, FileInductive, PTL DEF ClonesIndependent, CowIsolated, CloneEqual, Spec
-----------------------------------------------------------------------------
(* What the calls do to the bytes of their own file.                       *)

(* A block with one reference is referred to by one page.                  *)
LEMMA OnlyRef ==
  ASSUME NEW m, NEW B, NEW n, DataOk(m, B, n), NEW f \in Files, NEW p \in FilePages,
         B[f][p] # NoBlock, m.refcnt[B[f][p]] <= 1,
         NEW g \in Files, NEW q \in FilePages, f # g \/ p # q
  PROVE  B[g][q] # B[f][p]
  <1> SUFFICES ASSUME B[g][q] = B[f][p] PROVE FALSE
    OBVIOUS
  <1> DEFINE S == RefsOf(B, B[f][p])
             T == S \ {<<f, p>>}
  <1>1. <<f, p>> \in S /\ <<g, q>> \in T /\ S \subseteq Files \X FilePages
    BY DEF RefsOf
  <1>2. NRefs(B, B[f][p]) = Cardinality(S)
    BY DEF NRefs
  <1>3. B[f][p] \in Blocks
    BY DEF DataOk, Blks
  <1>4. Cardinality(S) <= m.refcnt[B[f][p]] /\ m.refcnt[B[f][p]] \in Nat
    BY <1>2, <1>3, LiveRef DEF DataOk, Covered
  <1> HIDE DEF S
  <1>5. T \subseteq Files \X FilePages /\ T # {}
    BY <1>1
  <1>6. Cardinality(T) \in Nat /\ Cardinality(T) # 0
    BY <1>5, CountSet
  <1>7. Cardinality(S) \in Nat /\ Cardinality(T) = Cardinality(S) - 1
    BY <1>1, CountSet
  <1>8. QED
    BY <1>4, <1>6, <1>7

(* A block in nobody's use is not in a file.                               *)
LEMMA NotInFile ==
  ASSUME NEW m, NEW B, NEW n, DataOk(m, B, n), NEW b \in Blocks, m.refcnt[b] = 0,
         NEW g \in Files, NEW q \in FilePages
  PROVE  B[g][q] # b
  <1>1. b # NoBlock
    BY DEF Blocks, NoBlock
  <1>2. QED
    BY <1>1, LiveRef

(* The bytes of page p of file f.                                          *)
PageBytes(m, b) == IF b = NoBlock THEN Zeros ELSE m.data[b]

(* The block that _require_iblkref gives has the bytes of the page.        *)
LEMMA RequireBytes ==
  ASSUME DataOk(mem, blk, iblocks), NEW f \in Files, NEW p \in FilePages,
         NEW n, n = Require(f, p), n.b # NoBlock
  PROVE  n.m.data[n.b] = PageBytes(mem, blk[f][p])
  <1>1. NMapped(blk) \in Nat /\ PoolOk(mem, NMapped(blk))
    BY Counts DEF DataOk
  <1>2. CASE blk[f][p] = NoBlock
    <2>1. n = NewIblkref(mem)
      BY <1>2 DEF Require
    <2>2. n.m.data[n.b] = Zeros
      BY <1>1, <2>1, NewIblkrefOk
    <2>3. QED
      BY <1>2, <2>2 DEF PageBytes
  <1>3. CASE blk[f][p] # NoBlock
    <2>1. blk[f][p] \in Blocks /\ mem.refcnt[blk[f][p]] > 0
      BY <1>3, LiveRef
    <2>2. CASE mem.refcnt[blk[f][p]] > 1
      <3> DEFINE c == blk[f][p]
      <3>1. n = Copy(mem, c) /\ c \in Blocks /\ mem.refcnt[c] > 0
        BY <1>3, <2>1, <2>2 DEF Require
      <3> HIDE DEF c
      <3> DEFINE np == NMapped(blk)
      <3>2. np \in Nat /\ PoolOk(mem, np)
        BY <1>1
      <3> HIDE DEF np
      <3>3. /\ PoolOk(n.m, np) /\ Kept(mem, n.m)
            /\ \/ n.b = NoBlock /\ n.m.refcnt = mem.refcnt
               \/ /\ n.b \in Blocks /\ mem.refcnt[n.b] = 0
                  /\ n.m.refcnt = [mem.refcnt EXCEPT ![n.b] = 1]
                  /\ n.m.data[n.b] = mem.data[c]
        BY <3>1, <3>2, CopyOk
      <3>4. QED
        BY <1>3, <3>3 DEF PageBytes, c
    <2>3. CASE ~(mem.refcnt[blk[f][p]] > 1)
      <3>1. n = [b |-> blk[f][p], m |-> mem]
        BY <1>3, <2>3 DEF Require
      <3>2. n.b = blk[f][p] /\ n.m = mem
        BY <3>1
      <3>3. QED
        BY <1>3, <3>2 DEF PageBytes
    <2>4. QED
      BY <2>2, <2>3
  <1>4. QED
    BY <1>2, <1>3

(* A byte is one of its page.                                              *)
LEMMA ByteOfPage ==
  ASSUME NEW f, NEW i \in Nat
  PROVE  /\ Byte(f, i) = PageBytes(mem, blk[f][Page(i)])[i % PageSize]
         /\ Byte(f, i)' = PageBytes(mem', blk'[f][Page(i)])[i % PageSize]
  <1>1. i % PageSize \in 0 .. PageSize - 1
    BY PageFacts
  <1>2. \A m, b : PageBytes(m, b)[i % PageSize]
                    = IF b = NoBlock THEN 0 ELSE m.data[b][i % PageSize]
    BY <1>1 DEF PageBytes, Zeros
  <1>3. QED
    BY <1>2 DEF Byte, Page, NoBlock

(* Where a range that ends in the page of its start meets another offset.  *)
LEMMA InStretch ==
  ASSUME NEW off \in Nat, NEW end \in Nat, off < end, NEW i \in Nat,
         NEW lo, lo = off % PageSize, NEW hi, hi = lo + Least(NextPage(off), end) - off
  PROVE  /\ Page(i) = Page(off) =>
              ((lo <= i % PageSize /\ i % PageSize < hi)
                 <=> (off <= i /\ i < Least(NextPage(off), end)))
         /\ Page(i) # Page(off) => ~(off <= i /\ i < NextPage(off))
         /\ Least(NextPage(off), end) \in Nat
         /\ Least(NextPage(off), end) <= end /\ Least(NextPage(off), end) <= NextPage(off)
         /\ i < end /\ i < NextPage(off) => i < Least(NextPage(off), end)
  <1> DEFINE l == Least(NextPage(off), end)
             a == Page(off) * PageSize
             x == i % PageSize
  <1>1. /\ PageSize \in Nat \ {0} /\ Page(off) \in Nat
        /\ off = a + lo /\ lo \in 0 .. PageSize - 1 /\ NextPage(off) = a + PageSize
    BY ConstantsAssumption, PageFacts
  <1>2. i = Page(i) * PageSize + x /\ x \in 0 .. PageSize - 1 /\ Page(i) \in Nat
    BY PageFacts
  <1>3. a \in Nat
    BY <1>1
  <1>4. l = IF NextPage(off) < end THEN NextPage(off) ELSE end
    BY DEF Least
  <1>5. hi = lo + l - off
    OBVIOUS
  <1> HIDE DEF l, a, x
  <1>6. NextPage(off) \in Nat
    BY <1>1, <1>3
  <1>7. /\ l \in Nat /\ l <= end /\ l <= NextPage(off)
        /\ i < end /\ i < NextPage(off) => i < l
    BY <1>4, <1>6
  <1>8. ASSUME Page(i) = Page(off)
        PROVE  (lo <= x /\ x < hi) <=> (off <= i /\ i < l)
    <2>1. i = a + x
      BY <1>2, <1>8 DEF a
    <2>2. lo \in Nat /\ x \in Nat
      BY <1>1, <1>2
    <2>3. QED
      BY <1>1, <1>3, <1>5, <1>7, <2>1, <2>2
  <1>9. ASSUME Page(i) # Page(off), off <= i, i < NextPage(off) PROVE FALSE
    <2>1. Page(off) <= Page(i)
      BY <1>9, PageMono
    <2>2. Page(off) + 1 <= Page(i)
      BY <1>1, <1>2, <1>9, <2>1
    <2>3. (Page(off) + 1) * PageSize <= Page(i) * PageSize
      BY <1>1, <1>2, <2>2, TimesMono
    <2>4. NextPage(off) = (Page(off) + 1) * PageSize /\ Page(i) * PageSize \in Nat
      BY <1>1, <1>2 DEF NextPage
    <2>5. QED
      BY <1>2, <1>6, <1>9, <2>3, <2>4
  <1>10. QED
    BY <1>7, <1>8, <1>9 DEF l, x


(* How a step of write or fallocate changes the pages of its file.         *)
LEMMA RwPages ==
  ASSUME IInv, NEW t \in Threads, RwPage(t), NEW o, o = op[t], NEW p, p = Page(o.off),
         NEW lo, lo = o.off % PageSize, NEW hi, hi = lo + Least(NextPage(o.off), o.end) - o.off
  PROVE  /\ \A q \in FilePages \ {p} :
              PageBytes(mem', blk'[o.f][q]) = PageBytes(mem, blk[o.f][q])
         /\ \A j \in 0 .. PageSize - 1 :
              PageBytes(mem', blk'[o.f][p])[j]
                = IF o.k = "write" /\ lo <= j /\ j < hi THEN o.v
                  ELSE PageBytes(mem, blk[o.f][p])[j]
  <1> DEFINE n == Require(o.f, p)
             f == o.f
             c == n.b
             k == n.m
  <1>1. Busy(t) /\ o.k \in {"write", "falloc"} /\ o.off < o.end
    BY DEF RwPage, Busy
  <1>2. f \in Files /\ p \in FilePages /\ o.v \in Bytes
    BY <1>1, CallFields, OffInFile
  <1>3. /\ c # NoBlock /\ mem' = IF o.k = "write" THEN Fill(k, c, lo, hi, o.v) ELSE k
    BY DEF RwPage
  <1>4. blk' = WithPage(blk, f, p, c)
    BY DEF RwPage, SetBlk, WithPage
  <1>5. DataOk(mem, blk, iblocks) /\ blk \in Blks
    BY DEF IInv, DataOk
  <1>6. c \in Blocks /\ PoolOk(k, PagesWith(blk, f, p)) /\ Kept(mem, k)
    BY <1>2, <1>3, <1>5, RequireOk
  <1>7. \/ mem.refcnt[c] = 0 /\ k.refcnt = [mem.refcnt EXCEPT ![c] = 1]
        \/ c = blk[f][p] /\ mem.refcnt[c] = 1 /\ k = mem
    BY <1>2, <1>3, <1>5, RequireOk
  <1>8. k.data[c] = PageBytes(mem, blk[f][p])
    BY <1>2, <1>3, <1>5, RequireBytes
  <1>9. PagesWith(blk, f, p) \in Nat
    BY Counts DEF PagesWith
  <1> HIDE DEF n, f, c, k
  <1>10. /\ \A q \in FilePages \ {p} : blk'[f][q] = blk[f][q]
         /\ blk'[f][p] = c
    BY <1>2, <1>4, <1>5 DEF WithPage, Blks
  <1>11. /\ \A x \in Blocks \ {c} : mem'.data[x] = k.data[x]
         /\ \A j \in 0 .. PageSize - 1 :
              mem'.data[c][j] = IF o.k = "write" /\ lo <= j /\ j < hi THEN o.v ELSE k.data[c][j]
    <2>1. CASE o.k = "write"
      <3>1. mem' = Fill(k, c, lo, hi, o.v)
        BY <1>3, <2>1
      <3>2. QED
        BY <1>2, <1>6, <1>9, <2>1, <3>1, FillOk
    <2>2. CASE o.k # "write"
      BY <1>3, <2>2
    <2>3. QED
      BY <2>1, <2>2
  <1>12. ASSUME NEW q \in FilePages \ {p}, blk[f][q] # NoBlock
         PROVE  mem'.data[blk[f][q]] = mem.data[blk[f][q]]
    <2> DEFINE b == blk[f][q]
    <2>1. b \in Blocks /\ mem.refcnt[b] > 0
      BY <1>2, <1>5, <1>12, LiveRef
    <2>2. b # c
      <3>1. CASE mem.refcnt[c] = 0
        BY <2>1, <3>1
      <3>2. CASE c = blk[f][p] /\ mem.refcnt[c] = 1
        BY <1>2, <1>3, <1>5, <3>2, OnlyRef
      <3>3. QED
        BY <1>7, <3>1, <3>2
    <2> HIDE DEF b
    <2>3. k.refcnt[b] > 0
      <3>1. mem.refcnt \in [Blocks -> Nat]
        BY <1>5, Counts, PoolFacts DEF DataOk
      <3>2. QED
        BY <1>7, <2>1, <2>2, <3>1
    <2>4. k.data[b] = mem.data[b]
      BY <1>6, <2>1, <2>3 DEF Kept
    <2>5. QED
      BY <1>11, <2>1, <2>2, <2>4 DEF b
  <1>13. \A q \in FilePages \ {p} : PageBytes(mem', blk'[f][q]) = PageBytes(mem, blk[f][q])
    BY <1>10, <1>12 DEF PageBytes
  <1>14. \A j \in 0 .. PageSize - 1 :
           PageBytes(mem', blk'[f][p])[j]
             = IF o.k = "write" /\ lo <= j /\ j < hi THEN o.v ELSE PageBytes(mem, blk[f][p])[j]
    <2>1. PageBytes(mem', blk'[f][p]) = mem'.data[c]
      BY <1>3, <1>10 DEF PageBytes
    <2>2. QED
      BY <1>8, <1>11, <2>1
  <1>15. QED
    BY <1>13, <1>14 DEF f

(* And its bytes.                                                          *)
LEMMA RwBytes ==
  ASSUME IInv, NEW t \in Threads, RwPage(t), NEW o, o = op[t], NEW i \in 0 .. MaxOff - 1
  PROVE  Byte(o.f, i)' = IF o.k = "write" /\ o.off <= i /\ i < Least(NextPage(o.off), o.end)
                         THEN o.v ELSE Byte(o.f, i)
  <1> DEFINE lo == o.off % PageSize
             hi == lo + Least(NextPage(o.off), o.end) - o.off
             p == Page(o.off)
             x == i % PageSize
             f == o.f
  <1>1. Busy(t) /\ o.off < o.end
    BY DEF RwPage, Busy
  <1>2. o.off \in Nat /\ o.end \in Nat /\ MaxOff \in Nat
    BY <1>1, CallFields, PageInFile
  <1>3. i \in Nat /\ i < MaxOff /\ Page(i) \in FilePages /\ x \in 0 .. PageSize - 1
    BY <1>2, PageInFile, PageFacts
  <1>4. /\ Byte(f, i) = PageBytes(mem, blk[f][Page(i)])[x]
        /\ Byte(f, i)' = PageBytes(mem', blk'[f][Page(i)])[x]
    BY <1>3, ByteOfPage
  <1>5. /\ \A q \in FilePages \ {p} : PageBytes(mem', blk'[f][q]) = PageBytes(mem, blk[f][q])
        /\ \A j \in 0 .. PageSize - 1 :
              PageBytes(mem', blk'[f][p])[j]
                = IF o.k = "write" /\ lo <= j /\ j < hi THEN o.v
                  ELSE PageBytes(mem, blk[f][p])[j]
    BY RwPages
  <1>6. /\ Page(i) = p => ((lo <= x /\ x < hi)
                             <=> (o.off <= i /\ i < Least(NextPage(o.off), o.end)))
        /\ Page(i) # p => ~(o.off <= i /\ i < NextPage(o.off))
        /\ Least(NextPage(o.off), o.end) \in Nat
        /\ Least(NextPage(o.off), o.end) <= NextPage(o.off)
    BY <1>1, <1>2, <1>3, InStretch
  <1>7. NextPage(o.off) \in Nat
    BY <1>2, PageFacts
  <1> DEFINE l == Least(NextPage(o.off), o.end)
  <1> HIDE DEF lo, hi, p, x, f, l
  <1>8. Page(i) # p => ~(o.off <= i /\ i < l)
    BY <1>3, <1>6, <1>7 DEF l
  <1>9. Byte(f, i)' = IF o.k = "write" /\ o.off <= i /\ i < l THEN o.v ELSE Byte(f, i)
    <2>1. CASE Page(i) = p
      BY <1>3, <1>4, <1>5, <1>6, <2>1 DEF l
    <2>2. CASE Page(i) # p
      BY <1>3, <1>4, <1>5, <1>8, <2>2
    <2>3. QED
      BY <2>1, <2>2
  <1>10. QED
    BY <1>9 DEF l, f


(* A step of a punch clears bytes of its range, and no byte becomes other  *)
(* than it was or zero.                                                    *)
LEMMA PunchPages ==
  ASSUME IInv, NEW t \in Threads, PunchPage(t), NEW o, o = op[t], NEW p, p = Page(o.off),
         NEW lo, lo = o.off % PageSize, NEW len, len = Least(NextPage(o.off), o.end) - o.off
  PROVE  \A q \in FilePages, j \in 0 .. PageSize - 1 :
           /\ PageBytes(mem', blk'[o.f][q])[j] \in {PageBytes(mem, blk[o.f][q])[j], 0}
           /\ q = p /\ lo <= j /\ j < lo + len => PageBytes(mem', blk'[o.f][q])[j] = 0
  <1> DEFINE f == o.f
             b == blk[f][p]
  <1>1. Busy(t) /\ o.off < o.end
    BY DEF PunchPage, Busy
  <1>2. f \in Files /\ p \in FilePages /\ 0 \in Bytes
    BY <1>1, CallFields, OffInFile DEF Bytes
  <1>3. DataOk(mem, blk, iblocks) /\ blk \in Blks /\ NMapped(blk) \in Nat
        /\ PoolOk(mem, NMapped(blk))
    BY Counts DEF IInv, DataOk
  <1>4. \/ b = NoBlock /\ UNCHANGED <<mem, blk, iblocks>>
        \/ b # NoBlock /\ mem' = Fill(mem, b, lo, lo + len, 0) /\ UNCHANGED <<blk, iblocks>>
        \/ b # NoBlock /\ Drop(t, f, p)
    BY DEF PunchPage
  <1>5. \A m, j : j \in 0 .. PageSize - 1 => PageBytes(m, NoBlock)[j] = 0
    BY DEF PageBytes, Zeros
  <1> HIDE DEF f, b
  <1> SUFFICES ASSUME NEW q \in FilePages, NEW j \in 0 .. PageSize - 1
               PROVE  /\ PageBytes(mem', blk'[f][q])[j] \in {PageBytes(mem, blk[f][q])[j], 0}
                      /\ q = p /\ lo <= j /\ j < lo + len => PageBytes(mem', blk'[f][q])[j] = 0
    BY DEF f
  <1>6. CASE b = NoBlock /\ UNCHANGED <<mem, blk, iblocks>>
    BY <1>5, <1>6 DEF b
  <1>7. CASE b # NoBlock /\ mem' = Fill(mem, b, lo, lo + len, 0) /\ UNCHANGED <<blk, iblocks>>
    <2>1. b \in Blocks
      BY <1>2, <1>3, <1>7 DEF Blks, b
    <2>2. /\ \A x \in Blocks \ {b} : mem'.data[x] = mem.data[x]
          /\ mem'.data[b][j] = IF lo <= j /\ j < lo + len THEN 0 ELSE mem.data[b][j]
      BY <1>2, <1>3, <1>7, <2>1, FillOk
    <2>3. CASE blk[f][q] = NoBlock
      BY <1>5, <1>7, <2>3
    <2>4. CASE blk[f][q] # NoBlock
      <3>1. blk[f][q] \in Blocks /\ blk'[f][q] = blk[f][q]
        BY <1>2, <1>3, <1>7, <2>4 DEF Blks
      <3>2. /\ PageBytes(mem', blk'[f][q]) = mem'.data[blk[f][q]]
            /\ PageBytes(mem, blk[f][q]) = mem.data[blk[f][q]]
        BY <2>4, <3>1 DEF PageBytes
      <3>3. CASE blk[f][q] = b
        BY <2>2, <3>2, <3>3
      <3>4. CASE blk[f][q] # b
        BY <2>2, <3>1, <3>2, <3>4 DEF b
      <3>5. QED
        BY <3>3, <3>4
    <2>5. QED
      BY <2>3, <2>4
  <1>8. CASE b # NoBlock /\ Drop(t, f, p)
    <2>1. /\ DataOk(mem', blk', iblocks') /\ Kept(mem, mem')
          /\ blk'[f][q] = IF q = p THEN NoBlock ELSE blk[f][q]
      BY <1>2, <1>3, <1>8, DropStep DEF b
    <2>2. CASE q = p
      BY <1>5, <2>1, <2>2
    <2>3. CASE q # p /\ blk[f][q] = NoBlock
      BY <1>5, <2>1, <2>3
    <2>4. CASE q # p /\ blk[f][q] # NoBlock
      <3> DEFINE c == blk[f][q]
      <3>1. c \in Blocks /\ mem.refcnt[c] > 0 /\ blk'[f][q] = c
        BY <1>2, <1>3, <2>1, <2>4, LiveRef
      <3>2. mem'.refcnt[blk'[f][q]] > 0
        BY <1>2, <2>1, <2>4, <3>1, LiveRef
      <3>3. mem'.data[c] = mem.data[c]
        BY <2>1, <3>1, <3>2 DEF Kept
      <3>4. PageBytes(mem', blk'[f][q]) = PageBytes(mem, blk[f][q])
        BY <3>1, <3>3 DEF PageBytes
      <3>5. QED
        BY <2>4, <3>4
    <2>5. QED
      BY <2>2, <2>3, <2>4
  <1>9. QED
    BY <1>4, <1>6, <1>7, <1>8

(* The same of the bytes of the file.                                      *)
LEMMA PunchBytes ==
  ASSUME IInv, NEW t \in Threads, PunchPage(t), NEW o, o = op[t], NEW i \in 0 .. MaxOff - 1
  PROVE  /\ Byte(o.f, i)' \in {Byte(o.f, i), 0}
         /\ o.off <= i /\ i < Least(NextPage(o.off), o.end) => Byte(o.f, i)' = 0
  <1> DEFINE lo == o.off % PageSize
             l == Least(NextPage(o.off), o.end)
             len == l - o.off
             hi == lo + l - o.off
             p == Page(o.off)
             x == i % PageSize
             f == o.f
  <1>1. Busy(t) /\ o.off < o.end
    BY DEF PunchPage, Busy
  <1>2. o.off \in Nat /\ o.end \in Nat /\ MaxOff \in Nat
    BY <1>1, CallFields, PageInFile
  <1>3. i \in Nat /\ i < MaxOff /\ Page(i) \in FilePages /\ x \in 0 .. PageSize - 1
    BY <1>2, PageInFile, PageFacts
  <1>4. /\ Byte(f, i) = PageBytes(mem, blk[f][Page(i)])[x]
        /\ Byte(f, i)' = PageBytes(mem', blk'[f][Page(i)])[x]
    BY <1>3, ByteOfPage
  <1>5. \A q \in FilePages, j \in 0 .. PageSize - 1 :
          /\ PageBytes(mem', blk'[f][q])[j] \in {PageBytes(mem, blk[f][q])[j], 0}
          /\ q = p /\ lo <= j /\ j < lo + len => PageBytes(mem', blk'[f][q])[j] = 0
    BY PunchPages
  <1>6. /\ Page(i) = p => ((lo <= x /\ x < hi) <=> (o.off <= i /\ i < l))
        /\ Page(i) # p => ~(o.off <= i /\ i < NextPage(o.off))
        /\ l \in Nat /\ l <= NextPage(o.off)
    BY <1>1, <1>2, <1>3, InStretch
  <1>7. NextPage(o.off) \in Nat /\ lo \in Nat
    BY <1>2, PageFacts
  <1>8. lo + len = hi
    BY <1>2, <1>6, <1>7
  <1> HIDE DEF lo, hi, p, x, f, l, len
  <1>9. ASSUME o.off <= i, i < l PROVE Page(i) = p /\ lo <= x /\ x < lo + len
    BY <1>3, <1>6, <1>7, <1>8, <1>9
  <1>10. /\ Byte(f, i)' \in {Byte(f, i), 0}
         /\ o.off <= i /\ i < l => Byte(f, i)' = 0
    BY <1>3, <1>4, <1>5, <1>9
  <1>11. QED
    BY <1>10 DEF l, f

-----------------------------------------------------------------------------
(* What a call has done so far.                                            *)

(* A call starts a page where its range or the page starts.                *)
CursorOk(o) ==
  o.k \in {"write", "falloc", "punch"} =>
    /\ o.from <= o.off
    /\ o.off = o.from \/ Aligned(o.off)
    /\ o.k = "punch" => o.v = 0

(* The bytes up to the cursor have been written.                           *)
Landed(o) ==
  o.k \in {"write", "punch"} =>
    \A i \in o.from .. o.end - 1 : i < o.off => Byte(o.f, i) = o.v

(* A truncate copies the last block when the blocks after it are dropped.  *)
TailDropped(o) == o.k \in {"load", "store"} => BlocksFrom(o.f, DropFrom(o.end)) = {}

BytesInv == \A t \in Threads : CursorOk(op[t]) /\ Landed(op[t]) /\ TailDropped(op[t])

(* Who writes a shared block in place changes the files of other calls:    *)
(* the theorems about bytes are about any calls of one thread, and about   *)
(* calls that copy on write of any number of threads.                      *)
ByteUse ==
  /\ TruncUse
  /\ (\E t \in Threads : Threads = {t}) \/ Ops \cap InPlace = {}

(* The other calls that do not write go on with what they are or end.      *)
LEMMA KindKept ==
  ASSUME IInv, NEW t \in Threads, Step(t),
         ~RwPage(t), ~PunchPage(t), ~TruncCopy(t), ~TruncLoad(t)
  PROVE  op'[t].k \in {"none", "zero", "trunc", "clonefile", "clonerange"}
  <1>1. op \in [Threads -> IdleRecs \cup CallRecs]
    BY DEF IInv, Typed
  <1>2. \A w : op' = [op EXCEPT ![t] = w] => op'[t] = w
    BY <1>1
  <1>3. ASSUME op' = [op EXCEPT ![t] = Idle(TRUE)] \/ op' = [op EXCEPT ![t] = Idle(FALSE)]
        PROVE  op'[t].k = "none"
    BY <1>2, <1>3 DEF Idle
  <1>4. CASE RwNoSpace(t) \/ RwEnd(t) \/ PunchEnd(t) \/ CollapseEnd(t) \/ ZeroEnd(t)
             \/ TruncEnd(t) \/ TruncStore(t) \/ ShareEnd(t) \/ CloneEnd(t) \/ MmapWrite(t)
    BY <1>3, <1>4 DEF RwNoSpace, RwEnd, PunchEnd, CollapseEnd, ZeroEnd, TruncEnd, TruncStore,
                      ShareEnd, CloneEnd, MmapWrite, Return, Fail
  <1>5. CASE ZeroBlk(t)
    <2> DEFINE x == (First(BlocksFrom(op[t].f, Page(op[t].off))) + 1) * PageSize
    <2>1. op[t].k = "zero" /\ op' = [op EXCEPT ![t].off = x]
      BY <1>5 DEF ZeroBlk, Advance
    <2> HIDE DEF x
    <2>2. op[t] \in CallRecs
      BY <2>1, CallFields DEF Busy
    <2>3. op'[t] = [op[t] EXCEPT !.off = x]
      BY <1>1, <2>1
    <2>4. QED
      BY <2>1, <2>2, <2>3 DEF CallRecs
  <1>6. CASE DropRange(t) \/ CloneLock(t)
    BY <1>6 DEF DropRange, CloneLock, IsClone
  <1>7. CASE ShareBlk(t)
    <2> DEFINE x == (First(BlocksFrom(op[t].s, Page(op[t].off))) + 1) * PageSize
    <2>1. op[t].k = "clonefile" /\ (op' = [op EXCEPT ![t].off = x]
                                    \/ op' = [op EXCEPT ![t] = Idle(TRUE)])
      BY <1>7 DEF ShareBlk, Advance, CloneFail, Fail
    <2> HIDE DEF x
    <2>2. op[t] \in CallRecs
      BY <2>1, CallFields DEF Busy
    <2>3. op'[t] = [op[t] EXCEPT !.off = x] \/ op'[t].k = "none"
      BY <1>1, <1>3, <2>1
    <2>4. QED
      BY <2>1, <2>2, <2>3 DEF CallRecs
  <1>8. CASE ClonePage(t) \/ CloneHole(t)
    <2> DEFINE w == [op[t] EXCEPT !.off = @ + PageSize, !.src = @ + PageSize]
    <2>1. op[t].k = "clonerange" /\ (CloneAdvance(t) \/ op' = [op EXCEPT ![t] = Idle(TRUE)])
      BY <1>8 DEF ClonePage, CloneHole, CloneFail, Fail
    <2>2. op[t] \in CallRecs
      BY <2>1, CallFields DEF Busy
    <2>3. CloneAdvance(t) => op'[t] = w
      BY <1>1 DEF CloneAdvance
    <2>4. w.k = op[t].k
      BY <2>2 DEF CallRecs
    <2>5. QED
      BY <1>3, <2>1, <2>3, <2>4
  <1>9. QED
    BY <1>4, <1>5, <1>6, <1>7, <1>8 DEF Step

(* A byte of the range that the step has passed.                           *)
LEMMA Passed ==
  ASSUME NEW off \in Nat, NEW end \in Nat, off < end, NEW i \in Nat, i < end,
         i < NextPage(off), off <= i
  PROVE  i < Least(NextPage(off), end)
  BY DEF Least

(* The step of write or fallocate.                                         *)
LEMMA RwLands ==
  ASSUME IInv, NEW t \in Threads, CursorOk(op[t]), Landed(op[t]), RwPage(t), NEW o, o = op[t]
  PROVE  CursorOk(op'[t]) /\ Landed(op[t])' /\ TailDropped(op[t])'
  <1> DEFINE nxt == NextPage(o.off)
  <1>1. Busy(t) /\ o.k \in {"write", "falloc"} /\ o.off < o.end /\ Advance(t, nxt)
    BY DEF RwPage, Busy
  <1>2. /\ o.off \in Nat /\ o.end \in Nat /\ o.end \in Offs /\ o.from \in Nat
        /\ o \in CallRecs
    BY <1>1, CallFields
  <1>3. nxt \in Nat /\ o.off < nxt /\ nxt % PageSize = 0
    BY <1>2, PageFacts
  <1>4. op \in [Threads -> IdleRecs \cup CallRecs]
    BY DEF IInv, Typed
  <1>5. op'[t] = [o EXCEPT !.off = nxt]
    BY <1>1, <1>4 DEF Advance
  <1>6. /\ op'[t].k = o.k /\ op'[t].f = o.f /\ op'[t].from = o.from /\ op'[t].end = o.end
        /\ op'[t].off = nxt /\ op'[t].v = o.v
    BY <1>2, <1>5 DEF CallRecs
  <1>7. CursorOk(op'[t])
    BY <1>1, <1>2, <1>3, <1>6 DEF CursorOk, Aligned
  <1>8. ASSUME o.k = "write", NEW i \in o.from .. o.end - 1, i < nxt
        PROVE  Byte(o.f, i)' = o.v
    <2>1. MaxOff \in Nat /\ i \in 0 .. MaxOff - 1 /\ i \in Nat /\ i < o.end
      BY <1>2, PageInFile DEF Offs
    <2>2. CASE o.off <= i
      <3>1. i < Least(nxt, o.end)
        BY <1>1, <1>2, <1>8, <2>1, <2>2, Passed
      <3>2. QED
        BY <1>8, <2>1, <2>2, <3>1, RwBytes
    <2>3. CASE i < o.off
      <3>1. Byte(o.f, i) = o.v
        BY <1>8, <2>3 DEF Landed
      <3>2. ~(o.off <= i)
        BY <1>2, <2>1, <2>3
      <3>3. QED
        BY <2>1, <3>1, <3>2, RwBytes
    <2>4. QED
      BY <1>2, <2>1, <2>2, <2>3
  <1>9. Landed(op[t])'
    <2> SUFFICES ASSUME op'[t].k = "write" \/ op'[t].k = "punch",
                        NEW i \in op'[t].from .. op'[t].end - 1, i < op'[t].off
                 PROVE  Byte(op[t].f, i)' = op'[t].v
      BY DEF Landed
    <2>1. o.k = "write" /\ i \in o.from .. o.end - 1 /\ i < nxt
      BY <1>1, <1>6
    <2>2. Byte(o.f, i)' = o.v
      BY <1>8, <2>1
    <2>3. QED
      BY <1>6, <2>2 DEF Byte
  <1>10. TailDropped(op[t])'
    BY <1>1, <1>6 DEF TailDropped
  <1>11. QED
    BY <1>7, <1>9, <1>10


(* The step of a punch.                                                    *)
LEMMA PunchLands ==
  ASSUME IInv, NEW t \in Threads, CursorOk(op[t]), Landed(op[t]), PunchPage(t),
         NEW o, o = op[t]
  PROVE  CursorOk(op'[t]) /\ Landed(op[t])' /\ TailDropped(op[t])'
  <1> DEFINE nxt == NextPage(o.off)
  <1>1. Busy(t) /\ o.k \in {"punch", "collapse"} /\ o.off < o.end /\ Advance(t, nxt)
    BY DEF PunchPage, Busy
  <1>2. /\ o.off \in Nat /\ o.end \in Nat /\ o.end \in Offs /\ o.from \in Nat
        /\ o \in CallRecs
    BY <1>1, CallFields
  <1>3. nxt \in Nat /\ o.off < nxt /\ nxt % PageSize = 0
    BY <1>2, PageFacts
  <1>4. op \in [Threads -> IdleRecs \cup CallRecs]
    BY DEF IInv, Typed
  <1>5. op'[t] = [o EXCEPT !.off = nxt]
    BY <1>1, <1>4 DEF Advance
  <1>6. /\ op'[t].k = o.k /\ op'[t].f = o.f /\ op'[t].from = o.from /\ op'[t].end = o.end
        /\ op'[t].off = nxt /\ op'[t].v = o.v
    BY <1>2, <1>5 DEF CallRecs
  <1>7. CursorOk(op'[t])
    BY <1>1, <1>2, <1>3, <1>6 DEF CursorOk, Aligned
  <1>8. ASSUME o.k = "punch", NEW i \in o.from .. o.end - 1, i < nxt
        PROVE  Byte(o.f, i)' = o.v
    <2>1. MaxOff \in Nat /\ i \in 0 .. MaxOff - 1 /\ i \in Nat /\ i < o.end
      BY <1>2, PageInFile DEF Offs
    <2>2. o.v = 0
      BY <1>8 DEF CursorOk
    <2>3. CASE o.off <= i
      <3>1. i < Least(nxt, o.end)
        BY <1>1, <1>2, <1>8, <2>1, <2>3, Passed
      <3>2. QED
        BY <2>1, <2>2, <2>3, <3>1, PunchBytes
    <2>4. CASE i < o.off
      <3>1. Byte(o.f, i) = o.v
        BY <1>8, <2>4 DEF Landed
      <3>2. QED
        BY <2>1, <2>2, <3>1, PunchBytes
    <2>5. QED
      BY <1>2, <2>1, <2>3, <2>4
  <1>9. Landed(op[t])'
    <2> SUFFICES ASSUME op'[t].k = "write" \/ op'[t].k = "punch",
                        NEW i \in op'[t].from .. op'[t].end - 1, i < op'[t].off
                 PROVE  Byte(op[t].f, i)' = op'[t].v
      BY DEF Landed
    <2>1. o.k = "punch" /\ i \in o.from .. o.end - 1 /\ i < nxt
      BY <1>1, <1>6
    <2>2. Byte(o.f, i)' = o.v
      BY <1>8, <2>1
    <2>3. QED
      BY <1>6, <2>2 DEF Byte
  <1>10. TailDropped(op[t])'
    BY <1>1, <1>6 DEF TailDropped
  <1>11. QED
    BY <1>7, <1>9, <1>10

(* The steps of a truncate that copies the last block.                     *)
LEMMA TruncTail ==
  ASSUME IInv, NEW t \in Threads, TailDropped(op[t]), TruncCopy(t) \/ TruncLoad(t),
         NEW o, o = op[t]
  PROVE  CursorOk(op'[t]) /\ Landed(op[t])' /\ TailDropped(op[t])'
  <1>1. op \in [Threads -> IdleRecs \cup CallRecs]
    BY DEF IInv, Typed
  <1>2. Busy(t) /\ o.k \in {"trunc", "load"} /\ blk' = blk
    BY DEF TruncCopy, TruncLoad, Busy, files
  <1>3. o \in CallRecs
    BY <1>2, CallFields
  <1>4. BlocksFrom(o.f, DropFrom(o.end)) = {} \/ op'[t].k = "none"
    <2>1. CASE TruncLoad(t)
      BY <2>1 DEF TruncLoad, TailDropped
    <2>2. CASE TruncCopy(t)
      <3>1. Doomed(o) = {} /\ TailBlk(o) # NoBlock /\ o.k = "trunc"
        BY <2>2 DEF TruncCopy
      <3>2. o.end < isize[o.f]
        BY <3>1 DEF TailBlk
      <3>3. QED
        BY <3>1, <3>2 DEF Doomed
    <2>3. QED
      BY <2>1, <2>2
  <1>5. \/ op'[t].k = "none"
        \/ op'[t].k \in {"load", "store"} /\ op'[t].f = o.f /\ op'[t].end = o.end
    <2>1. CASE TruncLoad(t)
      <3> DEFINE r == mem.refcnt[TailBlk(o)]
      <3>1. op' = [op EXCEPT ![t].k = "store", ![t].r = r]
        BY <2>1 DEF TruncLoad
      <3> HIDE DEF r
      <3>2. op'[t] = [o EXCEPT !.k = "store", !.r = r]
        BY <1>1, <3>1
      <3>3. QED
        BY <1>3, <3>2 DEF CallRecs
    <2>2. CASE TruncCopy(t)
      <3> DEFINE c == Copy(mem, TailBlk(o)).b
      <3>1. \/ op' = [op EXCEPT ![t] = Idle(TRUE)]
            \/ op' = [op EXCEPT ![t].k = "load", ![t].b = c]
        BY <2>2 DEF TruncCopy, Fail
      <3> HIDE DEF c
      <3>2. op'[t] = Idle(TRUE) \/ op'[t] = [o EXCEPT !.k = "load", !.b = c]
        BY <1>1, <3>1
      <3>3. op'[t] = [o EXCEPT !.k = "load", !.b = c] =>
              op'[t].k = "load" /\ op'[t].f = o.f /\ op'[t].end = o.end
        BY <1>3 DEF CallRecs
      <3>4. Idle(TRUE).k = "none"
        BY DEF Idle
      <3>5. QED
        BY <3>2, <3>3, <3>4
    <2>3. QED
      BY <2>1, <2>2
  <1>6. BlocksFrom(o.f, DropFrom(o.end))' = BlocksFrom(o.f, DropFrom(o.end))
    BY <1>2 DEF BlocksFrom, DropFrom, Page
  <1>7. TailDropped(op[t])'
    BY <1>4, <1>5, <1>6 DEF TailDropped, BlocksFrom, DropFrom, Page
  <1>8. QED
    BY <1>5, <1>7 DEF CursorOk, Landed

(* A step of the thread itself.                                            *)
LEMMA OwnBytes ==
  ASSUME IInv, NEW t \in Threads, Step(t),
         CursorOk(op[t]), Landed(op[t]), TailDropped(op[t])
  PROVE  CursorOk(op'[t]) /\ Landed(op[t])' /\ TailDropped(op[t])'
  <1>1. CASE RwPage(t)
    BY <1>1, RwLands
  <1>2. CASE PunchPage(t)
    BY <1>2, PunchLands
  <1>3. CASE TruncCopy(t) \/ TruncLoad(t)
    BY <1>3, TruncTail
  <1>4. CASE ~RwPage(t) /\ ~PunchPage(t) /\ ~TruncCopy(t) /\ ~TruncLoad(t)
    <2>1. op'[t].k \in {"none", "zero", "trunc", "clonefile", "clonerange"}
      BY <1>4, KindKept
    <2>2. QED
      BY <2>1 DEF CursorOk, Landed, TailDropped
  <1>5. QED
    BY <1>1, <1>2, <1>3, <1>4

(* A step of another thread that does not write in place.                  *)
LEMMA OthersBytes ==
  ASSUME IInv, NEW t \in Threads, NEW u \in Threads \ {t}, Step(u),
         op[u].k \notin InPlace, Busy(t), NEW f, f = op[t].f
  PROVE  /\ op'[t] = op[t]
         /\ blk'[f] = blk[f] /\ isize'[f] = isize[f]
         /\ \A i \in 0 .. MaxOff - 1 : Byte(f, i)' = Byte(f, i)
  <1>1. op'[t] = op[t]
    BY OthersCalls
  <1>2. Busy(u)
    BY StepBusy
  <1>3. f \in Files /\ op[u].f # f
    BY <1>2, CallFields DEF IInv, Apart
  <1>4. Isolates(op[u].f)
    BY StepOk
  <1>5. /\ blk'[f] = blk[f] /\ isize'[f] = isize[f]
        /\ \A q \in FilePages : blk[f][q] # NoBlock => mem'.data[blk[f][q]] = mem.data[blk[f][q]]
    BY <1>3, <1>4 DEF Isolates, OthersKept
  <1>6. ASSUME NEW i \in 0 .. MaxOff - 1 PROVE Byte(f, i)' = Byte(f, i)
    <2>1. Page(i) \in FilePages
      <3>1. MaxOff \in Nat
        BY PageInFile
      <3>2. i \in Nat /\ i < MaxOff
        BY <3>1
      <3>3. QED
        BY <3>2, PageInFile
    <2>2. QED
      BY <1>5, <2>1 DEF Byte, Page, NoBlock
  <1>7. QED
    BY <1>1, <1>5, <1>6


(* The start of a call.                                                    *)
LEMMA BeginBytes ==
  ASSUME IInv, NEW t \in Threads, NEW c \in Calls, Begin(t, c)
  PROVE  CursorOk(op'[t]) /\ Landed(op[t])' /\ TailDropped(op[t])'
  <1>1. op'[t] = c
    BY DEF Begin, IInv, Typed
  <1>2. /\ c.off = c.from /\ c.from \in Nat /\ c.end \in Int
        /\ c.k = "punch" => c.v = 0
        /\ c.k \notin {"load", "store"}
    <2>1. \A k, f, s, from, end, src, v :
            /\ Call(k, f, s, from, end, src, v).off = from
            /\ Call(k, f, s, from, end, src, v).from = from
            /\ Call(k, f, s, from, end, src, v).end = end
            /\ Call(k, f, s, from, end, src, v).k = k
            /\ Call(k, f, s, from, end, src, v).v = v
      BY DEF Call
    <2>2. c.k \in Ops
      BY DEF Begin, IsValid
    <2>3. c.k \notin {"load", "store"}
      BY <2>2, ConstantsAssumption
    <2>4. \A r \in Ranges : r[1] \in Nat /\ r[2] \in Int
      BY ConstantsAssumption
    <2>5. \A x \in Offs : x \in Nat
      BY DEF Offs
    <2>6. PICK k, f, s, from, end, src, v :
            /\ c = Call(k, f, s, from, end, src, v) /\ from \in Nat /\ end \in Int
            /\ k = "punch" => v = 0
      <3>1. CASE c \in {Call(k, f, f, r[1], r[2], 0, 0) :
                          k \in {"falloc", "punch", "zero", "collapse"}, f \in Files,
                          r \in Ranges}
        BY <2>4, <3>1
      <3>2. CASE c \in {Call("write", f, f, r[1], r[2], 0, v) :
                          f \in Files, r \in Ranges, v \in Values}
        BY <2>4, <3>2
      <3>3. CASE c \in {Call("trunc", f, f, 0, size, 0, 0) : f \in Files, size \in Offs}
        BY <2>5, <3>3
      <3>4. CASE c \in {Call("clonefile", f, s, 0, 0, 0, 0) : f \in Files, s \in Files}
        BY <3>4
      <3>5. CASE c \in {Call("clonerange", f, s, r[1], r[2], src, 0) :
                          f \in Files, s \in Files, r \in Ranges, src \in Offs}
        BY <2>4, <3>5
      <3>6. CASE c \in {Call("mmap", f, f, off, off + 1, 0, v) :
                          f \in Files, off \in Offs, v \in Values}
        BY <2>5, <3>6
      <3>7. QED
        BY <3>1, <3>2, <3>3, <3>4, <3>5, <3>6 DEF Calls
    <2>7. QED
      BY <2>1, <2>3, <2>6
  <1>3. QED
    BY <1>1, <1>2 DEF CursorOk, Landed, TailDropped

(* The bytes of the calls are kept up by every step.                       *)
LEMMA BytesStep ==
  ASSUME ByteUse, IInv, BytesInv, Next
  PROVE  BytesInv'
  <1> SUFFICES ASSUME NEW t \in Threads
               PROVE  CursorOk(op'[t]) /\ Landed(op[t])' /\ TailDropped(op[t])'
    BY DEF BytesInv
  <1>1. CursorOk(op[t]) /\ Landed(op[t]) /\ TailDropped(op[t])
    BY DEF BytesInv
  <1>2. PICK u \in Threads : Step(u) \/ \E c \in Calls : Begin(u, c)
    BY DEF Next
  <1>3. CASE \E c \in Calls : Begin(u, c)
    <2>1. PICK c \in Calls : Begin(u, c)
      BY <1>3
    <2>2. CASE u = t
      BY <2>1, <2>2, BeginBytes
    <2>3. CASE u # t
      <3>1. op'[t] = op[t]
        BY <2>1, <2>3, OthersCalls
      <3>2. mem' = mem /\ blk' = blk
        BY <2>1 DEF Begin, files
      <3>3. QED
        BY <1>1, <3>1, <3>2 DEF CursorOk, Landed, TailDropped, Byte, BlocksFrom, DropFrom, Page,
                                Aligned
    <2>4. QED
      BY <2>2, <2>3
  <1>4. CASE Step(u)
    <2>1. CASE u = t
      BY <1>1, <1>4, <2>1, OwnBytes
    <2>2. CASE u # t /\ ~Busy(t)
      <3>1. op'[t] = op[t]
        BY <1>4, <2>2, OthersCalls
      <3>2. QED
        BY <2>2, <3>1 DEF Busy, CursorOk, Landed, TailDropped
    <2>3. CASE u # t /\ Busy(t)
      <3>1. Busy(u)
        BY <1>4, StepBusy
      <3>2. op[u].k \notin InPlace
        <4>1. op[u].k \in Kinds
          BY <3>1, CallFields
        <4>2. Ops \cap InPlace = {}
          BY <2>3 DEF ByteUse
        <4>3. QED
          BY <4>1, <4>2 DEF Kinds, InPlace
      <3>3. PICK g : g = op[t].f
        OBVIOUS
      <3>4. /\ op'[t] = op[t] /\ blk'[g] = blk[g]
            /\ \A i \in 0 .. MaxOff - 1 : Byte(g, i)' = Byte(g, i)
        BY <1>4, <2>3, <3>2, <3>3, OthersBytes
      <3>5. CursorOk(op'[t])
        BY <1>1, <3>4
      <3>6. TailDropped(op[t])'
        BY <1>1, <3>3, <3>4 DEF TailDropped, BlocksFrom, DropFrom, Page
      <3>7. Landed(op[t])'
        <4> SUFFICES ASSUME op'[t].k = "write" \/ op'[t].k = "punch",
                            NEW i \in op'[t].from .. op'[t].end - 1, i < op'[t].off
                     PROVE  Byte(op[t].f, i)' = op'[t].v
          BY DEF Landed
        <4>1. /\ op[t].k \in {"write", "punch"} /\ i \in op[t].from .. op[t].end - 1
              /\ i < op[t].off
          BY <3>4
        <4>2. Byte(op[t].f, i) = op[t].v
          BY <1>1, <4>1 DEF Landed
        <4>3. i \in 0 .. MaxOff - 1
          <5>1. op[t].from \in Nat /\ op[t].end \in Offs /\ MaxOff \in Nat
            BY <2>3, CallFields, PageInFile
          <5>2. QED
            BY <4>1, <5>1 DEF Offs
        <4>4. Byte(g, i)' = Byte(g, i)
          BY <3>4, <4>3
        <4>5. QED
          BY <3>3, <3>4, <4>2, <4>4 DEF Byte
      <3>8. QED
        BY <3>5, <3>6, <3>7
    <2>4. QED
      BY <2>1, <2>2, <2>3
  <1>5. QED
    BY <1>2, <1>3, <1>4


(* The step with which a call returns.                                     *)
LEMMA ReturnSteps ==
  ASSUME IInv, NEW t \in Threads, Step(t), Returned(t),
         op[t].k \in {"write", "punch", "trunc", "store"}
  PROVE  RwEnd(t) \/ PunchEnd(t) \/ TruncEnd(t) \/ TruncStore(t)
  <1>1. op \in [Threads -> IdleRecs \cup CallRecs] /\ op'[t].k = "none" /\ Busy(t)
        /\ Idle(TRUE) # Idle(FALSE) /\ op'[t] = Idle(FALSE)
    <2>1. Idle(TRUE).err # Idle(FALSE).err
      BY DEF Idle
    <2>2. QED
      BY <2>1 DEF IInv, Typed, Returned, Idle, Busy
  <1>2. op[t] \in CallRecs
    BY <1>1, CallFields
  <1>3. \A x : ~Advance(t, x)
    <2> SUFFICES ASSUME NEW x, Advance(t, x) PROVE FALSE
      OBVIOUS
    <2>1. op'[t] = [op[t] EXCEPT !.off = x]
      BY <1>1 DEF Advance
    <2>2. op'[t].k = op[t].k
      BY <1>2, <2>1 DEF CallRecs
    <2>3. QED
      BY <1>1, <2>2
  <1>4. ~(RwPage(t) \/ PunchPage(t))
    BY <1>3 DEF RwPage, PunchPage
  <1>5. ~Fail(t)
    BY <1>1 DEF Fail
  <1>6. ~RwNoSpace(t)
    BY <1>5 DEF RwNoSpace
  <1>7. ~TruncCopy(t)
    <2> SUFFICES ASSUME TruncCopy(t) PROVE FALSE
      OBVIOUS
    <2> DEFINE c == Copy(mem, TailBlk(op[t])).b
    <2>1. Fail(t) \/ op' = [op EXCEPT ![t].k = "load", ![t].b = c]
      BY DEF TruncCopy
    <2> HIDE DEF c
    <2>2. op'[t] = [op[t] EXCEPT !.k = "load", !.b = c]
      BY <1>1, <1>5, <2>1
    <2>3. op'[t].k = "load"
      BY <1>2, <2>2 DEF CallRecs
    <2>4. QED
      BY <1>1, <2>3
  <1>8. ~DropRange(t)
    BY <1>1 DEF DropRange
  <1>9. ~(CollapseEnd(t) \/ ZeroBlk(t) \/ ZeroEnd(t) \/ TruncLoad(t) \/ CloneLock(t)
          \/ ShareBlk(t) \/ ShareEnd(t) \/ ClonePage(t) \/ CloneHole(t) \/ CloneEnd(t)
          \/ MmapWrite(t))
    BY DEF CollapseEnd, ZeroBlk, ZeroEnd, TruncLoad, CloneLock, IsClone, ShareBlk, ShareEnd,
           ClonePage, CloneHole, CloneEnd, MmapWrite
  <1>10. QED
    BY <1>4, <1>6, <1>7, <1>8, <1>9 DEF Step

(* An offset after the end of a file is in a page that is dropped, or in   *)
(* the last page after its end.                                            *)
LEMMA AfterEnd ==
  ASSUME NEW end \in Nat, NEW i \in Nat, end <= i, ~(Page(i) >= DropFrom(end))
  PROVE  end % PageSize # 0 /\ Page(i) = Page(end) /\ end % PageSize <= i % PageSize
  <1> DEFINE a == Page(end) * PageSize
             x == end % PageSize
             y == i % PageSize
  <1>1. Page(end) <= Page(i)
    BY PageMono
  <1>2. Page(end) \in Nat /\ Page(i) \in Nat
    BY PageFacts
  <1>3. x # 0 /\ Page(i) = Page(end)
    BY <1>1, <1>2 DEF DropFrom
  <1>4. /\ end = a + x /\ i = Page(i) * PageSize + y
        /\ x \in 0 .. PageSize - 1 /\ y \in 0 .. PageSize - 1
    BY PageFacts
  <1>5. PageSize \in Nat /\ i = a + y
    BY <1>3, <1>4, ConstantsAssumption
  <1>6. a \in Nat
    BY <1>2, <1>5
  <1> HIDE DEF a, x, y
  <1>7. x <= y
    BY <1>4, <1>5, <1>6
  <1>8. QED
    BY <1>3, <1>7 DEF x, y

(* The end of a truncate whose last block is its own.                      *)
LEMMA TruncEndZero ==
  ASSUME IInv, NEW t \in Threads, TruncEnd(t), NEW o, o = op[t], o.end < isize[o.f],
         NEW i \in o.end .. MaxOff - 1
  PROVE  Byte(o.f, i)' = 0
  <1> DEFINE f == o.f
             b == TailBlk(o)
             lo == o.end % PageSize
             x == i % PageSize
  <1>1. Busy(t) /\ o.k = "trunc" /\ Doomed(o) = {} /\ blk' = blk
        /\ mem' = IF b = NoBlock THEN mem ELSE Fill(mem, b, lo, PageSize, 0)
    BY DEF TruncEnd, Busy
  <1>2. f \in Files /\ o.end \in Nat /\ MaxOff \in Nat
    BY <1>1, CallFields, PageInFile
  <1>3. i \in Nat /\ i < MaxOff /\ o.end <= i /\ Page(i) \in FilePages /\ x \in 0 .. PageSize - 1
    BY <1>2, PageInFile, PageFacts
  <1>4. BlocksFrom(f, DropFrom(o.end)) = {}
    BY <1>1 DEF Doomed
  <1>5. CASE Page(i) >= DropFrom(o.end)
    <2>1. blk[f][Page(i)] = NoBlock
      BY <1>3, <1>4, <1>5 DEF BlocksFrom
    <2>2. QED
      BY <1>1, <2>1 DEF Byte, Page, NoBlock
  <1>6. CASE ~(Page(i) >= DropFrom(o.end))
    <2>1. lo # 0 /\ Page(i) = Page(o.end) /\ lo <= x
      BY <1>2, <1>3, <1>6, AfterEnd
    <2>2. b = blk[f][Page(i)]
      BY <2>1 DEF TailBlk
    <2>3. CASE b = NoBlock
      BY <1>1, <2>2, <2>3 DEF Byte, Page, NoBlock
    <2>4. CASE b # NoBlock
      <3>1. b \in Blocks
        BY <1>2, <1>3, <2>2, <2>4 DEF IInv, DataOk, Blks
      <3>2. NMapped(blk) \in Nat /\ PoolOk(mem, NMapped(blk)) /\ 0 \in Bytes
        BY Counts DEF IInv, DataOk, Bytes
      <3>3. mem' = Fill(mem, b, lo, PageSize, 0)
        BY <1>1, <2>4
      <3>4. PageSize \in Nat
        BY ConstantsAssumption
      <3> HIDE DEF b, lo, x
      <3>5. mem'.data[b][x] = 0
        <4>1. mem'.data[b][x] = IF lo <= x /\ x < PageSize THEN 0 ELSE mem.data[b][x]
          BY <1>3, <3>1, <3>2, <3>3, FillOk
        <4>2. QED
          BY <1>3, <2>1, <3>4, <4>1
      <3>6. Byte(f, i)' = PageBytes(mem', blk'[f][Page(i)])[x]
        BY <1>3, ByteOfPage DEF x
      <3>7. QED
        BY <1>1, <2>2, <2>4, <3>5, <3>6 DEF PageBytes
    <2>5. QED
      BY <2>3, <2>4
  <1>7. QED
    BY <1>5, <1>6

(* The end of a truncate that has copied its last block.                   *)
LEMMA TruncStoreZero ==
  ASSUME IInv, NEW t \in Threads, TruncStore(t), NEW o, o = op[t], TailDropped(o),
         NEW i \in o.end .. MaxOff - 1
  PROVE  Byte(o.f, i)' = 0
  <1> DEFINE f == o.f
             p == Page(o.end)
             c == o.b
             k == o.r - 1
             m == WithCount(mem, TailBlk(o), k)
             lo == o.end % PageSize
             x == i % PageSize
  <1>1. Busy(t) /\ o.k = "store"
    BY DEF TruncStore, Busy
  <1>2. mem' = Fill(m, c, lo, PageSize, 0) /\ blk' = WithPage(blk, f, p, c)
    BY DEF TruncStore, WithPage, WithCount
  <1>3. c \in Blocks /\ TailBlk(o) # NoBlock /\ mem.refcnt[TailBlk(o)] > 1
        /\ o.r = mem.refcnt[TailBlk(o)]
    BY <1>1 DEF IInv, CallOk, TruncOk
  <1>4. f \in Files /\ o.end \in Nat /\ MaxOff \in Nat
    BY <1>1, CallFields, PageInFile
  <1>5. i \in Nat /\ i < MaxOff /\ o.end <= i /\ Page(i) \in FilePages /\ x \in 0 .. PageSize - 1
    BY <1>4, PageInFile, PageFacts
  <1>6. lo # 0 /\ p \in FilePages /\ TailBlk(o) \in Blocks
    BY <1>1, <1>3, TailFacts DEF TailBlk
  <1>7. blk \in Blks /\ NMapped(blk) \in Nat /\ PoolOk(mem, NMapped(blk)) /\ 0 \in Bytes
    BY Counts DEF IInv, DataOk, Bytes
  <1>8. mem.refcnt[TailBlk(o)] \in Nat
    BY <1>6, <1>7, PoolFacts
  <1>9. k \in Nat /\ k > 0
    BY <1>3, <1>8
  <1>10. CASE Page(i) >= DropFrom(o.end)
    <2>1. blk[f][Page(i)] = NoBlock
      BY <1>1, <1>5, <1>10 DEF TailDropped, BlocksFrom
    <2>2. Page(i) # p
      <3>1. DropFrom(o.end) = p + 1 /\ p \in Nat
        BY <1>4, <1>6, PageFacts DEF DropFrom
      <3>2. QED
        BY <1>10, <3>1
    <2>3. blk'[f][Page(i)] = NoBlock
      BY <1>2, <1>4, <1>5, <1>6, <1>7, <2>1, <2>2 DEF WithPage, Blks
    <2>4. QED
      BY <2>3 DEF Byte, Page, NoBlock
  <1>11. CASE ~(Page(i) >= DropFrom(o.end))
    <2>1. Page(i) = p /\ lo <= x
      BY <1>4, <1>5, <1>11, AfterEnd
    <2>2. blk'[f][Page(i)] = c
      BY <1>2, <1>4, <1>6, <1>7, <2>1 DEF WithPage, Blks
    <2>3. PoolOk(m, NMapped(blk))
      <3> DEFINE b == TailBlk(o)
      <3>1. b \in Blocks /\ mem.refcnt[b] > 0 /\ k \in Nat \ {0} /\ m = WithCount(mem, b, k)
        BY <1>3, <1>6, <1>8, <1>9
      <3> HIDE DEF b, k, m
      <3>2. QED
        BY <1>7, <3>1, RecountOk
    <2>4. PageSize \in Nat /\ c # NoBlock
      BY <1>3, ConstantsAssumption DEF Blocks, NoBlock
    <2> HIDE DEF m, c, lo, x
    <2>5. mem'.data[c][x] = 0
      <3>1. mem'.data[c][x] = IF lo <= x /\ x < PageSize THEN 0 ELSE m.data[c][x]
        BY <1>2, <1>3, <1>5, <1>7, <2>3, FillOk
      <3>2. QED
        BY <1>5, <2>1, <2>4, <3>1
    <2>6. Byte(f, i)' = PageBytes(mem', blk'[f][Page(i)])[x]
      BY <1>5, ByteOfPage DEF x
    <2>7. QED
      BY <2>2, <2>4, <2>5, <2>6 DEF PageBytes
  <1>12. QED
    BY <1>10, <1>11


(* The bytes of the calls, for all behaviours.                             *)
THEOREM FileBytesInductive ==
  ASSUME ByteUse
  PROVE  Spec => [](IInv /\ BytesInv)
  <1>1. Init => BytesInv
    BY DEF Init, BytesInv, CursorOk, Landed, TailDropped, Idle
  <1>2. IInv /\ BytesInv /\ [Next]_vars => BytesInv'
    <2> SUFFICES ASSUME IInv, BytesInv, [Next]_vars PROVE BytesInv'
      OBVIOUS
    <2>1. CASE Next
      BY <2>1, BytesStep
    <2>2. CASE UNCHANGED vars
      BY <2>2 DEF vars, files, BytesInv, CursorOk, Landed, TailDropped, Byte, BlocksFrom,
                  DropFrom, Page, Aligned
    <2>3. QED
      BY <2>1, <2>2
  <1>3. Spec => []IInv
    BY FileInductive DEF ByteUse
  <1>4. QED
    BY <1>1, <1>2, <1>3, PTL DEF Spec

(* EffectOnReturn: when write or punch returns, all of its range reads as  *)
(* written, and when truncate returns no old byte is left after the end    *)
(* (_write, _punch_hole_at, toyfs_truncate).                               *)
THEOREM FileEffectOnReturn ==
  ASSUME ByteUse
  PROVE  Spec => EffectOnReturn
  <1> DEFINE Effect == \A t \in Threads, f \in Files :
                         Target(t, f) => LandsOnReturn(t, f) /\ TailZero(t, f)
  <1>1. IInv /\ BytesInv /\ [Next]_vars => [Effect]_vars
    <2> SUFFICES ASSUME IInv, BytesInv, Next, NEW t \in Threads, NEW f \in Files,
                        op[t].k # "none", op[t].f = f, Returned(t)
                 PROVE  LandsOnReturn(t, f) /\ TailZero(t, f)
      BY DEF Target, LandsOnReturn, TailZero
    <2>1. PICK u \in Threads : Step(u) \/ \E c \in Calls : Begin(u, c)
      BY DEF Next
    <2>2. op'[t] # op[t]
      BY DEF Returned, Idle
    <2>3. u = t
      BY <2>1, <2>2, OthersCalls
    <2>4. Step(t)
      BY <2>1, <2>3 DEF Begin
    <2>5. PICK o : o = op[t]
      OBVIOUS
    <2>6. CursorOk(o) /\ Landed(o) /\ TailDropped(o)
      BY <2>5 DEF BytesInv
    <2>7. LandsOnReturn(t, f)
      <3> SUFFICES ASSUME o.k \in {"write", "punch"}, NEW i \in o.from .. o.end - 1
                   PROVE  Byte(f, i)' = o.v
        BY <2>5 DEF LandsOnReturn
      <3>1. RwEnd(t) \/ PunchEnd(t)
        BY <2>4, <2>5, ReturnSteps DEF TruncEnd, TruncStore
      <3>2. o.off >= o.end /\ mem' = mem /\ blk' = blk
        BY <2>5, <3>1 DEF RwEnd, PunchEnd, files
      <3>3. o.from \in Nat /\ o.end \in Nat /\ o.off \in Nat
        BY <2>5, CallFields DEF Busy
      <3>4. i < o.off
        BY <3>2, <3>3
      <3>5. Byte(f, i) = o.v
        BY <2>5, <2>6, <3>4 DEF Landed
      <3>6. QED
        BY <3>2, <3>5 DEF Byte
    <2>8. TailZero(t, f)
      <3> SUFFICES ASSUME o.k \in {"trunc", "store"}, o.end < isize[f],
                          NEW i \in o.end .. MaxOff - 1
                   PROVE  Byte(f, i)' = 0
        BY <2>5 DEF TailZero
      <3>1. TruncEnd(t) \/ TruncStore(t)
        BY <2>4, <2>5, ReturnSteps DEF RwEnd, PunchEnd
      <3>2. CASE TruncEnd(t)
        BY <2>5, <3>2, TruncEndZero
      <3>3. CASE TruncStore(t)
        BY <2>5, <2>6, <3>3, TruncStoreZero
      <3>4. QED
        BY <3>1, <3>2, <3>3
    <2>9. QED
      BY <2>7, <2>8
  <1>2. QED
    BY <1>1, FileBytesInductive, PTL DEF EffectOnReturn, Spec

(* NothingElseChanges: a write leaves the bytes of its file outside its    *)
(* range as they were, fallocate all of them, and both the other files     *)
(* (_write, _falloc_range, _require_iblkref).                              *)
THEOREM FileNothingElseChanges ==
  ASSUME ByteUse
  PROVE  Spec => NothingElseChanges
  <1> DEFINE Only == \A t \in Threads, f \in Files :
                       (Target(t, f) /\ op[t].k \in {"write", "falloc"}) =>
                         \A i \in 0 .. isize[f] - 1 :
                           (op[t].k = "falloc" \/ i \notin op[t].from .. op[t].end - 1)
                             => Byte(f, i)' = Byte(f, i)
  <1>1. IInv /\ BytesInv /\ [Next]_vars => [Only]_vars
    <2> SUFFICES ASSUME IInv, BytesInv, Next, NEW t \in Threads, NEW f \in Files,
                        Target(t, f), op[t].k \in {"write", "falloc"},
                        NEW i \in 0 .. isize[f] - 1,
                        op[t].k = "falloc" \/ i \notin op[t].from .. op[t].end - 1
                 PROVE  Byte(f, i)' = Byte(f, i)
      OBVIOUS
    <2>1. PICK u \in Threads : Step(u) \/ \E c \in Calls : Begin(u, c)
      BY DEF Next
    <2>2. PICK o : o = op[t]
      OBVIOUS
    <2>3. Busy(t) /\ o.f = f
      BY <2>2 DEF Target, Busy
    <2>4. i \in 0 .. MaxOff - 1 /\ i \in Nat
      <3>1. isize[f] \in Offs /\ MaxOff \in Nat
        BY PageInFile DEF IInv, Typed
      <3>2. QED
        BY <3>1 DEF Offs
    <2>5. CASE mem' = mem /\ blk' = blk
      BY <2>5 DEF Byte
    <2>6. CASE \E c \in Calls : Begin(u, c)
      BY <2>5, <2>6 DEF Begin, files
    <2>7. CASE Step(u) /\ u = t
      <3>1. RwPage(t) \/ RwNoSpace(t) \/ RwEnd(t)
        BY <2>7 DEF Step, PunchPage, PunchEnd, CollapseEnd, ZeroBlk, ZeroEnd, DropRange,
                    TruncEnd, TruncCopy, TruncLoad, TruncStore, CloneLock, IsClone, ShareBlk,
                    ShareEnd, ClonePage, CloneHole, CloneEnd, MmapWrite
      <3>2. CASE RwEnd(t)
        BY <2>5, <3>2 DEF RwEnd
      <3>3. CASE RwNoSpace(t)
        <4>1. DataOk(mem, blk, iblocks)
          BY DEF IInv
        <4> DEFINE n == Require(f, Page(o.off))
        <4>2. n.b = NoBlock /\ mem' = n.m /\ blk' = blk /\ o.off < o.end
          BY <2>2, <2>3, <3>3 DEF RwNoSpace, files
        <4>3. Page(o.off) \in FilePages
          BY <2>2, <2>3, <4>2, CallFields, OffInFile
        <4>4. Kept(mem, n.m) /\ n.m.refcnt = mem.refcnt
          <5>1. NoBlock \notin Blocks
            BY DEF NoBlock, Blocks
          <5> HIDE DEF n
          <5>2. n = Require(f, Page(o.off))
            BY DEF n
          <5>3. QED
            BY <4>1, <4>2, <4>3, <5>1, <5>2, RequireOk
        <4>5. Page(i) \in FilePages
          BY <2>4, PageInFile
        <4>6. blk[f][Page(i)] # NoBlock =>
                mem'.data[blk[f][Page(i)]] = mem.data[blk[f][Page(i)]]
          <5> SUFFICES ASSUME blk[f][Page(i)] # NoBlock
                       PROVE  mem'.data[blk[f][Page(i)]] = mem.data[blk[f][Page(i)]]
            OBVIOUS
          <5>1. blk[f][Page(i)] \in Blocks /\ mem.refcnt[blk[f][Page(i)]] > 0
            BY <4>1, <4>5, LiveRef
          <5>2. QED
            BY <4>2, <4>4, <5>1 DEF Kept
        <4>7. QED
          BY <4>2, <4>6 DEF Byte, Page, NoBlock
      <3>4. CASE RwPage(t)
        <4> DEFINE l == Least(NextPage(o.off), o.end)
        <4>1. Byte(f, i)' = IF o.k = "write" /\ o.off <= i /\ i < l THEN o.v ELSE Byte(f, i)
          BY <2>2, <2>3, <2>4, <3>4, RwBytes
        <4>2. o.off \in Nat /\ o.end \in Nat /\ o.from \in Nat /\ o.off < o.end
          BY <2>2, <2>3, <3>4, CallFields DEF RwPage
        <4>3. l \in Nat /\ l <= o.end
          <5>1. NextPage(o.off) \in Nat
            BY <4>2, PageFacts
          <5>2. QED
            BY <4>2, <5>1 DEF Least
        <4>4. o.from <= o.off
          BY <2>2 DEF BytesInv, CursorOk
        <4> HIDE DEF l
        <4>5. ~(o.k = "write" /\ o.off <= i /\ i < l)
          BY <2>2, <2>4, <4>2, <4>3, <4>4
        <4>6. QED
          BY <4>1, <4>5
      <3>5. QED
        BY <3>1, <3>2, <3>3, <3>4
    <2>8. CASE Step(u) /\ u # t
      <3>1. Busy(u)
        BY <2>8, StepBusy
      <3>2. op[u].k \in Kinds /\ Ops \cap InPlace = {}
        BY <2>8, <3>1, CallFields DEF ByteUse
      <3>3. op[u].k \notin InPlace
        BY <3>2 DEF Kinds, InPlace
      <3>4. QED
        BY <2>2, <2>3, <2>4, <2>8, <3>3, OthersBytes
    <2>9. QED
      BY <2>1, <2>6, <2>7, <2>8
  <1>2. Spec => OnlyItsRange
    BY <1>1, FileBytesInductive, PTL DEF OnlyItsRange, Spec
  <1>3. Spec => CowIsolated
    BY FileClonesIndependent, PTL DEF ClonesIndependent, ByteUse
  <1>4. QED
    BY <1>2, <1>3 DEF NothingElseChanges
=============================================================================
