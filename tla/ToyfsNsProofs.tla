---------------------------- MODULE ToyfsNsProofs ---------------------------
(***************************************************************************)
(* Theorems about ToyfsNs, for any number of threads, inodes, names and    *)
(* pages.                                                                  *)
(***************************************************************************)
EXTENDS ToyfsNs, ToyfsDirProofs

NodeRecs == [live : BOOLEAN, kind : Kinds \cup {"none", "dir"}, nlink : Nat, size : Nat,
             pages : Seq(PageType), xattr : BOOLEAN]

(* Each inode on its own: its pages are those of a directory, all of whose *)
(* dirents its size counts.                                                *)
NodeOk(x) ==
  /\ ~x.live => x = NoNode
  /\ ~IsDir(x) => x.pages = <<>>
  /\ DirOk(x.pages)
  /\ x.size = Cardinality(Places(x.pages))

NodesOk(nd) == nd \in [Inos -> NodeRecs] /\ \A i \in Inos : NodeOk(nd[i])

LinksOf(nd) ==
  UNION {{<<d, e.n, e.i>> : e \in Dirents(nd[d].pages)} : d \in {i \in Inos : nd[i].live}}

DirsOf(nd) == {i \in Inos : IsDir(nd[i])}

LinksIn(L, i) == {l \in L : l[3] = i}
SubsIn(L, D, d) == {l \in L : l[1] = d /\ l[3] \in D}

(* The links that an inode should count.                                   *)
NlinkOk(x, i, L, D) ==
  x.nlink = Cardinality(LinksIn(L, i))
              + IF ~IsDir(x) \/ (x.nlink = 0 /\ x.size = 0) THEN 0
                ELSE Cardinality(SubsIn(L, D, i)) + IF i = Root THEN 2 ELSE 1

(* Links lead to live inodes, never to the root or from a directory to     *)
(* itself.                                                                 *)
LinksOk(nd, L) ==
  /\ IsFiniteSet(L)
  /\ \A l \in L : nd[l[3]].live /\ l[3] # Root /\ l[1] # l[3]

(* One link at most leads to a directory.                                  *)
OneParent(L, D) == \A l \in L, m \in L : l[3] = m[3] /\ l[3] \in D => l = m

TreeInv(nd) ==
  /\ NodesOk(nd)
  /\ LinksOk(nd, LinksOf(nd))
  /\ OneParent(LinksOf(nd), DirsOf(nd))
  /\ \A i \in Inos : nd[i].live => NlinkOk(nd[i], i, LinksOf(nd), DirsOf(nd))
-----------------------------------------------------------------------------
HasLink(pages, n, i) == \E x \in Places(pages) : At(pages, x) = Dirent(n, i)

(* The links, by the dirents that are there.                               *)
LEMMA LinksIs ==
  ASSUME NEW nd, NodesOk(nd)
  PROVE  /\ \A l \in LinksOf(nd) : /\ l = <<l[1], l[2], l[3]>>
                                   /\ l[1] \in Inos /\ l[2] \in Names /\ l[3] \in Inos
         /\ \A d \in Inos, n \in Names, i \in Inos :
              <<d, n, i>> \in LinksOf(nd) <=> HasLink(nd[d].pages, n, i)
  <1>1. \A d \in Inos : DirOk(nd[d].pages) /\ (~nd[d].live => Places(nd[d].pages) = {})
    BY NoPagesIs DEF NodesOk, NodeOk, NoNode
  <1>2. \A d \in Inos : \A x \in Places(nd[d].pages) :
           LET e == At(nd[d].pages, x) IN e.n \in Names /\ e.i \in Inos /\ e = Dirent(e.n, e.i)
    BY <1>1, PlacesFacts
  <1>3. ASSUME NEW l \in LinksOf(nd)
        PROVE  /\ l = <<l[1], l[2], l[3]>>
               /\ l[1] \in Inos /\ l[2] \in Names /\ l[3] \in Inos
               /\ HasLink(nd[l[1]].pages, l[2], l[3])
    <2>1. PICK d \in Inos : \E x \in Places(nd[d].pages) :
             l = <<d, At(nd[d].pages, x).n, At(nd[d].pages, x).i>>
      BY DEF LinksOf, Dirents
    <2>2. PICK x \in Places(nd[d].pages) : l = <<d, At(nd[d].pages, x).n, At(nd[d].pages, x).i>>
      BY <2>1
    <2>3. QED
      BY <1>2, <2>2 DEF HasLink
  <1>4. ASSUME NEW d \in Inos, NEW n \in Names, NEW i \in Inos, HasLink(nd[d].pages, n, i)
        PROVE  <<d, n, i>> \in LinksOf(nd)
    <2>1. PICK x \in Places(nd[d].pages) : At(nd[d].pages, x) = Dirent(n, i)
      BY <1>4 DEF HasLink
    <2>2. nd[d].live
      BY <1>1, <2>1
    <2>3. At(nd[d].pages, x).n = n /\ At(nd[d].pages, x).i = i
      BY <2>1, DirentFacts
    <2>4. QED
      BY <2>2, <2>3 DEF LinksOf, Dirents
  <1>5. ASSUME NEW d \in Inos, NEW n \in Names, NEW i \in Inos, <<d, n, i>> \in LinksOf(nd)
        PROVE  HasLink(nd[d].pages, n, i)
    BY <1>3, <1>5
  <1>6. QED
    BY <1>3, <1>4, <1>5

(* What lookups find.                                                      *)
LEMMA LookupLinks ==
  ASSUME NEW nd, NodesOk(nd), NEW d \in Inos, NEW n \in Names
  PROVE  /\ Has(nd, d, n) <=> \E i \in Inos : <<d, n, i>> \in LinksOf(nd)
         /\ \A i \in Inos : <<d, n, i>> \in LinksOf(nd) =>
              /\ InoOf(nd, d, n) = i
              /\ LookupDirent(nd[d].pages, n) \in Places(nd[d].pages)
              /\ At(nd[d].pages, LookupDirent(nd[d].pages, n)) = Dirent(n, i)
         /\ Has(nd, d, n) => InoOf(nd, d, n) \in Inos /\ <<d, n, InoOf(nd, d, n)>> \in LinksOf(nd)
  <1> DEFINE pages == nd[d].pages
             at == LookupDirent(pages, n)
  <1>1. DirOk(pages)
    BY DEF NodesOk, NodeOk
  <1>2. /\ at # NoPlace => at \in Places(pages) /\ At(pages, at).n = n
        /\ at = NoPlace => \A x \in Places(pages) : At(pages, x).n # n
    BY <1>1, LookupIs
  <1>3. Has(nd, d, n) <=> at # NoPlace
    BY DEF Has
  <1>4. InoOf(nd, d, n) = At(pages, at).i
    BY DEF InoOf
  <1>5. \A i \in Inos : <<d, n, i>> \in LinksOf(nd) <=> HasLink(pages, n, i)
    BY LinksIs
  <1>6. \A x \in Places(pages) : At(pages, x) = Dirent(At(pages, x).n, At(pages, x).i)
                                  /\ At(pages, x).i \in Inos
    BY <1>1, PlacesFacts
  <1> HIDE DEF pages, at
  <1>7. ASSUME NEW i \in Inos, HasLink(pages, n, i)
        PROVE  at # NoPlace /\ at \in Places(pages) /\ At(pages, at) = Dirent(n, i)
                 /\ At(pages, at).i = i
    <2>1. PICK x \in Places(pages) : At(pages, x) = Dirent(n, i)
      BY <1>7 DEF HasLink
    <2>2. At(pages, x).n = n /\ At(pages, x).i = i
      BY <2>1, DirentFacts
    <2>3. at # NoPlace /\ at \in Places(pages) /\ At(pages, at).n = n
      BY <1>2, <2>2
    <2>4. at = x
      BY <1>1, <2>2, <2>3 DEF DirOk
    <2>5. QED
      BY <2>1, <2>2, <2>3, <2>4
  <1>8. ASSUME at # NoPlace PROVE At(pages, at).i \in Inos /\ HasLink(pages, n, At(pages, at).i)
    <2>1. at \in Places(pages) /\ At(pages, at).n = n
      BY <1>2, <1>8
    <2>2. At(pages, at) = Dirent(n, At(pages, at).i) /\ At(pages, at).i \in Inos
      BY <1>6, <2>1
    <2>3. QED
      BY <2>1, <2>2 DEF HasLink
  <1>9. QED
    BY <1>3, <1>4, <1>5, <1>7, <1>8 DEF pages, at
-----------------------------------------------------------------------------
(* The pages of a directory with one dirent more, and where it is.         *)
NoRoom(pages, n) == AcquireDirent(pages, n) = NoPlace
AddedAt(pages, n) == IF NoRoom(pages, n) THEN <<Len(pages) + 1, 1>> ELSE AcquireDirent(pages, n)
Added(pages, n, i) ==
  SetDirent(IF NoRoom(pages, n) THEN Append(pages, EmptyPage) ELSE pages, AddedAt(pages, n), n, i)

(* ... or less.                                                            *)
Removed(pages, n) == ResetDirent(pages, LookupDirent(pages, n))

(* What adding a dirent does to the pages of a directory.                  *)
LEMMA AddedIs ==
  ASSUME NEW pages, DirOk(pages), NEW n \in Names, NEW i \in Inos,
         \A x \in Places(pages) : At(pages, x).n # n
  PROVE  /\ DirOk(Added(pages, n, i))
         /\ Len(Added(pages, n, i)) = Len(pages) + IF NoRoom(pages, n) THEN 1 ELSE 0
         /\ AddedAt(pages, n) \notin Places(pages)
         /\ Places(Added(pages, n, i)) = Places(pages) \cup {AddedAt(pages, n)}
         /\ At(Added(pages, n, i), AddedAt(pages, n)) = Dirent(n, i)
         /\ \A x \in Places(pages) : At(Added(pages, n, i), x) = At(pages, x)
  <1> DEFINE base == IF NoRoom(pages, n) THEN Append(pages, EmptyPage) ELSE pages
             at == AddedAt(pages, n)
  <1>1. Added(pages, n, i) = SetDirent(base, at, n, i)
    BY DEF Added
  <1>2. /\ DirOk(base)
        /\ Len(base) = Len(pages) + IF NoRoom(pages, n) THEN 1 ELSE 0
        /\ Places(base) = Places(pages)
        /\ \A x \in Places(pages) : At(base, x) = At(pages, x)
        /\ Room(base, at, n)
    <2>1. CASE NoRoom(pages, n)
      BY <2>1, AppendIs DEF AddedAt
    <2>2. CASE ~NoRoom(pages, n)
      <3>1. Len(pages) \in Nat
        BY PlacesFacts
      <3>2. QED
        BY <2>2, <3>1, AcquireIs DEF AddedAt, NoRoom
    <2>3. QED
      BY <2>1, <2>2
  <1> HIDE DEF base, at
  <1>3. \A x \in Places(base) : At(base, x).n # n
    BY <1>2
  <1>4. /\ DirOk(SetDirent(base, at, n, i))
         /\ Len(SetDirent(base, at, n, i)) = Len(base)
         /\ at \notin Places(base)
         /\ Places(SetDirent(base, at, n, i)) = Places(base) \cup {at}
         /\ At(SetDirent(base, at, n, i), at) = Dirent(n, i)
         /\ \A x \in Places(base) : At(SetDirent(base, at, n, i), x) = At(base, x)
    BY <1>2, <1>3, SetIs
  <1>5. QED
    BY <1>1, <1>2, <1>4 DEF at

(* What removing one does.                                                 *)
LEMMA RemovedIs ==
  ASSUME NEW pages, DirOk(pages), NEW n \in Names, NEW i \in Inos, HasLink(pages, n, i)
  PROVE  /\ DirOk(Removed(pages, n))
         /\ Len(Removed(pages, n)) = Len(pages)
         /\ LookupDirent(pages, n) \in Places(pages)
         /\ At(pages, LookupDirent(pages, n)) = Dirent(n, i)
         /\ Places(Removed(pages, n)) = Places(pages) \ {LookupDirent(pages, n)}
         /\ \A x \in Places(Removed(pages, n)) : At(Removed(pages, n), x) = At(pages, x)
  <1>1. PICK x \in Places(pages) : At(pages, x) = Dirent(n, i)
    BY DEF HasLink
  <1>2. LookupDirent(pages, n) = x
    BY <1>1, LookupFinds, DirentFacts
  <1>3. QED
    BY <1>1, <1>2, ResetIs DEF Removed

(* What the dirents say after one came or went.                            *)
LEMMA AddedLinks ==
  ASSUME NEW pages, DirOk(pages), NEW n \in Names, NEW i \in Inos,
         \A x \in Places(pages) : At(pages, x).n # n
  PROVE  \A n2 \in Names, i2 \in Inos :
           HasLink(Added(pages, n, i), n2, i2) <=> HasLink(pages, n2, i2) \/ (n2 = n /\ i2 = i)
  <1>1. \A n2 \in Names, i2 \in Inos : Dirent(n, i) = Dirent(n2, i2) <=> n2 = n /\ i2 = i
    BY DirentFacts
  <1>2. /\ Places(Added(pages, n, i)) = Places(pages) \cup {AddedAt(pages, n)}
        /\ At(Added(pages, n, i), AddedAt(pages, n)) = Dirent(n, i)
        /\ \A x \in Places(pages) : At(Added(pages, n, i), x) = At(pages, x)
    BY AddedIs
  <1>3. QED
    BY <1>1, <1>2 DEF HasLink

(* ... after one went.                                                     *)
LEMMA RemovedLinks ==
  ASSUME NEW pages, DirOk(pages), NEW n \in Names, NEW i \in Inos, HasLink(pages, n, i)
  PROVE  \A n2 \in Names, i2 \in Inos :
           HasLink(Removed(pages, n), n2, i2) <=> HasLink(pages, n2, i2) /\ ~(n2 = n /\ i2 = i)
  <1>1. \A n2 \in Names, i2 \in Inos : Dirent(n, i) = Dirent(n2, i2) <=> n2 = n /\ i2 = i
    BY DirentFacts
  <1>2. /\ LookupDirent(pages, n) \in Places(pages)
        /\ At(pages, LookupDirent(pages, n)) = Dirent(n, i)
        /\ Places(Removed(pages, n)) = Places(pages) \ {LookupDirent(pages, n)}
        /\ \A x \in Places(Removed(pages, n)) : At(Removed(pages, n), x) = At(pages, x)
    BY RemovedIs
  <1>3. \A x \in Places(pages), y \in Places(pages) : At(pages, x).n = At(pages, y).n => x = y
    BY DEF DirOk
  <1>4. \A x \in Places(pages) : At(pages, x) = Dirent(n, i) => x = LookupDirent(pages, n)
    BY <1>2, <1>3
  <1>5. QED
    BY <1>1, <1>2, <1>4 DEF HasLink
-----------------------------------------------------------------------------

(* An inode by its fields.                                                 *)
MkNode(l, k, n, s, p, x) ==
  [live |-> l, kind |-> k, nlink |-> n, size |-> s, pages |-> p, xattr |-> x]

(* The fields of an inode.                                                 *)
LEMMA MkNodeIs ==
  ASSUME NEW l, NEW k, NEW n, NEW s, NEW p, NEW x
  PROVE  /\ MkNode(l, k, n, s, p, x).live = l /\ MkNode(l, k, n, s, p, x).kind = k
         /\ MkNode(l, k, n, s, p, x).nlink = n /\ MkNode(l, k, n, s, p, x).size = s
         /\ MkNode(l, k, n, s, p, x).pages = p /\ MkNode(l, k, n, s, p, x).xattr = x
         /\ (/\ l \in BOOLEAN /\ k \in Kinds \cup {"none", "dir"} /\ n \in Nat /\ s \in Nat
             /\ p \in Seq(PageType) /\ x \in BOOLEAN) => MkNode(l, k, n, s, p, x) \in NodeRecs
  BY DEF MkNode, NodeRecs

(* ... and their types.                                                    *)
LEMMA MkNodeType ==
  ASSUME NEW l \in BOOLEAN, NEW k \in Kinds \cup {"none", "dir"}, NEW n \in Nat,
         NEW s \in Nat, NEW p \in Seq(PageType), NEW x \in BOOLEAN
  PROVE  MkNode(l, k, n, s, p, x) \in NodeRecs
  BY DEF MkNode, NodeRecs

(* An inode with one field changed.                                        *)
LEMMA MkNodeExcept ==
  ASSUME NEW l, NEW k, NEW n, NEW s, NEW p, NEW x, NEW e
  PROVE  /\ [MkNode(l, k, n, s, p, x) EXCEPT !.nlink = e] = MkNode(l, k, e, s, p, x)
         /\ [MkNode(l, k, n, s, p, x) EXCEPT !.size = e] = MkNode(l, k, n, e, p, x)
         /\ [MkNode(l, k, n, s, p, x) EXCEPT !.pages = e] = MkNode(l, k, n, s, e, x)
         /\ [MkNode(l, k, n, s, p, x) EXCEPT !.xattr = e] = MkNode(l, k, n, s, p, e)
  BY DEF MkNode

(* An inode is made of its fields.                                         *)
LEMMA NodeFields ==
  ASSUME NEW v \in NodeRecs
  PROVE  /\ v = MkNode(v.live, v.kind, v.nlink, v.size, v.pages, v.xattr)
         /\ v.live \in BOOLEAN /\ v.kind \in Kinds \cup {"none", "dir"} /\ v.nlink \in Nat
         /\ v.size \in Nat /\ v.pages \in Seq(PageType) /\ v.xattr \in BOOLEAN
  BY DEF NodeRecs, MkNode

(* The pages and the size of one inode.                                    *)
SetPages(nd, d, P, s) == [nd EXCEPT ![d].pages = P, ![d].size = s]

(* An inode with other pages and another size, field by field.             *)
LEMMA ExceptPages ==
  ASSUME NEW nd \in [Inos -> NodeRecs], NEW d \in Inos, NEW P, NEW s
  PROVE  SetPages(nd, d, P, s) =
           [nd EXCEPT ![d] = MkNode(nd[d].live, nd[d].kind, nd[d].nlink, s, P, nd[d].xattr)]
  <1> DEFINE w == [nd[d] EXCEPT !.pages = P]
  <1>1. SetPages(nd, d, P, s) = [nd EXCEPT ![d] = [w EXCEPT !.size = s]]
    BY DEF NodeRecs, SetPages
  <1>2. w = MkNode(nd[d].live, nd[d].kind, nd[d].nlink, nd[d].size, P, nd[d].xattr)
    BY DEF NodeRecs, MkNode
  <1> HIDE DEF w
  <1>3. [w EXCEPT !.size = s] = MkNode(nd[d].live, nd[d].kind, nd[d].nlink, s, P, nd[d].xattr)
    BY <1>2 DEF MkNode
  <1>4. QED
    BY <1>1, <1>3

(* An inode whose links, pages and size changed.                           *)
Upd(v, n, s, P) == MkNode(v.live, v.kind, n, s, P, v.xattr)

(* A change of the links after the others.                                 *)
LEMMA UpdExcept ==
  ASSUME NEW v, NEW n, NEW s, NEW P, NEW e
  PROVE  /\ [Upd(v, n, s, P) EXCEPT !.nlink = e] = Upd(v, e, s, P)
         /\ Upd(v, n, s, P).nlink = n
  BY MkNodeExcept, MkNodeIs DEF Upd
-----------------------------------------------------------------------------
(* toyfs_add_dirent: everything it does to the inodes.                     *)
LEMMA AddDirentIs ==
  ASSUME NEW nd, NodesOk(nd), NEW m, NEW d \in Inos, NEW n \in Names, NEW i \in Inos, d # i
  PROVE  /\ AddDirent(nd, m, d, n, i).nd =
              [j \in Inos |->
                 Upd(nd[j], nd[j].nlink + IF j = i \/ (j = d /\ IsDir(nd[i])) THEN 1 ELSE 0,
                     nd[j].size + IF j = d THEN 1 ELSE 0,
                     IF j = d THEN Added(nd[d].pages, n, i) ELSE nd[j].pages)]
         /\ AddDirent(nd, m, d, n, i).m = IF NoRoom(nd[d].pages, n) THEN AcquirePmemb(m) ELSE m
  <1> DEFINE pages == nd[d].pages
             full == AcquireDirent(pages, n) = NoPlace
             base == IF full THEN Append(pages, EmptyPage) ELSE pages
             place == IF full THEN <<Len(base), 1>> ELSE AcquireDirent(pages, n)
             P == SetDirent(base, place, n, i)
             x == [nd EXCEPT ![d].pages = P, ![d].size = @ + 1]
             Rec(j, b) == Upd(nd[j], nd[j].nlink + b, nd[j].size + IF j = d THEN 1 ELSE 0,
                              IF j = d THEN P ELSE nd[j].pages)
  <1>1. AddDirent(nd, m, d, n, i) =
            [nd |-> StdAddDentry(x, d, i), m |-> IF full THEN AcquirePmemb(m) ELSE m]
    BY DEF AddDirent
  <1>2. P = Added(pages, n, i)
    <2>1. DirOk(pages)
      BY DEF NodesOk, NodeOk
    <2>2. full => Len(base) = Len(pages) + 1
      BY <2>1, AppendIs
    <2>3. place = AddedAt(pages, n)
      BY <2>2 DEF AddedAt, NoRoom
    <2>4. QED
      BY <2>3 DEF Added, NoRoom
  <1>3. nd \in [Inos -> NodeRecs]
    BY DEF NodesOk
  <1> HIDE DEF P
  <1>4. \A j \in Inos : nd[j].nlink \in Nat /\ nd[j].size \in Nat
    BY <1>3, NodeFields
  <1>5. x = [j \in Inos |-> Rec(j, 0)]
    <2>1. x = SetPages(nd, d, P, nd[d].size + 1)
      BY <1>3 DEF SetPages
    <2> HIDE DEF x
    <2>2. x = [nd EXCEPT ![d] = MkNode(nd[d].live, nd[d].kind, nd[d].nlink, nd[d].size + 1, P,
                                       nd[d].xattr)]
      BY <1>3, <2>1, ExceptPages
    <2>3. \A j \in Inos : nd[j] =
              MkNode(nd[j].live, nd[j].kind, nd[j].nlink, nd[j].size, nd[j].pages, nd[j].xattr)
      BY <1>3, NodeFields
    <2>4. \A j \in Inos : x[j] = Rec(j, 0)
      <3> SUFFICES ASSUME NEW j \in Inos PROVE x[j] = Rec(j, 0)
        OBVIOUS
      <3>1. nd[j].nlink + 0 = nd[j].nlink /\ nd[j].size + 0 = nd[j].size
        BY <1>4
      <3>2. CASE j = d
        <4>1. x[j] = MkNode(nd[d].live, nd[d].kind, nd[d].nlink, nd[d].size + 1, P, nd[d].xattr)
          BY <1>3, <2>2, <3>2
        <4> HIDE DEF x
        <4>2. QED
          BY <3>1, <3>2, <4>1 DEF Upd
      <3>3. CASE j # d
        <4>1. x[j] = nd[j]
          BY <1>3, <2>2, <3>3
        <4> HIDE DEF x
        <4>2. QED
          BY <2>3, <3>1, <3>3, <4>1 DEF Upd
      <3>4. QED
        BY <3>2, <3>3
    <2>5. x = [j \in Inos |-> x[j]]
      BY <1>3, <2>2
    <2> HIDE DEF x, Rec
    <2>6. QED
      BY <2>4, <2>5
  <1>6. \A j \in Inos : [Rec(j, 0) EXCEPT !.nlink = @ + 1] = Rec(j, 1)
    <2> SUFFICES ASSUME NEW j \in Inos PROVE [Rec(j, 0) EXCEPT !.nlink = @ + 1] = Rec(j, 1)
      OBVIOUS
    <2>1. Rec(j, 0).nlink + 1 = nd[j].nlink + 1
      BY <1>4, UpdExcept
    <2>2. [Rec(j, 0) EXCEPT !.nlink = nd[j].nlink + 1] = Rec(j, 1)
      BY UpdExcept
    <2> HIDE DEF Rec
    <2>3. [Rec(j, 0) EXCEPT !.nlink = @ + 1] = [Rec(j, 0) EXCEPT !.nlink = Rec(j, 0).nlink + 1]
      OBVIOUS
    <2>4. QED
      BY <2>1, <2>2, <2>3
  <1>7. x[i] = nd[i]
    BY <1>3
  <1>8. StdAddDentry(x, d, i) =
          [j \in Inos |-> Rec(j, IF j = i \/ (j = d /\ IsDir(nd[i])) THEN 1 ELSE 0)]
    <2> DEFINE y == [x EXCEPT ![i].nlink = @ + 1]
    <2>1. y = [x EXCEPT ![i] = [x[i] EXCEPT !.nlink = @ + 1]]
      OBVIOUS
    <2>2. y = [j \in Inos |-> Rec(j, IF j = i THEN 1 ELSE 0)]
      <3> HIDE DEF x, y, Rec
      <3>1. QED
        BY <1>5, <1>6, <2>1
    <2>3. CASE IsDir(nd[i])
      <3>1. StdAddDentry(x, d, i) = [y EXCEPT ![d].nlink = @ + 1]
        BY <1>7, <2>3 DEF StdAddDentry
      <3> HIDE DEF x, y, Rec
      <3>2. [y EXCEPT ![d].nlink = @ + 1] = [y EXCEPT ![d] = [y[d] EXCEPT !.nlink = @ + 1]]
        OBVIOUS
      <3>3. y[d] = Rec(d, 0)
        BY <2>2
      <3>4. QED
        BY <1>6, <2>2, <2>3, <3>1, <3>2, <3>3
    <2>4. CASE ~IsDir(nd[i])
      <3>1. StdAddDentry(x, d, i) = y
        BY <1>7, <2>4 DEF StdAddDentry
      <3> HIDE DEF x, y, Rec
      <3>2. QED
        BY <2>2, <2>4, <3>1
    <2>5. QED
      BY <2>3, <2>4
  <1> HIDE DEF x
  <1>9. QED
    BY <1>1, <1>2, <1>8 DEF NoRoom

(* toyfs_remove_dirent.                                                    *)
LEMMA RemoveDirentIs ==
  ASSUME NEW nd, NodesOk(nd), NEW d \in Inos, NEW n \in Names, NEW i \in Inos, d # i
  PROVE  RemoveDirent(nd, d, n, i) =
           [j \in Inos |->
              Upd(nd[j],
                  nd[j].nlink - IF j = i THEN IF IsDir(nd[i]) THEN 2 ELSE 1
                                ELSE IF j = d /\ IsDir(nd[i]) THEN 1 ELSE 0,
                  nd[j].size - IF j = d THEN 1 ELSE 0,
                  IF j = d THEN Removed(nd[d].pages, n) ELSE nd[j].pages)]
  <1> DEFINE P == Removed(nd[d].pages, n)
             x == [nd EXCEPT ![d].pages = P, ![d].size = @ - 1]
  <1>1. nd \in [Inos -> NodeRecs]
    BY DEF NodesOk
  <1>2. RemoveDirent(nd, d, n, i) = StdRemoveDentry(x, d, i)
    BY <1>1 DEF RemoveDirent, Removed
  <1> HIDE DEF P
  <1>3. x[i] = nd[i]
    BY <1>1
  <1>4. CASE IsDir(nd[i])
    BY <1>1, <1>2, <1>3, <1>4 DEF StdRemoveDentry, NodeRecs, P, Upd, MkNode
  <1>5. CASE ~IsDir(nd[i])
    BY <1>1, <1>2, <1>3, <1>5 DEF StdRemoveDentry, NodeRecs, P, Upd, MkNode
  <1>6. QED
    BY <1>4, <1>5

(* The inodes with the pages of one directory and some link counts changed. *)
Changed(nd, N, d, P) ==
  [j \in Inos |-> Upd(nd[j], N[j], IF j = d THEN Cardinality(Places(P)) ELSE nd[j].size,
                      IF j = d THEN P ELSE nd[j].pages)]

(* Such a change keeps each inode right on its own.                        *)
LEMMA ChangedIs ==
  ASSUME NEW nd, NodesOk(nd), NEW N \in [Inos -> Nat], NEW d \in Inos, NEW P, DirOk(P),
         nd[d].live, IsDir(nd[d]), \A j \in Inos : ~nd[j].live => N[j] = 0
  PROVE  LET r == Changed(nd, N, d, P) IN
         /\ NodesOk(r) /\ DirsOf(r) = DirsOf(nd)
         /\ \A j \in Inos : /\ r[j].live = nd[j].live /\ r[j].kind = nd[j].kind
                            /\ r[j].xattr = nd[j].xattr /\ r[j].nlink = N[j]
                            /\ r[j].pages = IF j = d THEN P ELSE nd[j].pages
                            /\ IsDir(r[j]) <=> IsDir(nd[j])
  <1> DEFINE r == Changed(nd, N, d, P)
  <1>1. \A j \in Inos : /\ r[j].live = nd[j].live /\ r[j].kind = nd[j].kind
                        /\ r[j].xattr = nd[j].xattr /\ r[j].nlink = N[j]
                        /\ r[j].pages = IF j = d THEN P ELSE nd[j].pages
                        /\ r[j].size = IF j = d THEN Cardinality(Places(P)) ELSE nd[j].size
    BY MkNodeIs DEF Changed, Upd
  <1>2. \A j \in Inos : IsDir(r[j]) <=> IsDir(nd[j])
    BY <1>1 DEF IsDir
  <1>3. \A j \in Inos : nd[j] \in NodeRecs /\ NodeOk(nd[j])
    BY DEF NodesOk
  <1>4. ASSUME NEW j \in Inos
        PROVE  r[j] \in NodeRecs /\ NodeOk(r[j])
    <2>1. /\ nd[j] = MkNode(nd[j].live, nd[j].kind, nd[j].nlink, nd[j].size, nd[j].pages,
                             nd[j].xattr)
          /\ nd[j].live \in BOOLEAN /\ nd[j].kind \in Kinds \cup {"none", "dir"}
          /\ nd[j].nlink \in Nat
          /\ nd[j].size \in Nat /\ nd[j].pages \in Seq(PageType) /\ nd[j].xattr \in BOOLEAN
      BY <1>3, NodeFields
    <2>2. P \in Seq(PageType) /\ Cardinality(Places(P)) \in Nat
      BY PlacesFacts DEF DirOk
    <2> DEFINE s == IF j = d THEN Cardinality(Places(P)) ELSE nd[j].size
               Q == IF j = d THEN P ELSE nd[j].pages
    <2>3. s \in Nat /\ Q \in Seq(PageType) /\ N[j] \in Nat
      BY <2>1, <2>2
    <2>4. r[j] = MkNode(nd[j].live, nd[j].kind, N[j], s, Q, nd[j].xattr)
      BY DEF Changed, Upd
    <2>5. ~nd[j].live => r[j] = nd[j]
      <3> SUFFICES ASSUME ~nd[j].live PROVE r[j] = nd[j]
        OBVIOUS
      <3>1. nd[j].nlink = 0
        BY <1>3 DEF NodeOk, NoNode
      <3>2. j # d /\ N[j] = 0
        OBVIOUS
      <3>3. QED
        BY <2>1, <2>4, <3>1, <3>2
    <2> HIDE DEF r, s, Q
    <2>6. r[j] \in NodeRecs
      BY <2>1, <2>3, <2>4, MkNodeIs
    <2>7. NodeOk(r[j])
      BY <1>1, <1>2, <1>3, <2>5 DEF NodeOk
    <2>8. QED
      BY <2>6, <2>7
  <1>5. NodesOk(r)
    <2>1. r = [j \in Inos |-> r[j]]
      BY DEF Changed
    <2> HIDE DEF r
    <2>2. QED
      BY <1>4, <2>1 DEF NodesOk
  <1>6. DirsOf(r) = DirsOf(nd)
    BY <1>2 DEF DirsOf
  <1> HIDE DEF r
  <1>7. QED
    BY <1>1, <1>2, <1>5, <1>6 DEF r

LinksThen(nd, d, P, L) ==
  \A d2 \in Inos, n2 \in Names, i2 \in Inos :
    <<d2, n2, i2>> \in L <=>
      IF d2 = d THEN HasLink(P, n2, i2) ELSE <<d2, n2, i2>> \in LinksOf(nd)

(* ... and their links: those of the other directories, and what the new   *)
(* pages say.                                                              *)
LEMMA ChangedLinks ==
  ASSUME NEW nd, NodesOk(nd), NEW N \in [Inos -> Nat], NEW d \in Inos, NEW P, DirOk(P),
         nd[d].live, IsDir(nd[d]), \A j \in Inos : ~nd[j].live => N[j] = 0,
         NEW L \in SUBSET (Inos \X Names \X Inos), LinksThen(nd, d, P, L)
  PROVE  LinksOf(Changed(nd, N, d, P)) = L
  <1> DEFINE r == Changed(nd, N, d, P)
  <1>1. NodesOk(r) /\ \A j \in Inos : r[j].pages = IF j = d THEN P ELSE nd[j].pages
    BY ChangedIs
  <1> HIDE DEF r
  <1>2. \A d2 \in Inos, n2 \in Names, i2 \in Inos :
          /\ <<d2, n2, i2>> \in LinksOf(r) <=> HasLink(r[d2].pages, n2, i2)
          /\ <<d2, n2, i2>> \in LinksOf(nd) <=> HasLink(nd[d2].pages, n2, i2)
    BY <1>1, LinksIs
  <1>3. ASSUME NEW d2 \in Inos, NEW n2 \in Names, NEW i2 \in Inos
        PROVE  <<d2, n2, i2>> \in LinksOf(r) <=> <<d2, n2, i2>> \in L
    <2>1. CASE d2 = d
      BY <1>1, <1>2, <2>1 DEF LinksThen
    <2>2. CASE d2 # d
      BY <1>1, <1>2, <2>2 DEF LinksThen
    <2>3. QED
      BY <2>1, <2>2
  <1>4. ASSUME NEW l, l \in LinksOf(r) \/ l \in L
        PROVE  \E d2 \in Inos, n2 \in Names, i2 \in Inos : l = <<d2, n2, i2>>
    <2>1. CASE l \in LinksOf(r)
      BY <1>1, <2>1, LinksIs
    <2>2. CASE l \in L
      BY <2>2
    <2>3. QED
      BY <1>4, <2>1, <2>2
  <1>5. LinksOf(r) = L
    <2>1. \A l : l \in LinksOf(r) <=> l \in L
      BY <1>3, <1>4
    <2>2. QED
      BY <2>1
  <1>6. QED
    BY <1>5 DEF r
-----------------------------------------------------------------------------
(* How the counts of links change with one link more.                      *)
OneMore(L, l, K) == IsFiniteSet(L) /\ l \notin L /\ K = L \cup {l}

(* The links to an inode and its subdirectories, counted after the link    *)
(* came.                                                                   *)
LEMMA CountAdd ==
  ASSUME NEW L, NEW D, NEW l, NEW j, NEW K, OneMore(L, l, K)
  PROVE  /\ IsFiniteSet(K)
         /\ Cardinality(LinksIn(L, j)) \in Nat /\ Cardinality(SubsIn(L, D, j)) \in Nat
         /\ Cardinality(LinksIn(K, j)) =
              Cardinality(LinksIn(L, j)) + IF j = l[3] THEN 1 ELSE 0
         /\ Cardinality(SubsIn(K, D, j)) =
              Cardinality(SubsIn(L, D, j)) + IF j = l[1] /\ l[3] \in D THEN 1 ELSE 0
  <1> DEFINE A == LinksIn(L, j)
             B == SubsIn(L, D, j)
             A2 == LinksIn(K, j)
             B2 == SubsIn(K, D, j)
  <1>1. IsFiniteSet(L) /\ l \notin L /\ K = L \cup {l}
    BY DEF OneMore
  <1>2. IsFiniteSet(A) /\ IsFiniteSet(B)
    BY <1>1, FS_Subset DEF LinksIn, SubsIn
  <1>3. Cardinality(A) \in Nat /\ Cardinality(B) \in Nat
    BY <1>2, FS_CardinalityType
  <1>4. IsFiniteSet(K)
    BY <1>1, FS_AddElement
  <1>5. /\ A2 = IF j = l[3] THEN A \cup {l} ELSE A
        /\ B2 = IF j = l[1] /\ l[3] \in D THEN B \cup {l} ELSE B
    BY <1>1 DEF LinksIn, SubsIn
  <1>6. l \notin A /\ l \notin B
    BY <1>1 DEF LinksIn, SubsIn
  <1> HIDE DEF A, B, A2, B2
  <1>7. /\ Cardinality(A \cup {l}) = Cardinality(A) + 1
        /\ Cardinality(B \cup {l}) = Cardinality(B) + 1
    BY <1>2, <1>6, FS_AddElement
  <1>8. /\ Cardinality(A2) = Cardinality(A) + IF j = l[3] THEN 1 ELSE 0
        /\ Cardinality(B2) = Cardinality(B) + IF j = l[1] /\ l[3] \in D THEN 1 ELSE 0
    BY <1>3, <1>5, <1>7
  <1>9. QED
    BY <1>3, <1>4, <1>8 DEF A, B, A2, B2

-----------------------------------------------------------------------------
TreeBase(nd) ==
  /\ NodesOk(nd)
  /\ LinksOk(nd, LinksOf(nd))
  /\ \A i \in Inos : nd[i].live => NlinkOk(nd[i], i, LinksOf(nd), DirsOf(nd))

(* What does not change with links.                                        *)
SameNodes(nd, r) ==
  \A j \in Inos : /\ r[j].live = nd[j].live /\ r[j].kind = nd[j].kind
                  /\ r[j].xattr = nd[j].xattr
                  /\ IsDir(r[j]) <=> IsDir(nd[j])

(* The dirents of P are where they were in Q.                              *)
Grows(P, Q) == \A x \in Places(P) : x \in Places(Q) /\ At(Q, x) = At(P, x)

(* ... those of them that are there.                                       *)
Stays(P, Q) ==
  \A x \in Places(P) : At(P, x) \in Dirents(Q) => x \in Places(Q) /\ At(Q, x) = At(P, x)

(* Dirents that grow and then stay, stay.                                  *)
LEMMA GrowsStays ==
  ASSUME NEW P, NEW Q, NEW R, Grows(P, Q), Stays(Q, R)
  PROVE  Stays(P, R)
  BY DEF Grows, Stays

(* Dirents that grow stay.                                                 *)
LEMMA GrowsIsStays ==
  ASSUME NEW P, NEW Q, Grows(P, Q)
  PROVE  Stays(P, Q)
  BY DEF Grows, Stays

(* No dirent has the name.                                                 *)
NoName(nd, d, n) == \A i \in Inos : <<d, n, i>> \notin LinksOf(nd)

(* Then no place of the directory holds it.                                *)
LEMMA NoNameIs ==
  ASSUME NEW nd, NodesOk(nd), NEW d \in Inos, NEW n \in Names, NoName(nd, d, n)
  PROVE  \A x \in Places(nd[d].pages) : At(nd[d].pages, x).n # n
  <1> SUFFICES ASSUME NEW x \in Places(nd[d].pages), At(nd[d].pages, x).n = n PROVE FALSE
    OBVIOUS
  <1>1. DirOk(nd[d].pages)
    BY DEF NodesOk, NodeOk
  <1>2. /\ At(nd[d].pages, x) = Dirent(n, At(nd[d].pages, x).i)
        /\ At(nd[d].pages, x).i \in Inos
    BY <1>1, PlacesFacts
  <1>3. <<d, n, At(nd[d].pages, x).i>> \in LinksOf(nd)
    BY <1>2, LinksIs DEF HasLink
  <1>4. QED
    BY <1>2, <1>3 DEF NoName

(* Facts about one inode.                                                  *)
LEMMA NodeFacts ==
  ASSUME NEW nd, NodesOk(nd), NEW j \in Inos
  PROVE  /\ nd[j].nlink \in Nat /\ nd[j].size \in Nat
         /\ ~nd[j].live => nd[j].nlink = 0 /\ nd[j].pages = <<>> /\ nd[j].size = 0
         /\ DirOk(nd[j].pages) /\ Len(nd[j].pages) \in Nat
         /\ nd[j].size = Cardinality(Places(nd[j].pages))
         /\ IsFiniteSet(Places(nd[j].pages))
  <1>1. nd[j] \in NodeRecs /\ NodeOk(nd[j])
    BY DEF NodesOk
  <1>2. nd[j].nlink \in Nat /\ nd[j].size \in Nat
    BY <1>1, NodeFields
  <1>3. QED
    BY <1>1, <1>2, PlacesFacts DEF NodeOk, NoNode

(* What an inode and a directory are, when the one is linked to the other.  *)
CanLink(nd, d, n, i) ==
  /\ d # i /\ i # Root
  /\ nd[d].live /\ IsDir(nd[d]) /\ nd[d].nlink > 0
  /\ nd[i].live /\ (IsDir(nd[i]) => nd[i].nlink > 0)
  /\ NoName(nd, d, n)

(* The inodes before and after a dirent is added.                          *)
WithLink(nd, d, n, i, r) ==
  /\ TreeBase(r) /\ SameNodes(nd, r) /\ DirsOf(r) = DirsOf(nd)
  /\ LinksOf(r) = LinksOf(nd) \cup {<<d, n, i>>}
  /\ \A j \in Inos :
       /\ r[j].nlink = nd[j].nlink + IF j = i \/ (j = d /\ IsDir(nd[i])) THEN 1 ELSE 0
       /\ j # d => r[j].size = nd[j].size /\ r[j].pages = nd[j].pages
       /\ Grows(nd[j].pages, r[j].pages)
       /\ Len(r[j].pages) = Len(nd[j].pages) + IF j = d /\ NoRoom(nd[d].pages, n) THEN 1 ELSE 0

IsAdd(nd, m, d, n, i, a) ==
  /\ WithLink(nd, d, n, i, a.nd)
  /\ a.m = IF NoRoom(nd[d].pages, n) THEN AcquirePmemb(m) ELSE m

(* A dirent is added: the counts stay exact.                               *)
LEMMA AddKeeps ==
  ASSUME NEW nd, TreeBase(nd), NEW m, NEW d \in Inos, NEW n \in Names, NEW i \in Inos,
         CanLink(nd, d, n, i)
  PROVE  IsAdd(nd, m, d, n, i, AddDirent(nd, m, d, n, i))
  <1> DEFINE r == AddDirent(nd, m, d, n, i).nd
             pages == nd[d].pages
             P == Added(pages, n, i)
             N == [j \in Inos |-> nd[j].nlink + IF j = i \/ (j = d /\ IsDir(nd[i])) THEN 1 ELSE 0]
             L == LinksOf(nd)
             D == DirsOf(nd)
             l == <<d, n, i>>
             K == L \cup {l}
  <1>1. /\ d # i /\ i # Root
        /\ nd[d].live /\ IsDir(nd[d]) /\ nd[d].nlink > 0
        /\ nd[i].live /\ (IsDir(nd[i]) => nd[i].nlink > 0)
        /\ NoName(nd, d, n)
    BY DEF CanLink
  <1>2. NodesOk(nd) /\ LinksOk(nd, L) /\ IsFiniteSet(L)
    BY DEF TreeBase, LinksOk
  <1>3. \A j \in Inos : /\ nd[j].nlink \in Nat /\ nd[j].size \in Nat /\ DirOk(nd[j].pages)
                        /\ ~nd[j].live => nd[j].nlink = 0
                        /\ nd[j].size = Cardinality(Places(nd[j].pages))
                        /\ Len(nd[j].pages) \in Nat
    BY <1>2, NodeFacts
  <1>4. /\ \A x \in Places(pages) : At(pages, x).n # n
        /\ DirOk(pages) /\ IsFiniteSet(Places(pages)) /\ nd[d].size = Cardinality(Places(pages))
    <2>1. \A x \in Places(pages) : At(pages, x).n # n
      BY <1>1, <1>2, NoNameIs
    <2>2. DirOk(pages) /\ IsFiniteSet(Places(pages)) /\ nd[d].size = Cardinality(Places(pages))
      BY <1>2, NodeFacts
    <2>3. QED
      BY <2>1, <2>2
  <1> HIDE DEF pages
  <1>5. /\ DirOk(P) /\ Len(P) = Len(pages) + IF NoRoom(pages, n) THEN 1 ELSE 0
        /\ AddedAt(pages, n) \notin Places(pages)
        /\ Places(P) = Places(pages) \cup {AddedAt(pages, n)}
        /\ At(P, AddedAt(pages, n)) = Dirent(n, i)
        /\ \A x \in Places(pages) : At(P, x) = At(pages, x)
    BY <1>4, AddedIs
  <1>6. \A n2 \in Names, i2 \in Inos : HasLink(P, n2, i2)
            <=> HasLink(pages, n2, i2) \/ (n2 = n /\ i2 = i)
    BY <1>4, AddedLinks
  <1>7. Cardinality(Places(P)) = nd[d].size + 1
    <2> DEFINE S == Places(pages)
               x == AddedAt(pages, n)
    <2>1. IsFiniteSet(S) /\ x \notin S /\ nd[d].size = Cardinality(S) /\ Places(P) = S \cup {x}
      BY <1>4, <1>5
    <2> HIDE DEF S, x, P
    <2>2. QED
      BY <2>1, FS_AddElement
  <1>8. /\ r = [j \in Inos |->
                 Upd(nd[j], nd[j].nlink + IF j = i \/ (j = d /\ IsDir(nd[i])) THEN 1 ELSE 0,
                     nd[j].size + IF j = d THEN 1 ELSE 0,
                     IF j = d THEN P ELSE nd[j].pages)]
        /\ AddDirent(nd, m, d, n, i).m = IF NoRoom(pages, n) THEN AcquirePmemb(m) ELSE m
    BY <1>1, <1>2, AddDirentIs DEF pages
  <1>9. N \in [Inos -> Nat] /\ \A j \in Inos : ~nd[j].live => N[j] = 0
    BY <1>1, <1>3
  <1>10. r = Changed(nd, N, d, P)
    <2>1. \A j \in Inos : /\ N[j] = nd[j].nlink + IF j = i \/ (j = d /\ IsDir(nd[i])) THEN 1 ELSE 0
                          /\ (nd[j].size + IF j = d THEN 1 ELSE 0) =
                               IF j = d THEN Cardinality(Places(P)) ELSE nd[j].size
      BY <1>3, <1>7
    <2> HIDE DEF r, P, N
    <2>2. QED
      BY <1>8, <2>1 DEF Changed
  <1>11. \A j \in Inos : N[j] = nd[j].nlink + IF j = i \/ (j = d /\ IsDir(nd[i])) THEN 1 ELSE 0
    OBVIOUS
  <1> HIDE DEF r, P, N
  <1>12. /\ NodesOk(r) /\ DirsOf(r) = DirsOf(nd)
         /\ \A j \in Inos : /\ r[j].live = nd[j].live /\ r[j].kind = nd[j].kind
                            /\ r[j].xattr = nd[j].xattr /\ r[j].nlink = N[j]
                            /\ r[j].pages = IF j = d THEN P ELSE nd[j].pages
                            /\ IsDir(r[j]) <=> IsDir(nd[j])
    BY <1>1, <1>2, <1>5, <1>9, <1>10, ChangedIs
  <1>13. \A j \in Inos : r[j].size = IF j = d THEN nd[d].size + 1 ELSE nd[j].size
    BY <1>3, <1>7, <1>12, NodeFacts
  <1>14. LinksOf(r) = K /\ l \notin L
    <2>1. \A l2 \in L : l2 \in Inos \X Names \X Inos
      BY <1>2, LinksIs
    <2>2. K \in SUBSET (Inos \X Names \X Inos)
      BY <2>1
    <2>3. \A d2 \in Inos, n2 \in Names, i2 \in Inos : <<d2, n2, i2>> \in L
              <=> HasLink(nd[d2].pages, n2, i2)
      BY <1>2, LinksIs
    <2>4. ASSUME NEW d2 \in Inos, NEW n2 \in Names, NEW i2 \in Inos
          PROVE  <<d2, n2, i2>> \in K <=>
                   IF d2 = d THEN HasLink(P, n2, i2) ELSE <<d2, n2, i2>> \in LinksOf(nd)
      BY <1>6, <2>3 DEF pages
    <2>5. l \notin L
      BY <1>1 DEF NoName
    <2> HIDE DEF L, l, K
    <2>6. LinksThen(nd, d, P, K)
      BY <2>4 DEF LinksThen
    <2>7. DirOk(P) /\ nd[d].live /\ IsDir(nd[d]) /\ NodesOk(nd)
      BY <1>1, <1>2, <1>5
    <2>8. LinksOf(Changed(nd, N, d, P)) = K
      BY <1>9, <2>2, <2>6, <2>7, ChangedLinks
    <2>9. QED
      BY <1>10, <2>5, <2>8
  <1>15. LinksOk(r, K)
    <2>1. \A l2 \in L : l2[3] \in Inos
      BY <1>2, LinksIs
    <2>2. IsFiniteSet(K)
      BY <1>2, FS_AddElement
    <2>3. QED
      BY <1>1, <1>2, <1>12, <2>1, <2>2 DEF LinksOk
  <1>16. ASSUME NEW j \in Inos, r[j].live
         PROVE  NlinkOk(r[j], j, K, D)
    <2>1. NlinkOk(nd[j], j, L, D)
      BY <1>12, <1>16 DEF TreeBase
    <2>2. l[1] = d /\ l[3] = i
      OBVIOUS
    <2>3. i \in D <=> IsDir(nd[i])
      BY DEF DirsOf
    <2> DEFINE a == Cardinality(LinksIn(L, j))
               b == Cardinality(SubsIn(L, D, j))
    <2> HIDE DEF L, D, l
    <2>4. OneMore(L, l, K)
      BY <1>2, <1>14 DEF OneMore
    <2> HIDE DEF K
    <2>5. /\ a \in Nat /\ b \in Nat
          /\ Cardinality(LinksIn(K, j)) = a + IF j = l[3] THEN 1 ELSE 0
          /\ Cardinality(SubsIn(K, D, j)) = b + IF j = l[1] /\ l[3] \in D THEN 1 ELSE 0
      <3> HIDE DEF r, P, N, pages
      <3>1. QED
        BY <2>4, CountAdd
    <2>6. nd[j].nlink = a + IF ~IsDir(nd[j]) \/ (nd[j].nlink = 0 /\ nd[j].size = 0) THEN 0
                            ELSE b + IF j = Root THEN 2 ELSE 1
      BY <2>1 DEF NlinkOk
    <2> HIDE DEF a, b, K
    <2>7. /\ nd[j].nlink \in Nat /\ nd[j].size \in Nat /\ (IsDir(r[j]) <=> IsDir(nd[j]))
          /\ r[j].nlink = nd[j].nlink + IF j = i \/ (j = d /\ IsDir(nd[i])) THEN 1 ELSE 0
          /\ r[j].size = IF j = d THEN nd[d].size + 1 ELSE nd[j].size
      BY <1>3, <1>11, <1>12, <1>13
    <2>8. SUFFICES r[j].nlink = Cardinality(LinksIn(K, j))
              + IF ~IsDir(r[j]) \/ (r[j].nlink = 0 /\ r[j].size = 0) THEN 0
                ELSE Cardinality(SubsIn(K, D, j)) + IF j = Root THEN 2 ELSE 1
      BY DEF NlinkOk
    <2>9. CASE j = i
      BY <1>1, <2>2, <2>3, <2>5, <2>6, <2>7, <2>9
    <2>10. CASE j = d
      BY <1>1, <2>2, <2>3, <2>5, <2>6, <2>7, <2>10
    <2>11. CASE j # i /\ j # d
      BY <2>2, <2>3, <2>5, <2>6, <2>7, <2>11
    <2>12. QED
      BY <2>9, <2>10, <2>11
  <1>17. TreeBase(r)
    BY <1>12, <1>14, <1>15, <1>16 DEF TreeBase
  <1>18. ASSUME NEW j \in Inos
         PROVE  /\ j # d => r[j].size = nd[j].size /\ r[j].pages = nd[j].pages
                /\ Grows(nd[j].pages, r[j].pages)
                /\ Len(r[j].pages) = Len(nd[j].pages) + IF j = d /\ NoRoom(pages, n) THEN 1 ELSE 0
    <2>1. CASE j = d
      BY <1>5, <1>12, <2>1 DEF Grows, pages
    <2>2. CASE j # d
      BY <1>3, <1>12, <1>13, <2>2 DEF Grows
    <2>3. QED
      BY <2>1, <2>2
  <1>19. SameNodes(nd, r)
    BY <1>12 DEF SameNodes
  <1>20. \A j \in Inos : r[j].nlink =
             nd[j].nlink + IF j = i \/ (j = d /\ IsDir(nd[i])) THEN 1 ELSE 0
    BY <1>11, <1>12
  <1> HIDE DEF L, D, l
  <1>21. WithLink(nd, d, n, i, r)
    BY <1>12, <1>14, <1>17, <1>18, <1>19, <1>20 DEF WithLink, pages, K, L, D, l
  <1>22. QED
    BY <1>8, <1>21 DEF r, pages, IsAdd
-----------------------------------------------------------------------------
(* A dirent is removed, and k links of its inode.                          *)
Lessened(nd, d, n, i, k) ==
  [j \in Inos |-> Upd(nd[j],
                      nd[j].nlink - IF j = i THEN k ELSE IF j = d /\ IsDir(nd[i]) THEN 1 ELSE 0,
                      nd[j].size - IF j = d THEN 1 ELSE 0,
                      IF j = d THEN Removed(nd[d].pages, n) ELSE nd[j].pages)]

(* What a link says about its two ends.                                    *)
LEMMA LinkEnds ==
  ASSUME NEW nd, TreeBase(nd), NEW d \in Inos, NEW n \in Names, NEW i \in Inos,
         <<d, n, i>> \in LinksOf(nd)
  PROVE  /\ d # i /\ i # Root /\ nd[d].live /\ nd[i].live /\ IsDir(nd[d])
         /\ HasLink(nd[d].pages, n, i) /\ nd[d].size > 0
         /\ nd[i].nlink > 0 /\ (IsDir(nd[i]) => nd[i].nlink >= 2 /\ nd[d].nlink >= 2)
  <1> DEFINE L == LinksOf(nd)
             D == DirsOf(nd)
             l == <<d, n, i>>
             K == L \ {l}
             pages == nd[d].pages
  <1>1. NodesOk(nd) /\ LinksOk(nd, L) /\ IsFiniteSet(L)
    BY DEF TreeBase, LinksOk
  <1>2. d # i /\ i # Root /\ nd[i].live
    BY <1>1 DEF LinksOk
  <1>3. HasLink(pages, n, i)
    BY <1>1, LinksIs
  <1>4. Places(pages) # {}
    BY <1>3 DEF HasLink
  <1>5. /\ nd[d].size = Cardinality(Places(pages)) /\ IsFiniteSet(Places(pages))
        /\ nd[d].size \in Nat
        /\ nd[d].nlink \in Nat /\ nd[i].nlink \in Nat /\ nd[i].size \in Nat
    BY <1>1, NodeFacts
  <1>6. nd[d].size > 0
    BY <1>4, <1>5, FS_EmptySet
  <1>7. nd[d].live /\ IsDir(nd[d])
    BY <1>1, <1>4, NoPagesIs DEF NodesOk, NodeOk, NoNode
  <1>8. NlinkOk(nd[i], i, L, D) /\ NlinkOk(nd[d], d, L, D)
    BY <1>2, <1>7 DEF TreeBase
  <1>9. i \in D <=> IsDir(nd[i])
    BY DEF DirsOf
  <1>10. l[1] = d /\ l[3] = i /\ l \in L
    OBVIOUS
  <1>11. OneMore(K, l, L)
    BY <1>1, <1>10, FS_RemoveElement DEF OneMore
  <1> HIDE DEF L, D, l, K, pages
  <1>12. \A j : /\ Cardinality(LinksIn(K, j)) \in Nat /\ Cardinality(SubsIn(K, D, j)) \in Nat
                /\ Cardinality(LinksIn(L, j)) =
                     Cardinality(LinksIn(K, j)) + IF j = l[3] THEN 1 ELSE 0
                /\ Cardinality(SubsIn(L, D, j)) =
                     Cardinality(SubsIn(K, D, j)) + IF j = l[1] /\ l[3] \in D THEN 1 ELSE 0
    <2> SUFFICES ASSUME NEW j
                 PROVE  /\ Cardinality(LinksIn(K, j)) \in Nat
                        /\ Cardinality(SubsIn(K, D, j)) \in Nat
                        /\ Cardinality(LinksIn(L, j)) =
                             Cardinality(LinksIn(K, j)) + IF j = l[3] THEN 1 ELSE 0
                        /\ Cardinality(SubsIn(L, D, j)) =
                             Cardinality(SubsIn(K, D, j)) + IF j = l[1] /\ l[3] \in D THEN 1 ELSE 0
      OBVIOUS
    <2>1. QED
      BY <1>11, CountAdd
  <1>13. /\ Cardinality(LinksIn(K, i)) \in Nat /\ Cardinality(SubsIn(K, D, i)) \in Nat
         /\ Cardinality(LinksIn(L, i)) = Cardinality(LinksIn(K, i)) + 1
         /\ Cardinality(SubsIn(L, D, i)) = Cardinality(SubsIn(K, D, i))
    BY <1>2, <1>10, <1>12
  <1>14. /\ Cardinality(LinksIn(K, d)) \in Nat /\ Cardinality(SubsIn(K, D, d)) \in Nat
         /\ Cardinality(LinksIn(L, d)) = Cardinality(LinksIn(K, d))
         /\ IsDir(nd[i]) => Cardinality(SubsIn(L, D, d)) = Cardinality(SubsIn(K, D, d)) + 1
    BY <1>2, <1>9, <1>10, <1>12
  <1>15. nd[i].nlink > 0 /\ (IsDir(nd[i]) => nd[i].nlink >= 2)
    BY <1>2, <1>5, <1>8, <1>13 DEF NlinkOk
  <1>16. IsDir(nd[i]) => nd[d].nlink >= 2
    BY <1>5, <1>6, <1>7, <1>8, <1>14 DEF NlinkOk
  <1>17. QED
    BY <1>2, <1>3, <1>6, <1>7, <1>15, <1>16 DEF pages

(* A directory without entries has the two links that it counts itself.    *)
LEMMA EmptyDirLinks ==
  ASSUME NEW nd, TreeBase(nd), OneParent(LinksOf(nd), DirsOf(nd)),
         NEW d \in Inos, NEW n \in Names, NEW i \in Inos, <<d, n, i>> \in LinksOf(nd),
         IsDir(nd[i]), nd[i].size = 0
  PROVE  nd[i].nlink = 2 /\ Cardinality(LinksIn(LinksOf(nd), i)) = 1
  <1> DEFINE L == LinksOf(nd)
             D == DirsOf(nd)
             l == <<d, n, i>>
  <1>1. NodesOk(nd) /\ LinksOk(nd, L) /\ IsFiniteSet(L)
    BY DEF TreeBase, LinksOk
  <1>2. i # Root /\ nd[i].live /\ nd[i].nlink > 0 /\ nd[i].nlink \in Nat
    BY <1>1, LinkEnds, NodeFacts
  <1>3. NlinkOk(nd[i], i, L, D)
    BY <1>2 DEF TreeBase
  <1>4. i \in D /\ l \in L /\ l[3] = i
    BY DEF DirsOf
  <1>5. LinksIn(L, i) = {l}
    <2> HIDE DEF L, D, l
    <2>1. QED
      BY <1>4 DEF OneParent, LinksIn, L, D
  <1>6. Places(nd[i].pages) = {}
    BY <1>1, NodeFacts, FS_EmptySet
  <1>7. \A m \in L : m[1] # i
    <2> SUFFICES ASSUME NEW m \in L, m[1] = i PROVE FALSE
      OBVIOUS
    <2>1. m = <<i, m[2], m[3]>> /\ m[2] \in Names /\ m[3] \in Inos
      BY <1>1, LinksIs
    <2>2. HasLink(nd[i].pages, m[2], m[3])
      BY <1>1, <2>1, LinksIs
    <2>3. QED
      BY <1>6, <2>2 DEF HasLink
  <1>8. SubsIn(L, D, i) = {}
    BY <1>7 DEF SubsIn
  <1>9. Cardinality(LinksIn(L, i)) = 1 /\ Cardinality(SubsIn(L, D, i)) = 0
    BY <1>5, <1>8, FS_EmptySet, FS_Singleton
  <1>10. QED
    BY <1>2, <1>3, <1>9 DEF NlinkOk

(* A dirent is removed: the counts stay exact.                             *)
LEMMA DropKeeps ==
  ASSUME NEW nd, TreeBase(nd), NEW d \in Inos, NEW n \in Names, NEW i \in Inos,
         <<d, n, i>> \in LinksOf(nd), NEW k \in {1, 2},
         k = 2 => IsDir(nd[i]) /\ nd[i].size = 0 /\ OneParent(LinksOf(nd), DirsOf(nd))
  PROVE  LET r == Lessened(nd, d, n, i, k) IN
         /\ TreeBase(r) /\ SameNodes(nd, r) /\ DirsOf(r) = DirsOf(nd)
         /\ LinksOf(r) = LinksOf(nd) \ {<<d, n, i>>}
         /\ \A j \in Inos :
              /\ r[j].nlink = nd[j].nlink - IF j = i THEN k
                                            ELSE IF j = d /\ IsDir(nd[i]) THEN 1 ELSE 0
              /\ j # d => r[j].size = nd[j].size /\ r[j].pages = nd[j].pages
              /\ Stays(nd[j].pages, r[j].pages)
              /\ Len(r[j].pages) = Len(nd[j].pages)
  <1> DEFINE r == Lessened(nd, d, n, i, k)
             pages == nd[d].pages
             P == Removed(pages, n)
             N == [j \in Inos |-> nd[j].nlink - IF j = i THEN k
                                                ELSE IF j = d /\ IsDir(nd[i]) THEN 1 ELSE 0]
             L == LinksOf(nd)
             D == DirsOf(nd)
             l == <<d, n, i>>
             K == L \ {l}
             at == LookupDirent(pages, n)
  <1>1. NodesOk(nd) /\ LinksOk(nd, L) /\ IsFiniteSet(L)
    BY DEF TreeBase, LinksOk
  <1>2. \A j \in Inos : /\ nd[j].nlink \in Nat /\ nd[j].size \in Nat /\ DirOk(nd[j].pages)
                        /\ ~nd[j].live => nd[j].nlink = 0
                        /\ nd[j].size = Cardinality(Places(nd[j].pages))
                        /\ Len(nd[j].pages) \in Nat
    BY <1>1, NodeFacts
  <1>3. /\ d # i /\ i # Root /\ nd[d].live /\ nd[i].live /\ IsDir(nd[d])
        /\ HasLink(pages, n, i) /\ nd[d].size > 0
        /\ nd[i].nlink > 0 /\ (IsDir(nd[i]) => nd[i].nlink >= 2 /\ nd[d].nlink >= 2)
    BY LinkEnds
  <1>4. DirOk(pages) /\ IsFiniteSet(Places(pages)) /\ nd[d].size = Cardinality(Places(pages))
    BY <1>1, NodeFacts
  <1>5. k = 2 => nd[i].nlink = 2
    BY EmptyDirLinks
  <1> HIDE DEF pages
  <1>6. /\ DirOk(P) /\ Len(P) = Len(pages)
        /\ at \in Places(pages)
        /\ At(pages, at) = Dirent(n, i)
        /\ Places(P) = Places(pages) \ {at}
        /\ \A x \in Places(P) : At(P, x) = At(pages, x)
    BY <1>3, <1>4, RemovedIs
  <1>7. \A n2 \in Names, i2 \in Inos : HasLink(P, n2, i2)
            <=> HasLink(pages, n2, i2) /\ ~(n2 = n /\ i2 = i)
    BY <1>3, <1>4, RemovedLinks
  <1>8. Cardinality(Places(P)) = nd[d].size - 1
    <2> DEFINE S == Places(pages)
    <2>1. IsFiniteSet(S) /\ at \in S /\ nd[d].size = Cardinality(S) /\ Places(P) = S \ {at}
      BY <1>4, <1>6
    <2> HIDE DEF S, at, P
    <2>2. QED
      BY <2>1, FS_RemoveElement
  <1> HIDE DEF at
  <1>9. N \in [Inos -> Nat] /\ \A j \in Inos : ~nd[j].live => N[j] = 0
    <2>1. ASSUME NEW j \in Inos PROVE N[j] \in Nat /\ (~nd[j].live => N[j] = 0)
      BY <1>2, <1>3
    <2>2. N = [j \in Inos |-> N[j]]
      OBVIOUS
    <2> HIDE DEF N
    <2>3. QED
      BY <2>1, <2>2
  <1>10. r = Changed(nd, N, d, P)
    <2>1. \A j \in Inos : /\ N[j] = nd[j].nlink - IF j = i THEN k
                                                  ELSE IF j = d /\ IsDir(nd[i]) THEN 1 ELSE 0
                          /\ (nd[j].size - IF j = d THEN 1 ELSE 0) =
                               IF j = d THEN Cardinality(Places(P)) ELSE nd[j].size
      BY <1>2, <1>8
    <2>2. r = [j \in Inos |-> Upd(nd[j],
                      nd[j].nlink - IF j = i THEN k ELSE IF j = d /\ IsDir(nd[i]) THEN 1 ELSE 0,
                      nd[j].size - IF j = d THEN 1 ELSE 0,
                      IF j = d THEN P ELSE nd[j].pages)]
      BY DEF Lessened, pages
    <2> HIDE DEF r, P, N
    <2>3. QED
      BY <2>1, <2>2 DEF Changed
  <1>11. \A j \in Inos : N[j] = nd[j].nlink - IF j = i THEN k
                                              ELSE IF j = d /\ IsDir(nd[i]) THEN 1 ELSE 0
    OBVIOUS
  <1> HIDE DEF r, P, N
  <1>12. /\ NodesOk(r) /\ DirsOf(r) = DirsOf(nd)
         /\ \A j \in Inos : /\ r[j].live = nd[j].live /\ r[j].kind = nd[j].kind
                            /\ r[j].xattr = nd[j].xattr /\ r[j].nlink = N[j]
                            /\ r[j].pages = IF j = d THEN P ELSE nd[j].pages
                            /\ IsDir(r[j]) <=> IsDir(nd[j])
    BY <1>1, <1>3, <1>6, <1>9, <1>10, ChangedIs
  <1>13. \A j \in Inos : r[j].size = IF j = d THEN nd[d].size - 1 ELSE nd[j].size
    BY <1>2, <1>8, <1>12, NodeFacts
  <1>14. LinksOf(r) = K
    <2>1. \A l2 \in L : l2 \in Inos \X Names \X Inos
      BY <1>1, LinksIs
    <2>2. K \in SUBSET (Inos \X Names \X Inos)
      BY <2>1
    <2>3. \A d2 \in Inos, n2 \in Names, i2 \in Inos : <<d2, n2, i2>> \in L
              <=> HasLink(nd[d2].pages, n2, i2)
      BY <1>1, LinksIs
    <2>4. ASSUME NEW d2 \in Inos, NEW n2 \in Names, NEW i2 \in Inos
          PROVE  <<d2, n2, i2>> \in K <=>
                   IF d2 = d THEN HasLink(P, n2, i2) ELSE <<d2, n2, i2>> \in LinksOf(nd)
      BY <1>7, <2>3 DEF pages
    <2> HIDE DEF L, l, K
    <2>5. LinksThen(nd, d, P, K)
      BY <2>4 DEF LinksThen
    <2>6. DirOk(P) /\ nd[d].live /\ IsDir(nd[d]) /\ NodesOk(nd)
      BY <1>1, <1>3, <1>6
    <2>7. LinksOf(Changed(nd, N, d, P)) = K
      BY <1>9, <2>2, <2>5, <2>6, ChangedLinks
    <2>8. QED
      BY <1>10, <2>7
  <1>15. LinksOk(r, K)
    <2>1. \A l2 \in L : l2[3] \in Inos
      BY <1>1, LinksIs
    <2>2. IsFiniteSet(K)
      BY <1>1, FS_RemoveElement
    <2>3. QED
      BY <1>1, <1>12, <2>1, <2>2 DEF LinksOk
  <1>16. OneMore(K, l, L)
    BY <1>1, FS_RemoveElement DEF OneMore
  <1>17. ASSUME NEW j \in Inos, r[j].live
         PROVE  NlinkOk(r[j], j, K, D)
    <2>1. NlinkOk(nd[j], j, L, D)
      BY <1>12, <1>17 DEF TreeBase
    <2>2. l[1] = d /\ l[3] = i
      OBVIOUS
    <2>3. i \in D <=> IsDir(nd[i])
      BY DEF DirsOf
    <2> DEFINE a == Cardinality(LinksIn(K, j))
               b == Cardinality(SubsIn(K, D, j))
    <2>4. k = 2 => Cardinality(LinksIn(L, i)) = 1
      BY EmptyDirLinks
    <2> HIDE DEF L, D, l, K
    <2>5. /\ a \in Nat /\ b \in Nat
          /\ Cardinality(LinksIn(L, j)) = a + IF j = l[3] THEN 1 ELSE 0
          /\ Cardinality(SubsIn(L, D, j)) = b + IF j = l[1] /\ l[3] \in D THEN 1 ELSE 0
      BY <1>16, CountAdd
    <2>6. nd[j].nlink = Cardinality(LinksIn(L, j))
                          + IF ~IsDir(nd[j]) \/ (nd[j].nlink = 0 /\ nd[j].size = 0) THEN 0
                            ELSE Cardinality(SubsIn(L, D, j)) + IF j = Root THEN 2 ELSE 1
      BY <2>1 DEF NlinkOk
    <2>7. SUFFICES r[j].nlink = a + IF ~IsDir(r[j]) \/ (r[j].nlink = 0 /\ r[j].size = 0) THEN 0
                                    ELSE b + IF j = Root THEN 2 ELSE 1
      BY DEF NlinkOk
    <2> HIDE DEF a, b
    <2>8. /\ nd[j].nlink \in Nat /\ nd[j].size \in Nat /\ (IsDir(r[j]) <=> IsDir(nd[j]))
          /\ r[j].nlink = nd[j].nlink - IF j = i THEN k
                                        ELSE IF j = d /\ IsDir(nd[i]) THEN 1 ELSE 0
          /\ r[j].size = IF j = d THEN nd[d].size - 1 ELSE nd[j].size
      BY <1>2, <1>11, <1>12, <1>13
    <2>9. CASE j = i /\ k = 1
      BY <1>3, <2>2, <2>3, <2>5, <2>6, <2>8, <2>9
    <2>10. CASE j = i /\ k = 2
      BY <1>3, <1>5, <2>4, <2>2, <2>3, <2>5, <2>6, <2>8, <2>10
    <2>11. CASE j = d
      BY <1>3, <2>2, <2>3, <2>5, <2>6, <2>8, <2>11
    <2>12. CASE j # i /\ j # d
      BY <2>2, <2>3, <2>5, <2>6, <2>8, <2>12
    <2>13. QED
      BY <2>9, <2>10, <2>11, <2>12
  <1>18. TreeBase(r)
    BY <1>12, <1>14, <1>15, <1>17 DEF TreeBase
  <1>19. ASSUME NEW j \in Inos
         PROVE  /\ j # d => r[j].size = nd[j].size /\ r[j].pages = nd[j].pages
                /\ Stays(nd[j].pages, r[j].pages)
                /\ Len(r[j].pages) = Len(nd[j].pages)
    <2>1. CASE j = d
      <3>1. Stays(pages, P)
        BY <1>6, <1>4 DEF Stays, Dirents, DirOk
      <3>2. QED
        BY <1>6, <1>12, <2>1, <3>1 DEF pages
    <2>2. CASE j # d
      BY <1>2, <1>12, <1>13, <2>2 DEF Stays
    <2>3. QED
      BY <2>1, <2>2
  <1>20. SameNodes(nd, r)
    BY <1>12 DEF SameNodes
  <1>21. \A j \in Inos : r[j].nlink = nd[j].nlink - IF j = i THEN k
                                                    ELSE IF j = d /\ IsDir(nd[i]) THEN 1 ELSE 0
    BY <1>11, <1>12
  <1> HIDE DEF L, D, l
  <1>22. QED
    BY <1>12, <1>14, <1>18, <1>19, <1>20, <1>21 DEF r, pages, K, L, D, l
-----------------------------------------------------------------------------
(* toyfs_remove_dentry of an inode, or of a directory without entries.     *)
LEMMA UnlinkIs ==
  ASSUME NEW nd, TreeInv(nd), NEW d \in Inos, NEW n \in Names, NEW i \in Inos,
         <<d, n, i>> \in LinksOf(nd), IsDir(nd[i]) => nd[i].size = 0
  PROVE  ForceFree(RemoveDirent(nd, d, n, i), i) =
           Lessened(nd, d, n, i, IF IsDir(nd[i]) THEN 2 ELSE 1)
  <1> DEFINE k == IF IsDir(nd[i]) THEN 2 ELSE 1
             x == RemoveDirent(nd, d, n, i)
             r == Lessened(nd, d, n, i, k)
  <1>1. NodesOk(nd) /\ TreeBase(nd) /\ OneParent(LinksOf(nd), DirsOf(nd))
    BY DEF TreeInv, TreeBase
  <1>2. d # i
    BY <1>1, LinkEnds
  <1>3. x = [j \in Inos |->
              Upd(nd[j],
                  nd[j].nlink - IF j = i THEN IF IsDir(nd[i]) THEN 2 ELSE 1
                                ELSE IF j = d /\ IsDir(nd[i]) THEN 1 ELSE 0,
                  nd[j].size - IF j = d THEN 1 ELSE 0,
                  IF j = d THEN Removed(nd[d].pages, n) ELSE nd[j].pages)]
    BY <1>1, <1>2, RemoveDirentIs
  <1>4. x = r
    <2> HIDE DEF x
    <2>1. QED
      BY <1>3 DEF Lessened
  <1> HIDE DEF x, r
  <1>5. IsDir(nd[i]) => nd[i].nlink = 2
    BY <1>1, EmptyDirLinks
  <1>6. nd[i].nlink \in Nat
    BY <1>1, NodeFacts
  <1>7. x[i].nlink = nd[i].nlink - k /\ x[i].kind = nd[i].kind
    BY <1>3, MkNodeIs DEF Upd
  <1>8. ~(IsDir(x[i]) /\ x[i].nlink = 1)
    BY <1>5, <1>6, <1>7 DEF IsDir
  <1>9. ForceFree(x, i) = x
    BY <1>8 DEF ForceFree
  <1>10. QED
    BY <1>4, <1>9 DEF x, r

(* toyfs_rename gives a directory the link back that it counts itself.     *)
GiveBack(x, i) == IF IsDir(x[i]) THEN [x EXCEPT ![i].nlink = @ + 1] ELSE x

(* The link that a renamed directory gets back.                            *)
LEMMA GiveBackIs ==
  ASSUME NEW nd, NodesOk(nd), NEW d \in Inos, NEW n \in Names, NEW i \in Inos, d # i
  PROVE  GiveBack(RemoveDirent(nd, d, n, i), i) = Lessened(nd, d, n, i, 1)
  <1> DEFINE S(j) == nd[j].size - IF j = d THEN 1 ELSE 0
             Q(j) == IF j = d THEN Removed(nd[d].pages, n) ELSE nd[j].pages
             N(j) == nd[j].nlink - IF j = i THEN IF IsDir(nd[i]) THEN 2 ELSE 1
                                   ELSE IF j = d /\ IsDir(nd[i]) THEN 1 ELSE 0
             M(j) == nd[j].nlink - IF j = i THEN 1 ELSE IF j = d /\ IsDir(nd[i]) THEN 1 ELSE 0
             x == RemoveDirent(nd, d, n, i)
  <1>1. x = [j \in Inos |-> Upd(nd[j], N(j), S(j), Q(j))]
    BY RemoveDirentIs
  <1>2. Lessened(nd, d, n, i, 1) = [j \in Inos |-> Upd(nd[j], M(j), S(j), Q(j))]
    BY DEF Lessened
  <1>3. nd[i].nlink \in Nat
    BY NodeFacts
  <1>4. \A j \in Inos : ~(j = i /\ IsDir(nd[i])) => N(j) = M(j)
    OBVIOUS
  <1>5. IsDir(nd[i]) => N(i) + 1 = M(i)
    BY <1>3
  <1> HIDE DEF x, N, M, S, Q
  <1>6. x[i] = Upd(nd[i], N(i), S(i), Q(i)) /\ (IsDir(x[i]) <=> IsDir(nd[i])) /\ x[i].nlink = N(i)
    BY <1>1, MkNodeIs DEF Upd, IsDir
  <1>7. CASE IsDir(nd[i])
    <2>1. GiveBack(x, i) = [x EXCEPT ![i] = [x[i] EXCEPT !.nlink = N(i) + 1]]
      BY <1>6, <1>7 DEF GiveBack
    <2>2. [x[i] EXCEPT !.nlink = N(i) + 1] = Upd(nd[i], M(i), S(i), Q(i))
      BY <1>5, <1>6, <1>7, UpdExcept
    <2>3. GiveBack(x, i) = [x EXCEPT ![i] = Upd(nd[i], M(i), S(i), Q(i))]
      BY <2>1, <2>2
    <2>4. [x EXCEPT ![i] = Upd(nd[i], M(i), S(i), Q(i))] =
              [j \in Inos |-> Upd(nd[j], M(j), S(j), Q(j))]
      BY <1>1, <1>4
    <2>5. QED
      BY <1>2, <2>3, <2>4 DEF x
  <1>8. CASE ~IsDir(nd[i])
    <2>1. GiveBack(x, i) = x
      BY <1>6, <1>8 DEF GiveBack
    <2>2. x = [j \in Inos |-> Upd(nd[j], M(j), S(j), Q(j))]
      BY <1>1, <1>4, <1>8
    <2>3. QED
      BY <1>2, <2>1, <2>2 DEF x
  <1>9. QED
    BY <1>7, <1>8
-----------------------------------------------------------------------------
(* Sets of links are equal when they have the same triples.                *)
LEMMA SameTriples ==
  ASSUME NEW A, NEW B,
         \A l \in A \cup B :
           l = <<l[1], l[2], l[3]>> /\ l[1] \in Inos /\ l[2] \in Names /\ l[3] \in Inos,
         \A d \in Inos, n \in Names, i \in Inos : <<d, n, i>> \in A <=> <<d, n, i>> \in B
  PROVE  A = B
  OBVIOUS

(* One inode is replaced by one with the same entries, and with the same   *)
(* kind if anything links to it.                                           *)
CanPut(nd, i, x) ==
  /\ x \in NodeRecs /\ NodeOk(x)
  /\ \A n \in Names, j \in Inos : HasLink(x.pages, n, j) <=> HasLink(nd[i].pages, n, j)
  /\ \/ \A l \in LinksOf(nd) : l[3] # i
     \/ x.live /\ (IsDir(x) <=> IsDir(nd[i]))
  /\ x.live => NlinkOk(x, i, LinksOf(nd), DirsOf(nd))

(* Such a change of one inode keeps the tree and all its links.            *)
LEMMA PutKeeps ==
  ASSUME NEW nd, TreeInv(nd), NEW i \in Inos, NEW x, CanPut(nd, i, x),
         NEW r, r = [nd EXCEPT ![i] = x]
  PROVE  TreeInv(r) /\ LinksOf(r) = LinksOf(nd)
  <1> DEFINE L == LinksOf(nd)
             D == DirsOf(nd)
             E == DirsOf(r)
  <1>1. /\ x \in NodeRecs /\ NodeOk(x)
        /\ \A n \in Names, j \in Inos : HasLink(x.pages, n, j) <=> HasLink(nd[i].pages, n, j)
        /\ \/ \A l \in LinksOf(nd) : l[3] # i
           \/ x.live /\ (IsDir(x) <=> IsDir(nd[i]))
        /\ x.live => NlinkOk(x, i, LinksOf(nd), DirsOf(nd))
    BY DEF CanPut
  <1>2. NodesOk(nd) /\ LinksOk(nd, L) /\ OneParent(L, D)
    BY DEF TreeInv
  <1>3. /\ r[i] = x /\ \A j \in Inos : j # i => r[j] = nd[j]
        /\ r \in [Inos -> NodeRecs]
    BY <1>1, <1>2 DEF NodesOk
  <1>4. NodesOk(r)
    BY <1>1, <1>2, <1>3 DEF NodesOk
  <1>5. LinksOf(r) = L
    <2>1. \A d2 \in Inos, n2 \in Names, i2 \in Inos :
            /\ <<d2, n2, i2>> \in LinksOf(r) <=> HasLink(r[d2].pages, n2, i2)
            /\ <<d2, n2, i2>> \in L <=> HasLink(nd[d2].pages, n2, i2)
      BY <1>2, <1>4, LinksIs
    <2>2. \A d2 \in Inos, n2 \in Names, i2 \in Inos :
            HasLink(r[d2].pages, n2, i2) <=> HasLink(nd[d2].pages, n2, i2)
      BY <1>1, <1>3
    <2>3. \A l \in LinksOf(r) \cup L :
            l = <<l[1], l[2], l[3]>> /\ l[1] \in Inos /\ l[2] \in Names /\ l[3] \in Inos
      BY <1>2, <1>4, LinksIs
    <2>4. ASSUME NEW d2 \in Inos, NEW n2 \in Names, NEW i2 \in Inos
           PROVE  <<d2, n2, i2>> \in LinksOf(r) <=> <<d2, n2, i2>> \in L
      BY <2>1, <2>2
    <2>5. QED
      BY <2>3, <2>4, SameTriples
  <1>6. \A l \in L : l[3] \in Inos
    BY <1>2, LinksIs
  <1>7. \A l \in L : l[3] \in E <=> l[3] \in D
    BY <1>1, <1>3, <1>6 DEF DirsOf
  <1>8. LinksOk(r, L)
    BY <1>1, <1>2, <1>3, <1>6 DEF LinksOk
  <1>9. OneParent(L, E)
    BY <1>2, <1>7 DEF OneParent
  <1>10. \A j : SubsIn(L, E, j) = SubsIn(L, D, j)
    BY <1>7 DEF SubsIn
  <1>11. \A j \in Inos : r[j].live => NlinkOk(r[j], j, L, E)
    <2> SUFFICES ASSUME NEW j \in Inos, r[j].live PROVE NlinkOk(r[j], j, L, E)
      OBVIOUS
    <2>1. NlinkOk(r[j], j, L, D)
      BY <1>1, <1>3 DEF TreeInv
    <2>2. QED
      BY <1>10, <2>1 DEF NlinkOk
  <1>12. QED
    BY <1>4, <1>5, <1>8, <1>9, <1>11 DEF TreeInv
-----------------------------------------------------------------------------
(* The tree, after each kind of change of its links.                       *)
LEMMA TreeIs ==
  ASSUME NEW nd
  PROVE  TreeInv(nd) <=> TreeBase(nd) /\ OneParent(LinksOf(nd), DirsOf(nd))
  BY DEF TreeInv, TreeBase

(* toyfs_add_dirent keeps the tree.                                        *)
LEMMA AddTree ==
  ASSUME NEW nd, TreeInv(nd), NEW m, NEW d \in Inos, NEW n \in Names, NEW i \in Inos,
         CanLink(nd, d, n, i), IsDir(nd[i]) => \A l \in LinksOf(nd) : l[3] # i
  PROVE  TreeInv(AddDirent(nd, m, d, n, i).nd)
  <1> DEFINE r == AddDirent(nd, m, d, n, i).nd
             L == LinksOf(nd)
             l == <<d, n, i>>
  <1>1. TreeBase(nd) /\ OneParent(L, DirsOf(nd))
    BY TreeIs
  <1>2. IsAdd(nd, m, d, n, i, AddDirent(nd, m, d, n, i))
    BY <1>1, AddKeeps
  <1>3. WithLink(nd, d, n, i, r)
    BY <1>2 DEF IsAdd
  <1>4. TreeBase(r) /\ DirsOf(r) = DirsOf(nd) /\ LinksOf(r) = L \cup {l}
    BY <1>3 DEF WithLink
  <1>5. l[3] = i /\ (i \in DirsOf(nd) => \A m2 \in L : m2[3] # i)
    BY DEF DirsOf
  <1> HIDE DEF r, L, l
  <1>6. OneParent(L \cup {l}, DirsOf(nd))
    BY <1>1, <1>5 DEF OneParent
  <1>7. QED
    BY <1>4, <1>6, TreeIs DEF r

(* toyfs_remove_dirent, and the removal of a directory, keep the tree.     *)
LEMMA DropTree ==
  ASSUME NEW nd, TreeInv(nd), NEW d \in Inos, NEW n \in Names, NEW i \in Inos,
         <<d, n, i>> \in LinksOf(nd), NEW k \in {1, 2},
         k = 2 => IsDir(nd[i]) /\ nd[i].size = 0
  PROVE  TreeInv(Lessened(nd, d, n, i, k))
  <1> DEFINE r == Lessened(nd, d, n, i, k)
             L == LinksOf(nd)
             l == <<d, n, i>>
  <1>1. TreeBase(nd) /\ OneParent(L, DirsOf(nd))
    BY TreeIs
  <1>2. TreeBase(r) /\ DirsOf(r) = DirsOf(nd) /\ LinksOf(r) = L \ {l}
    BY <1>1, DropKeeps
  <1> HIDE DEF r, L, l
  <1>3. OneParent(L \ {l}, DirsOf(nd))
    BY <1>1 DEF OneParent
  <1>4. QED
    BY <1>2, <1>3, TreeIs DEF r

(* The inodes before and after a dirent is moved.                          *)
WithMove(nd, d, n, d2, n2, i, r) ==
  /\ TreeInv(r) /\ SameNodes(nd, r)
  /\ LinksOf(r) = (LinksOf(nd) \ {<<d, n, i>>}) \cup {<<d2, n2, i>>}
  /\ <<d2, n2, i>> \notin LinksOf(nd)
  /\ \A j \in Inos :
       /\ j # d /\ nd[j].nlink > 0 => r[j].nlink > 0
       /\ j # d /\ j # d2 => r[j].size = nd[j].size
       /\ Stays(nd[j].pages, r[j].pages)
       /\ Len(r[j].pages) = Len(nd[j].pages) + IF j = d2 /\ NoRoom(nd[d2].pages, n2) THEN 1 ELSE 0

CanMove(nd, d, n, d2, n2, i) ==
  /\ <<d, n, i>> \in LinksOf(nd) /\ d2 # i
  /\ nd[d2].live /\ IsDir(nd[d2]) /\ nd[d2].nlink > 0 /\ NoName(nd, d2, n2)

IsMove(nd, m, d, n, d2, n2, i, a) ==
  /\ WithMove(nd, d, n, d2, n2, i, a.nd)
  /\ a.m = IF NoRoom(nd[d2].pages, n2) THEN AcquirePmemb(m) ELSE m

(* toyfs_rename to a free name keeps the tree and moves one link.          *)
LEMMA MoveTree ==
  ASSUME NEW nd, TreeInv(nd), NEW m, NEW d \in Inos, NEW n \in Names, NEW i \in Inos,
         NEW d2 \in Inos, NEW n2 \in Names, CanMove(nd, d, n, d2, n2, i)
  PROVE  IsMove(nd, m, d, n, d2, n2, i, MoveDirent(nd, m, d, n, d2, n2, i))
  <1> DEFINE b == AddDirent(nd, m, d2, n2, i)
             x == b.nd
             a == MoveDirent(nd, m, d, n, d2, n2, i)
             r == Lessened(x, d, n, i, 1)
             L == LinksOf(nd)
             D == DirsOf(nd)
             l == <<d, n, i>>
             l2 == <<d2, n2, i>>
  <1>1. /\ <<d, n, i>> \in LinksOf(nd) /\ d2 # i
        /\ nd[d2].live /\ IsDir(nd[d2]) /\ nd[d2].nlink > 0 /\ NoName(nd, d2, n2)
    BY DEF CanMove
  <1>2. TreeBase(nd) /\ NodesOk(nd) /\ OneParent(L, D)
    BY TreeIs DEF TreeBase
  <1>3. /\ d # i /\ i # Root /\ nd[i].live /\ nd[i].nlink > 0
        /\ (IsDir(nd[i]) => nd[i].nlink >= 2 /\ nd[d].nlink >= 2)
    BY <1>1, <1>2, LinkEnds
  <1>4. /\ TreeBase(x) /\ SameNodes(nd, x) /\ DirsOf(x) = D
        /\ LinksOf(x) = L \cup {l2}
        /\ b.m = IF NoRoom(nd[d2].pages, n2) THEN AcquirePmemb(m) ELSE m
        /\ \A j \in Inos :
             /\ x[j].nlink = nd[j].nlink + IF j = i \/ (j = d2 /\ IsDir(nd[i])) THEN 1 ELSE 0
             /\ j # d2 => x[j].size = nd[j].size /\ x[j].pages = nd[j].pages
             /\ Grows(nd[j].pages, x[j].pages)
             /\ Len(x[j].pages) =
                  Len(nd[j].pages) + IF j = d2 /\ NoRoom(nd[d2].pages, n2) THEN 1 ELSE 0
    <2>1. CanLink(nd, d2, n2, i)
      BY <1>1, <1>3 DEF CanLink
    <2>2. /\ WithLink(nd, d2, n2, i, x)
          /\ b.m = IF NoRoom(nd[d2].pages, n2) THEN AcquirePmemb(m) ELSE m
      <3>1. IsAdd(nd, m, d2, n2, i, AddDirent(nd, m, d2, n2, i))
        BY <1>2, <2>1, AddKeeps
      <3>2. QED
        BY <3>1 DEF IsAdd
    <2> HIDE DEF x, b, a, D, r
    <2>3. QED
      BY <2>2 DEF WithLink, D
  <1>5. a = [nd |-> GiveBack(RemoveDirent(x, d, n, i), i), m |-> b.m]
    BY DEF MoveDirent, GiveBack
  <1>6. l \in L /\ l[3] = l2[3] /\ l2 \notin L
    BY <1>1 DEF NoName
  <1>7. \A j \in Inos : nd[j].nlink \in Nat /\ x[j].nlink \in Nat
    BY <1>2, <1>4, NodeFacts DEF TreeBase
  <1> HIDE DEF x, b, a, L, D, r
  <1>8. l \in LinksOf(x)
    BY <1>4, <1>6
  <1>9. a.nd = r
    BY <1>3, <1>4, <1>5, GiveBackIs DEF TreeBase, r
  <1>10. /\ TreeBase(r) /\ SameNodes(x, r) /\ DirsOf(r) = DirsOf(x)
         /\ LinksOf(r) = LinksOf(x) \ {l}
         /\ \A j \in Inos :
              /\ r[j].nlink = x[j].nlink - IF j = i THEN 1
                                           ELSE IF j = d /\ IsDir(x[i]) THEN 1 ELSE 0
              /\ j # d => r[j].size = x[j].size /\ r[j].pages = x[j].pages
              /\ Stays(x[j].pages, r[j].pages)
              /\ Len(r[j].pages) = Len(x[j].pages)
    BY <1>4, <1>8, DropKeeps DEF r
  <1>11. SameNodes(nd, r)
    BY <1>4, <1>10 DEF SameNodes
  <1> HIDE DEF l, l2
  <1>12. LinksOf(r) = (L \ {l}) \cup {l2}
    BY <1>4, <1>6, <1>10
  <1>13. OneParent((L \ {l}) \cup {l2}, D)
    BY <1>2, <1>6 DEF OneParent
  <1>14. TreeInv(r)
    BY <1>4, <1>10, <1>12, <1>13, TreeIs
  <1>15. ASSUME NEW j \in Inos
         PROVE  /\ j # d /\ nd[j].nlink > 0 => r[j].nlink > 0
                /\ j # d /\ j # d2 => r[j].size = nd[j].size
                /\ Stays(nd[j].pages, r[j].pages)
                /\ Len(r[j].pages) =
                     Len(nd[j].pages) + IF j = d2 /\ NoRoom(nd[d2].pages, n2) THEN 1 ELSE 0
    <2>1. j # d /\ nd[j].nlink > 0 => r[j].nlink > 0
      <3>1. nd[j].nlink \in Nat /\ x[j].nlink \in Nat
        BY <1>7
      <3>2. x[j].nlink = nd[j].nlink + IF j = i \/ (j = d2 /\ IsDir(nd[i])) THEN 1 ELSE 0
        BY <1>4
      <3>3. r[j].nlink = x[j].nlink - IF j = i THEN 1
                                      ELSE IF j = d /\ IsDir(x[i]) THEN 1 ELSE 0
        BY <1>10
      <3>4. CASE j = i
        BY <3>1, <3>2, <3>3, <3>4
      <3>5. CASE j # i
        BY <3>1, <3>2, <3>3, <3>5
      <3>6. QED
        BY <3>4, <3>5
    <2>2. Stays(nd[j].pages, r[j].pages)
      BY <1>4, <1>10, GrowsStays
    <2>3. QED
      BY <1>4, <1>10, <2>1, <2>2
  <1>16. a.m = b.m
    BY <1>5
  <1>17. WithMove(nd, d, n, d2, n2, i, r)
    BY <1>6, <1>11, <1>12, <1>14, <1>15 DEF WithMove, L, l, l2
  <1>18. QED
    BY <1>4, <1>9, <1>16, <1>17 DEF a, IsMove
-----------------------------------------------------------------------------
(* Pages by their owners, as many for each as W says.                      *)
PagesOf(W) == UNION {{i} \X (1 .. W[i]) : i \in Inos}

(* Which pages there are.                                                  *)
LEMMA PagesOfIs ==
  ASSUME NEW W, NEW p
  PROVE  p \in PagesOf(W) <=> \E i \in Inos : \E q \in 1 .. W[i] : p = <<i, q>>
  BY DEF PagesOf

(* An owner of a pages has a of them.                                      *)
LEMMA RowIs ==
  ASSUME NEW i, NEW a \in Nat
  PROVE  IsFiniteSet({i} \X (1 .. a)) /\ Cardinality({i} \X (1 .. a)) = a
  <1>1. IsFiniteSet(1 .. a) /\ Cardinality(1 .. a) = a
    BY FS_Interval
  <1>2. IsFiniteSet({i}) /\ Cardinality({i}) = 1
    BY FS_Singleton
  <1>3. IsFiniteSet({i} \X (1 .. a))
          /\ Cardinality({i} \X (1 .. a)) = Cardinality({i}) * Cardinality(1 .. a)
    BY <1>1, <1>2, FS_Product
  <1>4. QED
    BY <1>1, <1>2, <1>3

(* One owner has b pages instead of those it had.                          *)
LEMMA PagesOfChange ==
  ASSUME NEW V \in [Inos -> Nat], NEW W \in [Inos -> Nat], NEW i \in Inos,
         \A j \in Inos : j # i => W[j] = V[j], IsFiniteSet(PagesOf(V))
  PROVE  /\ IsFiniteSet(PagesOf(W))
         /\ Cardinality(PagesOf(V)) \in Nat /\ Cardinality(PagesOf(W)) \in Nat
         /\ Cardinality(PagesOf(W)) + V[i] = Cardinality(PagesOf(V)) + W[i]
  <1> DEFINE R == {p \in PagesOf(V) : p[1] # i}
             A == {i} \X (1 .. V[i])
             B == {i} \X (1 .. W[i])
  <1>1. IsFiniteSet(A) /\ Cardinality(A) = V[i] /\ IsFiniteSet(B) /\ Cardinality(B) = W[i]
    BY RowIs
  <1>2. IsFiniteSet(R)
    BY FS_Subset
  <1>3. R \cap A = {} /\ R \cap B = {}
    OBVIOUS
  <1>4. PagesOf(V) = R \cup A
    <2>1. \A p \in PagesOf(V) : p \in R \cup A
      <3> SUFFICES ASSUME NEW p \in PagesOf(V), p \notin R PROVE p \in A
        OBVIOUS
      <3>1. PICK j \in Inos : \E q \in 1 .. V[j] : p = <<j, q>>
        BY PagesOfIs
      <3>2. PICK q \in 1 .. V[j] : p = <<j, q>>
        BY <3>1
      <3>3. j = i
        BY <3>2
      <3>4. QED
        BY <3>2, <3>3
    <2>2. \A p \in A : p \in PagesOf(V)
      BY DEF PagesOf
    <2>3. QED
      BY <2>1, <2>2
  <1>5. PagesOf(W) = R \cup B
    <2>1. \A p \in PagesOf(W) : p \in R \cup B
      <3> SUFFICES ASSUME NEW p \in PagesOf(W) PROVE p \in R \cup B
        OBVIOUS
      <3>1. PICK j \in Inos : \E q \in 1 .. W[j] : p = <<j, q>>
        BY PagesOfIs
      <3>2. PICK q \in 1 .. W[j] : p = <<j, q>>
        BY <3>1
      <3>3. CASE j = i
        BY <3>2, <3>3
      <3>4. CASE j # i
        <4>1. q \in 1 .. V[j]
          BY <3>2, <3>4
        <4>2. p \in PagesOf(V)
          BY <3>2, <4>1, PagesOfIs
        <4>3. p[1] # i
          BY <3>2, <3>4
        <4>4. QED
          BY <4>2, <4>3
      <3>5. QED
        BY <3>3, <3>4
    <2>2. \A p \in B : p \in PagesOf(W)
      BY DEF PagesOf
    <2>3. \A p \in R : p \in PagesOf(W)
      <3> SUFFICES ASSUME NEW p \in PagesOf(V), p[1] # i PROVE p \in PagesOf(W)
        OBVIOUS
      <3>1. PICK j \in Inos : \E q \in 1 .. V[j] : p = <<j, q>>
        BY PagesOfIs
      <3>2. PICK q \in 1 .. V[j] : p = <<j, q>>
        BY <3>1
      <3>3. q \in 1 .. W[j]
        BY <3>2
      <3>4. QED
        BY <3>2, <3>3, PagesOfIs
    <2>4. QED
      BY <2>1, <2>2, <2>3
  <1> DEFINE PV == PagesOf(V)
             PW == PagesOf(W)
  <1>6. PV = R \cup A /\ PW = R \cup B
    BY <1>4, <1>5
  <1> HIDE DEF PV, PW, R, A, B
  <1>7. /\ IsFiniteSet(R \cup A)
        /\ Cardinality(R \cup A) = Cardinality(R) + Cardinality(A) - Cardinality(R \cap A)
        /\ IsFiniteSet(R \cup B)
        /\ Cardinality(R \cup B) = Cardinality(R) + Cardinality(B) - Cardinality(R \cap B)
    BY <1>1, <1>2, FS_Union
  <1>8. Cardinality(R \cap A) = 0 /\ Cardinality(R \cap B) = 0 /\ Cardinality(R) \in Nat
    BY <1>2, <1>3, FS_EmptySet, FS_CardinalityType
  <1>9. QED
    BY <1>1, <1>6, <1>7, <1>8 DEF PV, PW
-----------------------------------------------------------------------------
(* What the counts are after each step of the allocators.                  *)
MemRecs == [pages : Nat, ifree : Nat, bfree : Nat, ffree : Nat]
MkMem(a, b, c, d) == [pages |-> a, ifree |-> b, bfree |-> c, ffree |-> d]

(* The fields of the pool.                                                 *)
LEMMA MkMemIs ==
  ASSUME NEW a, NEW b, NEW c, NEW d
  PROVE  /\ MkMem(a, b, c, d).pages = a /\ MkMem(a, b, c, d).ifree = b
         /\ MkMem(a, b, c, d).bfree = c /\ MkMem(a, b, c, d).ffree = d
         /\ a \in Nat /\ b \in Nat /\ c \in Nat /\ d \in Nat => MkMem(a, b, c, d) \in MemRecs
  BY DEF MkMem, MemRecs

(* The pool is made of its fields.                                         *)
LEMMA MemIs ==
  ASSUME NEW m \in MemRecs
  PROVE  /\ m = MkMem(m.pages, m.ifree, m.bfree, m.ffree)
         /\ m.pages \in Nat /\ m.ifree \in Nat /\ m.bfree \in Nat /\ m.ffree \in Nat
  BY DEF MkMem, MemRecs

(* The pool with one field changed.                                        *)
LEMMA MkMemExcept ==
  ASSUME NEW a, NEW b, NEW c, NEW d, NEW e
  PROVE  /\ [MkMem(a, b, c, d) EXCEPT !.pages = e] = MkMem(e, b, c, d)
         /\ [MkMem(a, b, c, d) EXCEPT !.ifree = e] = MkMem(a, e, c, d)
         /\ [MkMem(a, b, c, d) EXCEPT !.bfree = e] = MkMem(a, b, e, d)
         /\ [MkMem(a, b, c, d) EXCEPT !.ffree = e] = MkMem(a, b, c, e)
  BY DEF MkMem

(* The pool with the fields changed that its operations change.            *)
LEMMA MemExcept ==
  ASSUME NEW m \in MemRecs, NEW e, NEW f
  PROVE  /\ [m EXCEPT !.ifree = e] = MkMem(m.pages, e, m.bfree, m.ffree)
         /\ [m EXCEPT !.ffree = e] = MkMem(m.pages, m.ifree, m.bfree, e)
         /\ [m EXCEPT !.pages = e, !.bfree = f] = MkMem(e, m.ifree, f, m.ffree)
         /\ [m EXCEPT !.pages = e, !.ifree = f] = MkMem(e, f, m.bfree, m.ffree)
  <1> DEFINE w == [m EXCEPT !.pages = e]
  <1>1. /\ [m EXCEPT !.pages = e, !.bfree = f] = [w EXCEPT !.bfree = f]
        /\ [m EXCEPT !.pages = e, !.ifree = f] = [w EXCEPT !.ifree = f]
    OBVIOUS
  <1>2. w = MkMem(e, m.ifree, m.bfree, m.ffree)
    BY DEF MemRecs, MkMem
  <1>3. [m EXCEPT !.ifree = e] = MkMem(m.pages, e, m.bfree, m.ffree)
    BY DEF MemRecs, MkMem
  <1>4. [m EXCEPT !.ffree = e] = MkMem(m.pages, m.ifree, m.bfree, e)
    BY DEF MemRecs, MkMem
  <1> HIDE DEF w
  <1>5. /\ [w EXCEPT !.bfree = f] = MkMem(e, m.ifree, f, m.ffree)
        /\ [w EXCEPT !.ifree = f] = MkMem(e, f, m.bfree, m.ffree)
    BY <1>2 DEF MkMem
  <1>6. QED
    BY <1>1, <1>3, <1>4, <1>5

(* Each operation of the pool, field by field.                             *)
LEMMA MemSteps ==
  ASSUME NEW m \in MemRecs, NEW n
  PROVE  /\ AcquirePmemb(m) = MkMem(m.pages - 1, m.ifree, m.bfree - 1, m.ffree)
         /\ ReleasePmembs(m, n) = MkMem(m.pages + n, m.ifree, m.bfree + n, m.ffree)
         /\ ReleaseInode(m) = MkMem(m.pages, m.ifree + 1, m.bfree, m.ffree)
         /\ m.ifree > 0 => AcquireInode(m) = MkMem(m.pages, m.ifree - 1, m.bfree, m.ffree)
         /\ ~(m.ifree > 0) =>
              AcquireInode(m) = MkMem(m.pages - 1, InoPerPage - 1, m.bfree, m.ffree)
         /\ AllocIi(m) = MkMem(m.pages, m.ifree, m.bfree, m.ffree - 1)
         /\ FreeIi(m) = MkMem(m.pages, m.ifree, m.bfree, m.ffree + 1)
  <1>1. AcquirePmemb(m) = MkMem(m.pages - 1, m.ifree, m.bfree - 1, m.ffree)
    BY MemExcept, Zenon DEF AcquirePmemb
  <1>2. ReleasePmembs(m, n) = MkMem(m.pages + n, m.ifree, m.bfree + n, m.ffree)
    BY MemExcept, Zenon DEF ReleasePmembs
  <1>3. ReleaseInode(m) = MkMem(m.pages, m.ifree + 1, m.bfree, m.ffree)
    BY MemExcept, Zenon DEF ReleaseInode
  <1>4. m.ifree > 0 => AcquireInode(m) = MkMem(m.pages, m.ifree - 1, m.bfree, m.ffree)
    BY MemExcept, Zenon DEF AcquireInode
  <1>5. ~(m.ifree > 0) => AcquireInode(m) = MkMem(m.pages - 1, InoPerPage - 1, m.bfree, m.ffree)
    BY MemExcept, Zenon DEF AcquireInode
  <1>6. /\ AllocIi(m) = MkMem(m.pages, m.ifree, m.bfree, m.ffree - 1)
        /\ FreeIi(m) = MkMem(m.pages, m.ifree, m.bfree, m.ffree + 1)
    BY MemExcept, Zenon DEF AllocIi, FreeIi
  <1>7. QED
    BY <1>1, <1>2, <1>3, <1>4, <1>5, <1>6, Zenon

IsMem(m) == \E a, b, c, d : m = MkMem(a, b, c, d)

(* Only toyfs_alloc_ii and toyfs_tii_free change f_ffree.                  *)
LEMMA FfreeIs ==
  ASSUME NEW m, IsMem(m), NEW n
  PROVE  /\ IsMem(AcquirePmemb(m)) /\ AcquirePmemb(m).ffree = m.ffree
         /\ IsMem(ReleasePmembs(m, n)) /\ ReleasePmembs(m, n).ffree = m.ffree
         /\ IsMem(ReleaseInode(m)) /\ ReleaseInode(m).ffree = m.ffree
         /\ IsMem(AcquireInode(m)) /\ AcquireInode(m).ffree = m.ffree
         /\ IsMem(AllocIi(m)) /\ AllocIi(m).ffree = m.ffree - 1
         /\ IsMem(FreeIi(m)) /\ FreeIi(m).ffree = m.ffree + 1
  <1>1. PICK a, b, c, d : m = MkMem(a, b, c, d)
    BY DEF IsMem
  <1>2. m.pages = a /\ m.ifree = b /\ m.bfree = c /\ m.ffree = d
    BY <1>1, MkMemIs
  <1> DEFINE y == [m EXCEPT !.pages = @ - 1]
             z == [m EXCEPT !.pages = @ + n]
  <1>3. y = MkMem(a - 1, b, c, d) /\ z = MkMem(a + n, b, c, d)
    BY <1>1, <1>2 DEF MkMem
  <1>4. /\ AcquirePmemb(m) = [y EXCEPT !.bfree = @ - 1]
        /\ ReleasePmembs(m, n) = [z EXCEPT !.bfree = @ + n]
    BY DEF AcquirePmemb, ReleasePmembs
  <1> HIDE DEF y, z
  <1>5. y.bfree = c /\ z.bfree = c
    BY <1>3, MkMemIs
  <1>6. AcquirePmemb(m) = MkMem(a - 1, b, c - 1, d)
    BY <1>3, <1>4, <1>5 DEF MkMem
  <1>7. ReleasePmembs(m, n) = MkMem(a + n, b, c + n, d)
    BY <1>3, <1>4, <1>5 DEF MkMem
  <1>8. ReleaseInode(m) = MkMem(a, b + 1, c, d)
    BY <1>1, <1>2 DEF ReleaseInode, MkMem
  <1>9. AllocIi(m) = MkMem(a, b, c, d - 1) /\ FreeIi(m) = MkMem(a, b, c, d + 1)
    BY <1>1, <1>2 DEF AllocIi, FreeIi, MkMem
  <1>10. \/ AcquireInode(m) = MkMem(a, b - 1, c, d)
         \/ AcquireInode(m) = MkMem(a - 1, InoPerPage - 1, c, d)
    BY <1>1, <1>2 DEF AcquireInode, MkMem
  <1>11. QED
    BY <1>2, <1>6, <1>7, <1>8, <1>9, <1>10, MkMemIs DEF IsMem

(* The counts m of the pool, with v inodes in use, w pages with owners, u  *)
(* inodes with an inode_info and x pages lost.                             *)
Balanced(m, v, w, u, x) ==
  /\ m \in MemRecs
  /\ v \in Nat /\ w \in Nat /\ u \in Nat /\ x \in Nat
  /\ \E k \in Nat : v + m.ifree = k * InoPerPage /\ m.pages + k + w + x = NPages
  /\ m.bfree + w + x = NPages

(* toyfs_acquire_pmemb keeps the pool balanced.                            *)
LEMMA BalPage ==
  ASSUME NEW m, NEW v, NEW w, NEW u, NEW x, Balanced(m, v, w, u, x), HasPage(m)
  PROVE  Balanced(AcquirePmemb(m), v, w + 1, u, x)
  <1>1. PICK k \in Nat : v + m.ifree = k * InoPerPage /\ m.pages + k + w + x = NPages
    BY DEF Balanced
  <1>2. QED
    <2> DEFINE r == AcquirePmemb(m)
    <2>1. m.pages \in Nat /\ m.ifree \in Nat /\ m.bfree \in Nat /\ m.ffree \in Nat
      BY MemIs DEF Balanced
    <2>2. /\ r.pages = m.pages - 1 /\ r.bfree = m.bfree - 1 /\ r.ifree = m.ifree
          /\ r.ffree = m.ffree
          /\ r \in MemRecs
      BY <2>1, MemSteps, MkMemIs DEF Balanced, HasPage
    <2> HIDE DEF r
    <2>3. QED
      BY <1>1, <2>1, <2>2, NsAssumption DEF Balanced, r

(* toyfs_acquire_inode does, with a free inode or a new page of them.      *)
LEMMA BalInode ==
  ASSUME NEW m, NEW v, NEW w, NEW u, NEW x, Balanced(m, v, w, u, x), HasInode(m)
  PROVE  Balanced(AcquireInode(m), v + 1, w, u, x)
  <1>1. PICK k \in Nat : v + m.ifree = k * InoPerPage /\ m.pages + k + w + x = NPages
    BY DEF Balanced
  <1>2. CASE m.ifree > 0
    <2> DEFINE r == AcquireInode(m)
    <2>1. m.pages \in Nat /\ m.ifree \in Nat /\ m.bfree \in Nat /\ m.ffree \in Nat
      BY MemIs DEF Balanced
    <2>2. /\ r.pages = m.pages /\ r.bfree = m.bfree /\ r.ifree = m.ifree - 1 /\ r.ffree = m.ffree
          /\ r \in MemRecs
      BY <1>2, <2>1, MemSteps, MkMemIs DEF Balanced
    <2> HIDE DEF r
    <2>3. QED
      BY <1>1, <2>1, <2>2, NsAssumption DEF Balanced, r
  <1>3. CASE ~(m.ifree > 0)
    <2> DEFINE r == [m EXCEPT !.pages = @ - 1, !.ifree = InoPerPage - 1]
    <2>1. AcquireInode(m) = r
      BY <1>3 DEF AcquireInode
    <2>2. m \in MemRecs
      BY DEF Balanced
    <2>3. InoPerPage \in Nat \ {0} /\ NPages \in Nat
      BY NsAssumption
    <2>4. /\ r \in MemRecs
          /\ r.pages = m.pages - 1 /\ r.ifree = InoPerPage - 1 /\ r.bfree = m.bfree
          /\ r.ffree = m.ffree
      <3>1. m.pages \in Nat /\ m.ifree \in Nat /\ m.bfree \in Nat /\ m.ffree \in Nat
        BY <2>2, MemIs
      <3>2. r = MkMem(m.pages - 1, InoPerPage - 1, m.bfree, m.ffree)
        BY <1>3, <2>1, <2>2, MemSteps
      <3>3. m.pages - 1 \in Nat /\ InoPerPage - 1 \in Nat
        BY <1>3, <2>3, <3>1 DEF HasInode
      <3> HIDE DEF r
      <3>4. QED
        BY <3>1, <3>2, <3>3, MkMemIs
    <2> HIDE DEF r
    <2>5. v \in Nat /\ w \in Nat /\ x \in Nat /\ m.pages \in Nat /\ m.ifree = 0
      BY <1>3, <2>2, MemIs DEF Balanced
    <2>6. (v + 1) + r.ifree = (k + 1) * InoPerPage
      <3>1. (k + 1) * InoPerPage = k * InoPerPage + InoPerPage
        BY <2>3
      <3>2. k * InoPerPage \in Nat
        BY <2>3
      <3>3. QED
        BY <1>1, <2>3, <2>4, <2>5, <3>1, <3>2
    <2>7. r.pages + (k + 1) + w + x = NPages /\ k + 1 \in Nat
      BY <1>1, <2>4, <2>5
    <2>8. \E h \in Nat : (v + 1) + r.ifree = h * InoPerPage /\ r.pages + h + w + x = NPages
      BY <2>6, <2>7
    <2>9. QED
      BY <2>1, <2>4, <2>8 DEF Balanced
  <1>4. QED
    BY <1>2, <1>3

(* So do toyfs_alloc_ii and toyfs_free_ii.                                 *)
LEMMA BalIi ==
  ASSUME NEW m, NEW v, NEW w, NEW u, NEW x, Balanced(m, v, w, u, x)
  PROVE  /\ m.ffree > 0 => Balanced(AllocIi(m), v, w, u + 1, x)
         /\ u > 0 => Balanced(FreeIi(m), v, w, u - 1, x)
  <1>1. PICK k \in Nat : v + m.ifree = k * InoPerPage /\ m.pages + k + w + x = NPages
    BY DEF Balanced
  <1>2. QED
    <2>1. m.pages \in Nat /\ m.ifree \in Nat /\ m.bfree \in Nat /\ m.ffree \in Nat /\ m \in MemRecs
      BY MemIs DEF Balanced
    <2>2. ASSUME m.ffree > 0 PROVE Balanced(AllocIi(m), v, w, u + 1, x)
      <3> DEFINE r == AllocIi(m)
      <3>1. /\ r.pages = m.pages /\ r.bfree = m.bfree /\ r.ifree = m.ifree /\ r.ffree = m.ffree - 1
            /\ r \in MemRecs
        BY <2>1, <2>2, MemSteps, MkMemIs
      <3> HIDE DEF r
      <3>2. QED
        BY <1>1, <2>1, <3>1, NsAssumption DEF Balanced, r
    <2>3. ASSUME u > 0 PROVE Balanced(FreeIi(m), v, w, u - 1, x)
      <3> DEFINE r == FreeIi(m)
      <3>1. /\ r.pages = m.pages /\ r.bfree = m.bfree /\ r.ifree = m.ifree /\ r.ffree = m.ffree + 1
            /\ r \in MemRecs
        BY <2>1, MemSteps, MkMemIs
      <3> HIDE DEF r
      <3>2. QED
        <4>1. \E h \in Nat : v + r.ifree = h * InoPerPage /\ r.pages + h + w + x = NPages
          BY <1>1, <3>1
        <4>2. u - 1 \in Nat
          BY <2>3 DEF Balanced
        <4>3. QED
          BY <3>1, <4>1, <4>2 DEF Balanced, r
    <2>4. QED
      BY <2>2, <2>3

(* toyfs_free_inode returns n pages of the inode and loses y.              *)
LEMMA BalFree ==
  ASSUME NEW m, NEW v, NEW w, NEW u, NEW x, Balanced(m, v, w, u, x), v > 0,
         NEW n \in Nat, NEW y \in Nat, n + y <= w
  PROVE  /\ Balanced(ReleaseInode(m), v - 1, w, u, x)
         /\ Balanced(ReleasePmembs(ReleaseInode(m), n), v - 1, (w - n) - y, u, x + y)
  <1>1. PICK k \in Nat : v + m.ifree = k * InoPerPage /\ m.pages + k + w + x = NPages
    BY DEF Balanced
  <1>2. Balanced(ReleaseInode(m), v - 1, w, u, x)
    <2> DEFINE r == ReleaseInode(m)
    <2>1. m.pages \in Nat /\ m.ifree \in Nat /\ m.bfree \in Nat /\ m.ffree \in Nat /\ m \in MemRecs
      BY MemIs DEF Balanced
    <2>2. /\ r.pages = m.pages /\ r.bfree = m.bfree /\ r.ifree = m.ifree + 1 /\ r.ffree = m.ffree
          /\ r \in MemRecs
      BY <2>1, MemSteps, MkMemIs
    <2> HIDE DEF r
    <2>3. QED
      BY <1>1, <2>1, <2>2, NsAssumption DEF Balanced, r
  <1> DEFINE r == ReleaseInode(m)
  <1>3. PICK h \in Nat : (v - 1) + r.ifree = h * InoPerPage /\ r.pages + h + w + x = NPages
    BY <1>2 DEF Balanced
  <1>4. /\ r \in MemRecs
        /\ v - 1 \in Nat /\ w \in Nat /\ u \in Nat /\ x \in Nat
        /\ r.bfree + w + x = NPages
    BY <1>2 DEF Balanced
  <1> HIDE DEF r
  <1>5. Balanced(ReleasePmembs(r, n), v - 1, (w - n) - y, u, x + y)
    <2> DEFINE q == ReleasePmembs(r, n)
    <2>1. /\ q \in MemRecs
          /\ q.pages = r.pages + n /\ q.bfree = r.bfree + n /\ q.ifree = r.ifree
          /\ q.ffree = r.ffree
      <3>1. r.pages \in Nat /\ r.ifree \in Nat /\ r.bfree \in Nat /\ r.ffree \in Nat
        BY <1>4, MemIs
      <3>2. QED
        BY <1>4, <3>1, MemSteps, MkMemIs
    <2> HIDE DEF q
    <2>2. /\ (w - n) - y \in Nat /\ x + y \in Nat
          /\ q.bfree + ((w - n) - y) + (x + y) = NPages
          /\ q.pages + h + ((w - n) - y) + (x + y) = NPages
      <3>1. r.pages \in Nat /\ r.ifree \in Nat /\ r.bfree \in Nat /\ r.ffree \in Nat
        BY <1>4, MemIs
      <3>2. QED
        BY <1>3, <1>4, <2>1, <3>1
    <2>3. (v - 1) + q.ifree = h * InoPerPage
      BY <1>3, <1>4, <2>1
    <2>4. QED
      BY <1>4, <2>1, <2>2, <2>3 DEF Balanced, q
  <1>6. QED
    BY <1>2, <1>5 DEF r

(* What PoolConserved says of the counts.                                  *)
LEMMA BalRight ==
  ASSUME NEW m, NEW v, NEW w, NEW u, NEW x, Balanced(m, v, w, u, x)
  PROVE  /\ (v + m.ifree) % InoPerPage = 0
         /\ m.pages + (v + m.ifree) \div InoPerPage + w + x = NPages
         /\ m.bfree = NPages - w - x
  <1>1. PICK k \in Nat : v + m.ifree = k * InoPerPage /\ m.pages + k + w + x = NPages
    BY DEF Balanced
  <1>2. (k * InoPerPage) % InoPerPage = 0 /\ (k * InoPerPage) \div InoPerPage = k
    BY NsAssumption
  <1>3. QED
    <2>1. m.pages \in Nat /\ m.ifree \in Nat /\ m.bfree \in Nat /\ m.ffree \in Nat
      BY MemIs DEF Balanced
    <2>2. (v + m.ifree) % InoPerPage = 0 /\ (v + m.ifree) \div InoPerPage = k
      BY <1>1, <1>2
    <2>3. m.bfree = NPages - w - x
      BY <2>1, NsAssumption DEF Balanced
    <2>4. QED
      BY <1>1, <2>2, <2>3
-----------------------------------------------------------------------------
(* The state: an inductive invariant, part by part.                        *)

Weight(nd) == [i \in Inos |-> OwnPages(nd[i])]
LiveOf(nd) == {i \in Inos : nd[i].live}
InfosOf(t) == {i \in Inos : t[i] # "none"}

(* The pool is conserved, and finite.                                      *)
PoolOk(nd, m, t, x) ==
  /\ IsFiniteSet(LiveOf(nd)) /\ IsFiniteSet(PagesOf(Weight(nd))) /\ IsFiniteSet(InfosOf(t))
  /\ Balanced(m, Cardinality(LiveOf(nd)), Cardinality(PagesOf(Weight(nd))),
              Cardinality(InfosOf(t)), x)

OpRecs ==
  {Idle} \cup [k : {"create"}, d : Inos, i : Inos, n : Names]
         \cup [k : {"found", "iget"}, d : Inos, i : Inos]
         \cup [k : {"undo"}, d : Inos, i : {0}]
         \cup [k : {"store"}, d : Inos, i : {0}, r : Nat]

TypesOk ==
  /\ tii \in [Inos -> {"none", "full", "half"}]
  /\ ref \in [Inos -> Nat] /\ held \in [Inos -> Nat]
  /\ tab \subseteq Inos /\ top \in Nat /\ lost \in Nat
  /\ op \in [Threads -> OpRecs]

RootOk ==
  tii[Root] = "full" /\ Root \in tab /\ node[Root].live /\ held[Root] > 0 /\ IsDir(node[Root])

(* Inode numbers that were not used yet.                                   *)
FreshOk ==
  /\ Root < top
  /\ \A i \in Inos : i >= top => /\ ~node[i].live /\ tii[i] = "none"
                                 /\ held[i] = 0 /\ i \notin tab

(* A creation has its directory, in which the name is free, and the only   *)
(* handle of an inode that nothing links to.                               *)
CreateOk(o) ==
  /\ UsableDir(o.d)
  /\ \A l \in LinksOf(node) : ~(l[1] = o.d /\ l[2] = o.n) /\ l[3] # o.i
  /\ held[o.i] = 1 /\ tii[o.i] = "full" /\ o.i # Root
  /\ node[o.i].size = 0 /\ (IsDir(node[o.i]) => node[o.i].nlink > 0)

(* A lookup has an inode that its directory links to.                      *)
LookupOk(o) == \E n \in Names : <<o.d, n, o.i>> \in LinksOf(node)

OpsOk ==
  \A t \in Threads :
    /\ op[t].k = "create" => CreateOk(op[t])
    /\ op[t].k \in {"found", "iget"} => LookupOk(op[t])
    /\ \A u \in Threads : u # t /\ op[t].k = "create" /\ op[u].k = "create"
                            => op[t].i # op[u].i /\ op[t].d # op[u].d

(* What is due is at the position of the reader or after it, what was seen *)
(* before it.                                                              *)
DueAt(pages, pos, E) == \A e \in E : \E x \in Places(pages) : At(pages, x) = e /\ OffOf(x) >= pos
SeenAt(pages, pos, E) == \A e \in E : \E x \in Places(pages) : At(pages, x) = e /\ OffOf(x) < pos

MkScan(d, pos, due, seen, missed, dup) ==
  [d |-> d, pos |-> pos, due |-> due, seen |-> seen, missed |-> missed, dup |-> dup]

ScanOk ==
  /\ rd = MkScan(rd.d, rd.pos, rd.due, rd.seen, {}, FALSE)
  /\ rd.d # 0 =>
       /\ rd.d \in Inos /\ rd.pos \in Nat /\ held[rd.d] > 0 /\ ~Creating(rd.d)
       /\ DueAt(node[rd.d].pages, rd.pos, rd.due) /\ SeenAt(node[rd.d].pages, rd.pos, rd.seen)

HandlesOk ==
  /\ HandlesValid /\ uaf = FALSE
  /\ \A l \in LinksOf(node) : l[3] \in tab

OrphansOk ==
  \A i \in Inos : node[i].live /\ held[i] = 0 /\ ~IsDir(node[i])
                    => \E l \in LinksOf(node) : l[3] = i

IInv ==
  /\ TreeInv(node) /\ PoolOk(node, mem, tii, lost)
  /\ TypesOk /\ RootOk /\ FreshOk /\ OpsOk /\ ScanOk /\ HandlesOk /\ OrphansOk

(* Links as a function of the inodes.                                      *)
LEMMA LinksAre == Links = LinksOf(node)
  BY DEF Links, LinksOf, Live

(* ... also in the next state.                                             *)
LEMMA LinksArePrime == Links' = LinksOf(node')
  BY DEF Links, LinksOf, Live

(* What the call of a thread has.                                          *)
LEMMA OpFacts ==
  ASSUME NEW o \in OpRecs
  PROVE  /\ o.k \in {"none", "create", "undo", "store", "found", "iget"}
         /\ o.k = "create" => o.d \in Inos /\ o.i \in Inos /\ o.n \in Names
         /\ o.k \in {"found", "iget"} => o.d \in Inos /\ o.i \in Inos
         /\ o.k \in {"undo", "store"} => o.d \in Inos
         /\ o.k = "store" => o.r \in Nat
         /\ Idle \in OpRecs /\ Idle.k = "none"
  BY DEF OpRecs, Idle

(* The fields of the reader.                                               *)
LEMMA MkScanIs ==
  ASSUME NEW d, NEW pos, NEW due, NEW seen, NEW missed, NEW dup
  PROVE  LET r == MkScan(d, pos, due, seen, missed, dup) IN
         /\ r.d = d /\ r.pos = pos /\ r.due = due /\ r.seen = seen /\ r.missed = missed
         /\ r.dup = dup
  BY DEF MkScan

ScanSet(r, due, seen) == [r EXCEPT !.due = due, !.seen = seen]

(* The reader with its sets changed.                                       *)
LEMMA ScanExcept ==
  ASSUME NEW d, NEW pos, NEW due, NEW seen, NEW missed, NEW dup, NEW e, NEW f
  PROVE  ScanSet(MkScan(d, pos, due, seen, missed, dup), e, f) =
           MkScan(d, pos, e, f, missed, dup)
  <1> DEFINE r == MkScan(d, pos, due, seen, missed, dup)
             y == [r EXCEPT !.due = e]
  <1>1. ScanSet(r, e, f) = [y EXCEPT !.seen = f]
    BY DEF ScanSet
  <1>2. y = MkScan(d, pos, e, seen, missed, dup)
    BY DEF MkScan
  <1> HIDE DEF y
  <1>3. [y EXCEPT !.seen = f] = MkScan(d, pos, e, f, missed, dup)
    BY <1>2 DEF MkScan
  <1>4. QED
    BY <1>1, <1>3

(* No inode, and a new one.                                                *)
Made(v, a, b, c) == [v EXCEPT !.live = a, !.kind = b, !.nlink = c]

(* A new inode, field by field.                                            *)
LEMMA MadeIs ==
  ASSUME NEW l, NEW k, NEW n, NEW s, NEW p, NEW x, NEW a, NEW b, NEW c
  PROVE  Made(MkNode(l, k, n, s, p, x), a, b, c) = MkNode(a, b, c, s, p, x)
  <1> DEFINE v == MkNode(l, k, n, s, p, x)
             w == [v EXCEPT !.live = a]
             y == [w EXCEPT !.kind = b]
  <1>1. Made(v, a, b, c) = [y EXCEPT !.nlink = c]
    BY DEF Made
  <1>2. w = MkNode(a, k, n, s, p, x)
    BY DEF MkNode
  <1> HIDE DEF v, w
  <1>3. y = MkNode(a, b, n, s, p, x)
    BY <1>2 DEF MkNode
  <1> HIDE DEF y
  <1>4. [y EXCEPT !.nlink = c] = MkNode(a, b, c, s, p, x)
    BY <1>3 DEF MkNode
  <1>5. QED
    BY <1>1, <1>4 DEF v

(* An inode that is not there is right on its own and owns nothing.        *)
LEMMA NoNodeIs ==
  /\ NoNode = MkNode(FALSE, "none", 0, 0, <<>>, FALSE)
  /\ NoNode \in NodeRecs /\ NodeOk(NoNode)
  /\ ~NoNode.live /\ NoNode.pages = <<>> /\ ~IsDir(NoNode)
  /\ OwnPages(NoNode) = 0
  <1>1. NoNode = MkNode(FALSE, "none", 0, 0, <<>>, FALSE)
    BY DEF NoNode, MkNode
  <1>2. /\ DirOk(<<>>) /\ Places(<<>>) = {} /\ Cardinality(Places(<<>>)) = 0
        /\ <<>> \in Seq(PageType)
    BY NoPagesIs, FS_EmptySet DEF DirOk
  <1>3. /\ ~NoNode.live /\ NoNode.kind = "none" /\ NoNode.nlink = 0 /\ NoNode.size = 0
        /\ NoNode.pages = <<>> /\ ~NoNode.xattr
    BY DEF NoNode
  <1>4. NoNode \in NodeRecs
    <2>1. 0 \in Nat /\ FALSE \in BOOLEAN /\ "none" \in Kinds \cup {"none", "dir"}
      OBVIOUS
    <2>2. QED
      BY <1>1, <1>2, <2>1, MkNodeIs, Zenon
  <1>5. ~IsDir(NoNode)
    BY <1>3 DEF IsDir
  <1>6. NodeOk(NoNode)
    BY <1>2, <1>3 DEF NodeOk
  <1>7. OwnPages(NoNode) = 0
    BY <1>3 DEF OwnPages, SymPages, XattrPages
  <1>8. QED
    BY <1>1, <1>3, <1>4, <1>5, <1>6, <1>7

(* A new inode is right on its own and owns the page of its symlink at     *)
(* most.                                                                   *)
LEMMA NewNodeIs ==
  ASSUME NEW k \in Kinds \cup {"dir"}, NEW n \in Nat
  PROVE  LET x == Node(k, n) IN
         /\ x = MkNode(TRUE, k, n, 0, <<>>, FALSE)
         /\ x \in NodeRecs /\ NodeOk(x)
         /\ x.live /\ x.pages = <<>> /\ x.size = 0 /\ (IsDir(x) <=> k = "dir") /\ x.nlink = n
         /\ OwnPages(x) = SymPages(x)
  <1> DEFINE x == Node(k, n)
  <1>1. x = Made(NoNode, TRUE, k, n)
    BY DEF Node, Made
  <1> HIDE DEF x
  <1>2. x = MkNode(TRUE, k, n, 0, <<>>, FALSE)
    <2>1. NoNode = MkNode(FALSE, "none", 0, 0, <<>>, FALSE)
      BY NoNodeIs
    <2>2. Made(MkNode(FALSE, "none", 0, 0, <<>>, FALSE), TRUE, k, n) =
              MkNode(TRUE, k, n, 0, <<>>, FALSE)
      <3> DEFINE t == TRUE
                 f == FALSE
                 q == <<>>
      <3> HIDE DEF t, f, q
      <3>1. Made(MkNode(f, "none", 0, 0, q, f), t, k, n) = MkNode(t, k, n, 0, q, f)
        BY MadeIs
      <3>2. QED
        BY <3>1, Zenon DEF t, f, q
    <2>3. QED
      BY <1>1, <2>1, <2>2, Zenon
  <1>3. /\ DirOk(<<>>) /\ Places(<<>>) = {} /\ Cardinality(Places(<<>>)) = 0
        /\ <<>> \in Seq(PageType)
    BY NoPagesIs, FS_EmptySet DEF DirOk
  <1>4. x.live = TRUE /\ x.kind = k /\ x.nlink = n /\ x.size = 0 /\ x.pages = <<>>
          /\ x.xattr = FALSE
    <2>1. /\ MkNode(TRUE, k, n, 0, <<>>, FALSE).live = TRUE
          /\ MkNode(TRUE, k, n, 0, <<>>, FALSE).kind = k
          /\ MkNode(TRUE, k, n, 0, <<>>, FALSE).nlink = n
          /\ MkNode(TRUE, k, n, 0, <<>>, FALSE).size = 0
          /\ MkNode(TRUE, k, n, 0, <<>>, FALSE).pages = <<>>
          /\ MkNode(TRUE, k, n, 0, <<>>, FALSE).xattr = FALSE
      BY DEF MkNode
    <2>2. QED
      BY <1>2, <2>1, Zenon
  <1>5. x \in NodeRecs
    <2>1. 0 \in Nat /\ TRUE \in BOOLEAN /\ FALSE \in BOOLEAN /\ k \in Kinds \cup {"none", "dir"}
      OBVIOUS
    <2>2. QED
      BY <1>2, <1>3, <2>1, MkNodeType, Zenon
  <1>6. IsDir(x) <=> k = "dir"
    BY <1>4 DEF IsDir
  <1>7. NodeOk(x)
    BY <1>3, <1>4 DEF NodeOk
  <1>8. OwnPages(x) = SymPages(x)
    <2>1. SymPages(x) \in {0, 1}
      BY DEF SymPages
    <2>2. Len(x.pages) = 0 /\ XattrPages(x) = 0
      BY <1>4 DEF XattrPages
    <2>3. QED
      BY <2>1, <2>2 DEF OwnPages
  <1>9. QED
    BY <1>2, <1>4, <1>5, <1>6, <1>7, <1>8 DEF x

(* The first state.                                                        *)
LEMMA InitIInv == Init => IInv
  <1> SUFFICES ASSUME Init PROVE IInv
    OBVIOUS
  <1> DEFINE x == Node("dir", 2)
  <1>1. Root \in Inos /\ Root \in Nat \ {0} /\ NPages \in Nat \ {0} /\ InoPerPage \in Nat \ {0}
        /\ \A i \in Inos : i \in Nat \ {0}
    BY NsAssumption, DirAssumption
  <1>2. /\ DirOk(<<>>) /\ Places(<<>>) = {} /\ Cardinality(Places(<<>>)) = 0
        /\ <<>> \in Seq(PageType)
    BY NoPagesIs, FS_EmptySet DEF DirOk
  <1>3. /\ NoNode \in NodeRecs /\ NodeOk(NoNode) /\ x \in NodeRecs /\ NodeOk(x)
        /\ x.live /\ x.pages = <<>> /\ x.size = 0 /\ IsDir(x) /\ x.nlink = 2
        /\ ~NoNode.live /\ NoNode.pages = <<>> /\ ~IsDir(NoNode)
    BY NoNodeIs, NewNodeIs
  <1> HIDE DEF x
  <1>4. \A i \in Inos : node[i] = IF i = Root THEN x ELSE NoNode
    BY DEF Init, x
  <1>5. NodesOk(node)
    <2>1. node \in [Inos -> NodeRecs]
      BY <1>3 DEF Init, x
    <2>2. QED
      BY <1>3, <1>4, <2>1 DEF NodesOk
  <1>6. LinksOf(node) = {}
    BY <1>2, <1>3, <1>4 DEF LinksOf, Dirents
  <1>7. TreeInv(node)
    <2>1. LinksOk(node, {}) /\ OneParent({}, DirsOf(node))
      BY FS_EmptySet DEF LinksOk, OneParent
    <2>2. Cardinality(LinksIn({}, Root)) = 0 /\ Cardinality(SubsIn({}, DirsOf(node), Root)) = 0
      BY FS_EmptySet DEF LinksIn, SubsIn
    <2>3. \A i \in Inos : node[i].live => i = Root /\ node[i] = x
      BY <1>3, <1>4
    <2>4. NlinkOk(x, Root, {}, DirsOf(node))
      BY <1>3, <2>2 DEF NlinkOk
    <2>5. QED
      BY <1>5, <1>6, <2>1, <2>3, <2>4 DEF TreeInv
  <1>8. PoolOk(node, mem, tii, lost)
    <2>1. LiveOf(node) = {Root} /\ InfosOf(tii) = {Root}
      BY <1>1, <1>3, <1>4 DEF LiveOf, InfosOf, Init
    <2>2. \A i \in Inos : OwnPages(node[i]) = 0
      <3>1. OwnPages(x) = SymPages(x) /\ x.kind = "dir"
        BY <1>3, NewNodeIs DEF x, IsDir
      <3>2. OwnPages(x) = 0
        BY <3>1 DEF SymPages
      <3>3. QED
        BY <1>4, <3>2, NoNodeIs
    <2>3. PagesOf(Weight(node)) = {}
      BY <2>2 DEF PagesOf, Weight
    <2>4. Cardinality({Root}) = 1 /\ Cardinality({}) = 0 /\ IsFiniteSet({Root}) /\ IsFiniteSet({})
      BY FS_EmptySet, FS_Singleton
    <2>5. mem = MkMem(NPages - 1, InoPerPage - 1, NPages, NPages - 1) /\ lost = 0
      BY DEF Init, MkMem
    <2>6. /\ mem.pages = NPages - 1 /\ mem.ifree = InoPerPage - 1 /\ mem.bfree = NPages
          /\ mem.ffree = NPages - 1 /\ mem \in MemRecs
      BY <1>1, <2>5, MkMemIs
    <2>7. 1 + mem.ifree = 1 * InoPerPage /\ mem.pages + 1 + 0 + 0 = NPages
      BY <1>1, <2>6
    <2>8. Balanced(mem, 1, 0, 1, 0)
      BY <1>1, <2>6, <2>7 DEF Balanced
    <2>9. QED
      BY <2>1, <2>3, <2>4, <2>5, <2>8 DEF PoolOk
  <1>9. TypesOk
    BY <1>1 DEF TypesOk, Init, OpRecs
  <1>10. RootOk
    BY <1>1, <1>3, <1>4 DEF RootOk, Init
  <1>11. FreshOk
    BY <1>1, <1>3, <1>4 DEF FreshOk, Init
  <1>12. \A t \in Threads : op[t].k = "none"
    BY DEF Init, Idle
  <1>13. OpsOk
    BY <1>12 DEF OpsOk
  <1>14. ScanOk
    BY DEF ScanOk, Init, NoScan, MkScan
  <1>15. HandlesOk
    BY <1>6, <1>4 DEF HandlesOk, HandlesValid, Init
  <1>16. OrphansOk
    BY <1>3, <1>4 DEF OrphansOk
  <1>17. QED
    BY <1>7, <1>8, <1>9, <1>10, <1>11, <1>13, <1>14, <1>15, <1>16 DEF IInv
-----------------------------------------------------------------------------
(* The pool, after each kind of change of the inodes.                      *)
LEMMA OwnIs ==
  ASSUME NEW x \in NodeRecs
  PROVE  /\ OwnPages(x) \in Nat /\ SymPages(x) \in {0, 1} /\ XattrPages(x) \in {0, 1}
         /\ Len(x.pages) \in Nat
  <1>1. x.pages \in Seq(PageType)
    BY NodeFields
  <1>2. Len(x.pages) \in Nat
    BY <1>1, LenProperties
  <1>3. SymPages(x) \in {0, 1} /\ XattrPages(x) \in {0, 1}
    BY DEF SymPages, XattrPages
  <1>4. QED
    BY <1>2, <1>3 DEF OwnPages

(* The pages each inode owns.                                              *)
LEMMA WeightIs ==
  ASSUME NEW nd, NodesOk(nd)
  PROVE  /\ Weight(nd) \in [Inos -> Nat]
         /\ \A i \in Inos : Weight(nd)[i] = OwnPages(nd[i]) /\ nd[i] \in NodeRecs
  BY OwnIs DEF Weight, NodesOk

(* One inode has other pages.                                              *)
OwnSame(nd, r, i) == \A j \in Inos : j # i => OwnPages(r[j]) = OwnPages(nd[j])

Recounted(nd, r, i) ==
  /\ IsFiniteSet(PagesOf(Weight(r)))
  /\ Cardinality(PagesOf(Weight(nd))) \in Nat /\ Cardinality(PagesOf(Weight(r))) \in Nat
  /\ OwnPages(r[i]) \in Nat /\ OwnPages(nd[i]) \in Nat
  /\ Cardinality(PagesOf(Weight(r))) + OwnPages(nd[i]) =
       Cardinality(PagesOf(Weight(nd))) + OwnPages(r[i])

(* The pages of all inodes when those of one change.                       *)
LEMMA OwnChange ==
  ASSUME NEW nd, NodesOk(nd), NEW r, NodesOk(r), NEW i \in Inos,
         OwnSame(nd, r, i), IsFiniteSet(PagesOf(Weight(nd)))
  PROVE  Recounted(nd, r, i)
  <1> DEFINE V == Weight(nd)
             W == Weight(r)
  <1>1. /\ V \in [Inos -> Nat] /\ W \in [Inos -> Nat]
        /\ \A j \in Inos : V[j] = OwnPages(nd[j]) /\ W[j] = OwnPages(r[j])
    BY WeightIs
  <1> HIDE DEF V, W
  <1>2. \A j \in Inos : j # i => W[j] = V[j]
    BY <1>1 DEF OwnSame
  <1>3. IsFiniteSet(PagesOf(V))
    BY DEF V
  <1>4. /\ IsFiniteSet(PagesOf(W))
         /\ Cardinality(PagesOf(V)) \in Nat /\ Cardinality(PagesOf(W)) \in Nat
         /\ Cardinality(PagesOf(W)) + V[i] = Cardinality(PagesOf(V)) + W[i]
    BY <1>1, <1>2, <1>3, PagesOfChange
  <1>5. QED
    BY <1>1, <1>4 DEF V, W, Recounted

MaybePage(nd, r, d, b) ==
  \A j \in Inos : Len(r[j].pages) = Len(nd[j].pages) + IF j = d THEN b ELSE 0

Charged(m, b) == IF b = 1 THEN AcquirePmemb(m) ELSE m

(* Links come and go; a directory may have got a page.                     *)
LEMMA PoolLinks ==
  ASSUME NEW nd, NodesOk(nd), NEW r, NodesOk(r), SameNodes(nd, r), NEW m, NEW t, NEW x,
         PoolOk(nd, m, t, x), NEW d \in Inos, NEW b \in {0, 1}, b = 1 => HasPage(m),
         MaybePage(nd, r, d, b)
  PROVE  PoolOk(r, Charged(m, b), t, x)
  <1>1. LiveOf(r) = LiveOf(nd)
    BY DEF LiveOf, SameNodes
  <1>2. \A j \in Inos : /\ OwnPages(r[j]) \in Nat /\ OwnPages(nd[j]) \in Nat
                        /\ OwnPages(r[j]) = OwnPages(nd[j]) + IF j = d THEN b ELSE 0
    <2> SUFFICES ASSUME NEW j \in Inos
                 PROVE  /\ OwnPages(r[j]) \in Nat /\ OwnPages(nd[j]) \in Nat
                        /\ OwnPages(r[j]) = OwnPages(nd[j]) + IF j = d THEN b ELSE 0
      OBVIOUS
    <2>1. SymPages(r[j]) = SymPages(nd[j]) /\ XattrPages(r[j]) = XattrPages(nd[j])
      BY DEF SameNodes, SymPages, XattrPages
    <2>2. /\ SymPages(nd[j]) \in {0, 1} /\ XattrPages(nd[j]) \in {0, 1} /\ Len(nd[j].pages) \in Nat
          /\ OwnPages(r[j]) \in Nat /\ OwnPages(nd[j]) \in Nat
      BY OwnIs DEF NodesOk
    <2>3. Len(r[j].pages) = Len(nd[j].pages) + IF j = d THEN b ELSE 0
      BY DEF MaybePage
    <2>4. /\ OwnPages(r[j]) = Len(r[j].pages) + SymPages(nd[j]) + XattrPages(nd[j])
          /\ OwnPages(nd[j]) = Len(nd[j].pages) + SymPages(nd[j]) + XattrPages(nd[j])
      BY <2>1 DEF OwnPages
    <2>5. CASE j = d
      <3>1. Len(r[j].pages) = Len(nd[j].pages) + b
        BY <2>3, <2>5
      <3>2. QED
        BY <2>2, <2>4, <2>5, <3>1
    <2>6. CASE j # d
      BY <2>2, <2>3, <2>4, <2>6
    <2>7. QED
      BY <2>5, <2>6
  <1> DEFINE v == Cardinality(PagesOf(Weight(nd)))
             w == Cardinality(PagesOf(Weight(r)))
  <1>3. /\ IsFiniteSet(PagesOf(Weight(r))) /\ v \in Nat /\ w \in Nat
        /\ w + OwnPages(nd[d]) = v + OwnPages(r[d])
    <2>1. OwnSame(nd, r, d)
      BY <1>2 DEF OwnSame
    <2>2. IsFiniteSet(PagesOf(Weight(nd)))
      BY DEF PoolOk
    <2>3. Recounted(nd, r, d)
      BY <2>1, <2>2, OwnChange
    <2>4. QED
      BY <2>3 DEF Recounted
  <1>4. w = v + b
    BY <1>2, <1>3
  <1> HIDE DEF v, w
  <1>5. Balanced(m, Cardinality(LiveOf(nd)), v, Cardinality(InfosOf(t)), x)
    BY DEF PoolOk, v
  <1>6. Balanced(Charged(m, b), Cardinality(LiveOf(nd)), w, Cardinality(InfosOf(t)), x)
    <2>1. CASE b = 1
      BY <1>4, <1>5, <2>1, BalPage DEF Charged
    <2>2. CASE b = 0
      <3>1. w = v
        BY <1>3, <1>4, <2>2
      <3>2. QED
        BY <1>5, <2>2, <3>1 DEF Charged
    <2>3. QED
      BY <2>1, <2>2
  <1>7. QED
    BY <1>1, <1>3, <1>6 DEF PoolOk, v, w

(* A set of inodes with one more or one less.                              *)
LEMMA OneIno ==
  ASSUME NEW S, IsFiniteSet(S), NEW i
  PROVE  /\ Cardinality(S) \in Nat
         /\ i \notin S => IsFiniteSet(S \cup {i}) /\ Cardinality(S \cup {i}) = Cardinality(S) + 1
         /\ i \in S => /\ IsFiniteSet(S \ {i}) /\ Cardinality(S \ {i}) = Cardinality(S) - 1
                       /\ Cardinality(S) > 0
  <1>1. Cardinality(S) \in Nat
    BY FS_CardinalityType
  <1>2. i \notin S => IsFiniteSet(S \cup {i}) /\ Cardinality(S \cup {i}) = Cardinality(S) + 1
    BY FS_AddElement
  <1>3. i \in S => /\ IsFiniteSet(S \ {i}) /\ Cardinality(S \ {i}) = Cardinality(S) - 1
                   /\ Cardinality(S) # 0
    BY FS_RemoveElement, FS_EmptySet
  <1>4. QED
    BY <1>1, <1>2, <1>3

(* An inode_info comes, or goes.                                           *)
LEMMA PoolInfo ==
  ASSUME NEW nd, NEW m, NEW t, NEW x, PoolOk(nd, m, t, x), NEW i \in Inos, NEW u
  PROVE  /\ t[i] = "none" /\ m.ffree > 0 /\ InfosOf(u) = InfosOf(t) \cup {i}
                => PoolOk(nd, AllocIi(m), u, x)
         /\ t[i] # "none" /\ InfosOf(u) = InfosOf(t) \ {i} => PoolOk(nd, FreeIi(m), u, x)
  <1> DEFINE S == InfosOf(t)
             c == Cardinality(S)
             v == Cardinality(LiveOf(nd))
             w == Cardinality(PagesOf(Weight(nd)))
  <1>1. IsFiniteSet(S) /\ Balanced(m, v, w, c, x)
    BY DEF PoolOk
  <1>2. i \in S <=> t[i] # "none"
    BY DEF InfosOf
  <1> HIDE DEF S, v, w
  <1>3. /\ i \notin S => IsFiniteSet(S \cup {i}) /\ Cardinality(S \cup {i}) = c + 1
        /\ i \in S => IsFiniteSet(S \ {i}) /\ Cardinality(S \ {i}) = c - 1 /\ c > 0
    BY <1>1, OneIno
  <1> HIDE DEF c
  <1>4. ASSUME t[i] = "none", m.ffree > 0, InfosOf(u) = S \cup {i}
        PROVE  PoolOk(nd, AllocIi(m), u, x)
    <2>1. IsFiniteSet(InfosOf(u)) /\ Cardinality(InfosOf(u)) = c + 1
      BY <1>2, <1>3, <1>4
    <2>2. Balanced(AllocIi(m), v, w, Cardinality(InfosOf(u)), x)
      BY <1>1, <1>4, <2>1, BalIi
    <2>3. QED
      BY <2>1, <2>2 DEF PoolOk, v, w
  <1>5. ASSUME t[i] # "none", InfosOf(u) = S \ {i}
        PROVE  PoolOk(nd, FreeIi(m), u, x)
    <2>1. IsFiniteSet(InfosOf(u)) /\ Cardinality(InfosOf(u)) = c - 1 /\ c > 0
      BY <1>2, <1>3, <1>5
    <2>2. Balanced(FreeIi(m), v, w, Cardinality(InfosOf(u)), x)
      BY <1>1, <2>1, BalIi
    <2>3. QED
      BY <2>1, <2>2 DEF PoolOk, v, w
  <1>6. QED
    BY <1>4, <1>5 DEF S

(* An inode is made, with or without a page of its own.                    *)
LEMMA PoolNew ==
  ASSUME NEW nd, NodesOk(nd), NEW m, NEW t, NEW x, PoolOk(nd, m, t, x), HasInode(m),
         NEW i \in Inos, ~nd[i].live, NEW y \in NodeRecs, NodeOk(y), y.live,
         OwnPages(y) \in {0, 1}, OwnPages(y) = 1 => HasPage(AcquireInode(m)),
         NEW r, r = [nd EXCEPT ![i] = y]
  PROVE  PoolOk(r, IF OwnPages(y) = 1 THEN AcquirePmemb(AcquireInode(m)) ELSE AcquireInode(m), t, x)
  <1> DEFINE S == LiveOf(nd)
             u == Cardinality(InfosOf(t))
             v == Cardinality(S)
             w == Cardinality(PagesOf(Weight(nd)))
             w2 == Cardinality(PagesOf(Weight(r)))
             q == AcquireInode(m)
  <1>1. IsFiniteSet(S) /\ IsFiniteSet(PagesOf(Weight(nd))) /\ IsFiniteSet(InfosOf(t))
          /\ Balanced(m, v, w, u, x)
    BY DEF PoolOk
  <1>2. NodesOk(r) /\ r[i] = y /\ \A j \in Inos : j # i => r[j] = nd[j]
    BY DEF NodesOk
  <1>3. i \notin S /\ LiveOf(r) = S \cup {i}
    BY <1>2 DEF LiveOf
  <1>4. OwnPages(nd[i]) = 0
    BY NoNodeIs DEF NodesOk, NodeOk
  <1>5. /\ IsFiniteSet(PagesOf(Weight(r))) /\ w \in Nat /\ w2 \in Nat
        /\ w2 + OwnPages(nd[i]) = w + OwnPages(r[i])
    <2>1. OwnSame(nd, r, i)
      BY <1>2 DEF OwnSame
    <2>2. NodesOk(r)
      BY <1>2
    <2>3. IsFiniteSet(PagesOf(Weight(nd)))
      BY <1>1
    <2>4. Recounted(nd, r, i)
      BY <2>1, <2>2, <2>3, OwnChange
    <2>5. QED
      BY <2>4 DEF Recounted
  <1>6. w2 = w + OwnPages(y)
    BY <1>2, <1>4, <1>5
  <1> HIDE DEF S, u, w, w2
  <1>7. IsFiniteSet(S \cup {i}) /\ Cardinality(S \cup {i}) = v + 1
    BY <1>1, <1>3, OneIno
  <1> HIDE DEF v
  <1>8. Balanced(q, v + 1, w, u, x)
    BY <1>1, BalInode
  <1> HIDE DEF q
  <1>9. Balanced(IF OwnPages(y) = 1 THEN AcquirePmemb(q) ELSE q, v + 1, w2, u, x)
    <2>1. CASE OwnPages(y) = 1
      <3>1. HasPage(q)
        BY <2>1 DEF q
      <3>2. Balanced(AcquirePmemb(q), v + 1, w + 1, u, x)
        BY <1>8, <3>1, BalPage
      <3>3. QED
        BY <1>6, <2>1, <3>2
    <2>2. CASE OwnPages(y) = 0
      <3>1. w2 = w
        BY <1>5, <1>6, <2>2
      <3>2. QED
        BY <1>8, <2>2, <3>1
    <2>3. QED
      BY <2>1, <2>2
  <1>10. QED
    BY <1>1, <1>3, <1>5, <1>7, <1>9 DEF PoolOk, q, u, w2

(* An inode was acquired and given back.                                   *)
LEMMA PoolFail ==
  ASSUME NEW nd, NEW m, NEW t, NEW x, PoolOk(nd, m, t, x), HasInode(m)
  PROVE  PoolOk(nd, ReleaseInode(AcquireInode(m)), t, x)
  <1> DEFINE u == Cardinality(InfosOf(t))
             v == Cardinality(LiveOf(nd))
             w == Cardinality(PagesOf(Weight(nd)))
             q == AcquireInode(m)
  <1>1. Balanced(m, v, w, u, x)
    BY DEF PoolOk
  <1> HIDE DEF u, v, w
  <1>2. Balanced(q, v + 1, w, u, x)
    BY <1>1, BalInode
  <1>3. v \in Nat /\ w \in Nat
    BY <1>1 DEF Balanced
  <1> HIDE DEF q
  <1>4. v + 1 > 0 /\ (v + 1) - 1 = v /\ 0 \in Nat /\ 0 + 0 <= w
    BY <1>3
  <1> DEFINE v1 == v + 1
  <1> HIDE DEF v1
  <1>5. Balanced(q, v1, w, u, x) /\ v1 > 0 /\ v1 - 1 = v
    BY <1>2, <1>4 DEF v1
  <1>6. Balanced(ReleaseInode(q), v1 - 1, w, u, x)
    BY <1>4, <1>5, BalFree
  <1>7. Balanced(ReleaseInode(q), v, w, u, x)
    BY <1>5, <1>6
  <1>8. QED
    BY <1>7 DEF PoolOk, q, u, v, w

(* An inode is freed; a symlink of the size of i_symlink loses its page.   *)
LEMMA PoolFree ==
  ASSUME NEW nd, NodesOk(nd), NEW m, NEW t, NEW x, PoolOk(nd, m, t, x),
         NEW i \in Inos, nd[i].live, NEW r, r = [nd EXCEPT ![i] = NoNode]
  PROVE  PoolOk(r, ReleasePmembs(ReleaseInode(m), Released(nd[i])), t,
                x + IF nd[i].kind = "lnk32" THEN 1 ELSE 0)
  <1> DEFINE S == LiveOf(nd)
             u == Cardinality(InfosOf(t))
             v == Cardinality(S)
             w == Cardinality(PagesOf(Weight(nd)))
             w2 == Cardinality(PagesOf(Weight(r)))
             n == Released(nd[i])
             y == IF nd[i].kind = "lnk32" THEN 1 ELSE 0
  <1>1. IsFiniteSet(S) /\ IsFiniteSet(PagesOf(Weight(nd))) /\ IsFiniteSet(InfosOf(t))
          /\ Balanced(m, v, w, u, x)
    BY DEF PoolOk
  <1>2. NodesOk(r) /\ r[i] = NoNode /\ \A j \in Inos : j # i => r[j] = nd[j]
    BY NoNodeIs DEF NodesOk
  <1>3. i \in S /\ LiveOf(r) = S \ {i}
    BY <1>2, NoNodeIs DEF LiveOf
  <1>4. OwnPages(r[i]) = 0
    BY <1>2, NoNodeIs
  <1>5. /\ IsFiniteSet(PagesOf(Weight(r))) /\ w \in Nat /\ w2 \in Nat
        /\ w2 + OwnPages(nd[i]) = w + OwnPages(r[i])
    <2>1. OwnSame(nd, r, i)
      BY <1>2 DEF OwnSame
    <2>2. NodesOk(r)
      BY <1>2
    <2>3. Recounted(nd, r, i)
      BY <1>1, <2>1, <2>2, OwnChange
    <2>4. QED
      BY <2>3 DEF Recounted
  <1>6. n \in Nat /\ y \in Nat /\ OwnPages(nd[i]) = n + y
    <2>1. /\ XattrPages(nd[i]) \in {0, 1} /\ Len(nd[i].pages) \in Nat
      BY OwnIs DEF NodesOk
    <2>2. QED
      <3> DEFINE k == nd[i].kind
                 a == Len(nd[i].pages)
                 b == XattrPages(nd[i])
      <3>1. /\ OwnPages(nd[i]) = a + (IF k \in {"lnk32", "longlnk"} THEN 1 ELSE 0) + b
            /\ n = a + b + IF k = "longlnk" THEN 1 ELSE 0
        BY DEF OwnPages, Released, SymPages
      <3> HIDE DEF k, a, b, n
      <3>2. a \in Nat /\ b \in Nat
        BY <2>1 DEF a, b
      <3>3. y = IF k = "lnk32" THEN 1 ELSE 0
        BY DEF k
      <3> HIDE DEF y
      <3>4. CASE k = "lnk32"
        BY <3>1, <3>2, <3>3, <3>4
      <3>5. CASE k = "longlnk"
        BY <3>1, <3>2, <3>3, <3>5
      <3>6. CASE k \notin {"lnk32", "longlnk"}
        BY <3>1, <3>2, <3>3, <3>6
      <3>7. QED
        BY <3>4, <3>5, <3>6
  <1> HIDE DEF S, u, w, w2, n, y
  <1>7. w2 = (w - n) - y /\ n + y <= w
    BY <1>4, <1>5, <1>6
  <1>8. IsFiniteSet(S \ {i}) /\ Cardinality(S \ {i}) = v - 1 /\ v > 0
    BY <1>1, <1>3, OneIno
  <1> HIDE DEF v
  <1>9. Balanced(ReleasePmembs(ReleaseInode(m), n), v - 1, (w - n) - y, u, x + y)
    BY <1>1, <1>6, <1>7, <1>8, BalFree
  <1>10. QED
    BY <1>1, <1>3, <1>5, <1>7, <1>8, <1>9 DEF PoolOk, u, w2, n, y

(* An inode gets the page of its attributes.                               *)
MorePages(nd, i, y) ==
  y \in NodeRecs /\ NodeOk(y) /\ nd[i].live /\ y.live /\ OwnPages(y) = OwnPages(nd[i]) + 1

(* The pool then.                                                          *)
LEMMA PoolXattr ==
  ASSUME NEW nd, NodesOk(nd), NEW m, NEW t, NEW x, PoolOk(nd, m, t, x), HasPage(m),
         NEW i \in Inos, NEW y, MorePages(nd, i, y), NEW r, r = [nd EXCEPT ![i] = y]
  PROVE  PoolOk(r, AcquirePmemb(m), t, x)
  <1> DEFINE u == Cardinality(InfosOf(t))
             v == Cardinality(LiveOf(nd))
             w == Cardinality(PagesOf(Weight(nd)))
             w2 == Cardinality(PagesOf(Weight(r)))
  <1>1. /\ y \in NodeRecs /\ NodeOk(y) /\ nd[i].live /\ y.live
        /\ OwnPages(y) = OwnPages(nd[i]) + 1
    BY DEF MorePages
  <1>2. IsFiniteSet(PagesOf(Weight(nd))) /\ Balanced(m, v, w, u, x)
    BY DEF PoolOk
  <1>3. NodesOk(r) /\ r[i] = y /\ \A j \in Inos : j # i => r[j] = nd[j]
    BY <1>1 DEF NodesOk
  <1>4. LiveOf(r) = LiveOf(nd)
    BY <1>1, <1>3 DEF LiveOf
  <1>5. /\ IsFiniteSet(PagesOf(Weight(r))) /\ w \in Nat /\ w2 \in Nat
        /\ OwnPages(nd[i]) \in Nat
        /\ w2 + OwnPages(nd[i]) = w + OwnPages(r[i])
    <2>1. OwnSame(nd, r, i)
      BY <1>3 DEF OwnSame
    <2>2. NodesOk(r)
      BY <1>3
    <2>3. Recounted(nd, r, i)
      BY <1>2, <2>1, <2>2, OwnChange
    <2>4. QED
      BY <2>3 DEF Recounted
  <1>6. w2 = w + 1
    BY <1>1, <1>3, <1>5
  <1> HIDE DEF u, v, w, w2
  <1>7. Balanced(AcquirePmemb(m), v, w + 1, u, x)
    BY <1>2, BalPage
  <1>8. QED
    BY <1>4, <1>5, <1>6, <1>7 DEF PoolOk, u, v, w, w2
-----------------------------------------------------------------------------
(* The rest of the invariant, without the tree and the pool.               *)
Rests == TypesOk /\ RootOk /\ FreshOk /\ OpsOk /\ ScanOk /\ HandlesOk /\ OrphansOk

(* The invariant in three parts.                                           *)
LEMMA IInvIs == IInv <=> TreeInv(node) /\ PoolOk(node, mem, tii, lost) /\ Rests
  BY DEF IInv, Rests

(* ... also in the next state.                                             *)
LEMMA IInvIsPrime == IInv' <=> TreeInv(node') /\ PoolOk(node', mem', tii', lost') /\ Rests'
  BY DEF IInv, Rests

(* A step that changes links, in directories that nobody else uses.        *)
LinkStep ==
  /\ TreeInv(node') /\ SameNodes(node, node')
  /\ \A j \in Inos : Stays(node[j].pages, node'[j].pages)
  /\ KeepScan(node') /\ UNCHANGED <<tiiVars, top, uaf, lost>>
  /\ op' \in [Threads -> OpRecs] /\ \A t \in Threads : op'[t] = op[t] \/ op'[t].k = "none"
  /\ \A l \in LinksOf(node) \ LinksOf(node') : held[l[3]] > 0 /\ ~Locked(l[1])
  /\ \A l \in LinksOf(node') \ LinksOf(node) :
       /\ l[3] \in tab
       /\ \A t \in Threads : op'[t].k = "create" => op'[t].d # l[1] /\ op'[t].i # l[3]
  /\ \A t \in Threads : op'[t].k = "create" =>
       /\ node'[op'[t].d].nlink > 0 /\ node'[op'[t].i].size = 0
       /\ IsDir(node[op'[t].i]) => node'[op'[t].i].nlink > 0

(* What is due and what was seen stay so, as far as they stay.             *)
LEMMA StaysAt ==
  ASSUME NEW P, NEW Q, Stays(P, Q), NEW pos, NEW E
  PROVE  /\ DueAt(P, pos, E) => DueAt(Q, pos, E \cap Dirents(Q))
         /\ SeenAt(P, pos, E) => SeenAt(Q, pos, E \cap Dirents(Q))
  BY DEF Stays, DueAt, SeenAt

(* The reader keeps its place when dirents stay where they are.            *)
LEMMA KeepsScan ==
  ASSUME ScanOk, KeepScan(node'), UNCHANGED held, \A i : Creating(i)' => Creating(i),
         \A j \in Inos : Stays(node[j].pages, node'[j].pages)
  PROVE  ScanOk'
  <1>1. CASE rd.d = 0
    <2>1. rd' = rd
      BY <1>1 DEF KeepScan
    <2>2. QED
      BY <1>1, <2>1 DEF ScanOk
  <1>2. CASE rd.d # 0
    <2>1. PICK d, pos, due, seen, missed, dup :
            rd = MkScan(d, pos, due, seen, missed, dup) /\ missed = {} /\ dup = FALSE
      BY DEF ScanOk
    <2>2. rd = MkScan(d, pos, due, seen, missed, dup)
      BY <2>1
    <2>3. rd.d = d /\ rd.pos = pos /\ rd.due = due /\ rd.seen = seen
      BY <2>2, MkScanIs
    <2> DEFINE now == Dirents(node'[d].pages)
               due2 == due \cap now
               seen2 == seen \cap now
    <2>4. rd' = ScanSet(rd, due2, seen2)
      BY <1>2, <2>3 DEF KeepScan, ScanSet
    <2> HIDE DEF due2, seen2, now
    <2>5. rd' = MkScan(d, pos, due2, seen2, missed, dup)
      BY <2>2, <2>4, ScanExcept
    <2>6. rd' = MkScan(d, pos, due2, seen2, {}, FALSE)
      BY <2>1, <2>5
    <2>7. rd'.d = d /\ rd'.pos = pos /\ rd'.due = due2 /\ rd'.seen = seen2
      BY <2>5, MkScanIs
    <2>8. /\ d \in Inos /\ pos \in Nat /\ held[d] > 0 /\ ~Creating(d)
          /\ DueAt(node[d].pages, pos, due) /\ SeenAt(node[d].pages, pos, seen)
      <3>1. /\ rd.d \in Inos /\ rd.pos \in Nat /\ held[rd.d] > 0 /\ ~Creating(rd.d)
            /\ DueAt(node[rd.d].pages, rd.pos, rd.due) /\ SeenAt(node[rd.d].pages, rd.pos, rd.seen)
        BY <1>2 DEF ScanOk
      <3>2. QED
        BY <2>3, <3>1
    <2>9. DueAt(node'[d].pages, pos, due2) /\ SeenAt(node'[d].pages, pos, seen2)
      BY <2>8, StaysAt DEF due2, seen2, now
    <2>10. ~Creating(d)'
      BY <2>8
    <2>11. ~Creating(rd.d)'
      BY <2>7, <2>10 DEF Creating
    <2>12. QED
      BY <2>6, <2>7, <2>8, <2>9, <2>11 DEF ScanOk
  <1>3. QED
    BY <1>1, <1>2

(* Such a step keeps the parts of the invariant besides the tree and the   *)
(* pool.                                                                   *)
LEMMA LinkStepKeeps == IInv /\ LinkStep => Rests'
  <1> SUFFICES ASSUME IInv, LinkStep PROVE Rests'
    OBVIOUS
  <1>1. /\ TypesOk /\ RootOk /\ FreshOk /\ OpsOk /\ ScanOk /\ HandlesOk /\ OrphansOk
        /\ NodesOk(node) /\ NodesOk(node')
    BY DEF IInv, LinkStep, TreeInv
  <1>2. tii' = tii /\ ref' = ref /\ tab' = tab /\ held' = held /\ top' = top /\ uaf' = uaf
          /\ lost' = lost
    BY DEF LinkStep, tiiVars
  <1>3. TypesOk'
    BY <1>1, <1>2 DEF LinkStep, TypesOk
  <1>4. \A j \in Inos : (node'[j].live <=> node[j].live) /\ (IsDir(node'[j]) <=> IsDir(node[j]))
    BY DEF LinkStep, SameNodes
  <1>5. RootOk'
    BY <1>1, <1>2, <1>4, NsAssumption DEF RootOk
  <1>6. FreshOk'
    BY <1>1, <1>2, <1>4 DEF FreshOk
  <1>7. \A t \in Threads : op'[t].k # "none" => op'[t] = op[t]
    BY DEF LinkStep
  <1>8. \A i : Creating(i)' => Creating(i)
    BY <1>7 DEF Creating
  <1>9. ScanOk'
    BY <1>1, <1>2, <1>8, KeepsScan DEF LinkStep
  <1>10. OpsOk'
    <2>1. ASSUME NEW t \in Threads, op'[t].k = "create" PROVE CreateOk(op[t])' /\ op'[t] = op[t]
      <3>1. op'[t] = op[t] /\ CreateOk(op[t]) /\ op[t] \in OpRecs /\ op[t].k = "create"
        BY <1>1, <1>7, <2>1 DEF OpsOk, TypesOk
      <3>2. op[t].d \in Inos /\ op[t].i \in Inos
        BY <3>1, OpFacts
      <3>3. UsableDir(op[t].d)'
        <4>1. UsableDir(op[t].d)
          BY <3>1 DEF CreateOk
        <4>2. node'[op[t].d].nlink > 0
          BY <2>1, <3>1 DEF LinkStep
        <4>3. PICK d \in Inos : d = op[t].d
          BY <3>2
        <4>4. UsableDir(d) /\ node'[d].nlink > 0
          BY <4>1, <4>2, <4>3
        <4>5. UsableDir(d)'
          BY <1>2, <1>4, <1>8, <4>4 DEF UsableDir, Usable
        <4>6. op'[t].d = d
          BY <3>1, <4>3
        <4>7. QED
          BY <4>5, <4>6 DEF UsableDir, Usable, Creating
      <3>4. \A l \in LinksOf(node') : ~(l[1] = op[t].d /\ l[2] = op[t].n) /\ l[3] # op[t].i
        BY <2>1, <3>1 DEF CreateOk, LinkStep
      <3>5. node'[op[t].i].size = 0 /\ (IsDir(node'[op[t].i]) => node'[op[t].i].nlink > 0)
        BY <1>4, <2>1, <3>1, <3>2 DEF LinkStep
      <3>6. QED
        BY <1>2, <3>1, <3>3, <3>4, <3>5 DEF CreateOk
    <2>2. ASSUME NEW t \in Threads, op'[t].k \in {"found", "iget"}
          PROVE  LookupOk(op[t])' /\ op'[t] = op[t]
      <3>1. op'[t] = op[t] /\ LookupOk(op[t]) /\ op[t].k \in {"found", "iget"}
        BY <1>1, <1>7, <2>2 DEF OpsOk
      <3>2. PICK n \in Names : <<op[t].d, n, op[t].i>> \in LinksOf(node)
        BY <3>1 DEF LookupOk
      <3>3. Locked(op[t].d)
        BY <3>1 DEF Locked, Shared
      <3>4. <<op[t].d, n, op[t].i>> \in LinksOf(node')
        BY <3>2, <3>3 DEF LinkStep
      <3>5. QED
        BY <3>1, <3>4 DEF LookupOk
    <2>3. ASSUME NEW t \in Threads, NEW u \in Threads, u # t, op'[t].k = "create",
                 op'[u].k = "create"
          PROVE  op'[t].i # op'[u].i /\ op'[t].d # op'[u].d
      <3>1. op'[t] = op[t] /\ op'[u] = op[u]
        BY <1>7, <2>3
      <3>2. QED
        BY <1>1, <2>3, <3>1 DEF OpsOk
    <2>4. \A t \in Threads : op'[t].k = "create" => CreateOk(op[t])'
      BY <2>1, <2>1
    <2>5. \A t \in Threads : op'[t].k \in {"found", "iget"} => LookupOk(op[t])'
      BY <2>2
    <2>6. QED
      BY <2>3, <2>4, <2>5 DEF OpsOk
  <1>11. HandlesOk'
    <2>1. HandlesValid'
      BY <1>1, <1>2, <1>4 DEF HandlesOk, HandlesValid
    <2>2. \A l \in LinksOf(node') : l[3] \in tab
      BY <1>1 DEF HandlesOk, LinkStep
    <2>3. QED
      BY <1>1, <1>2, <2>1, <2>2 DEF HandlesOk
  <1>12. OrphansOk'
    <2> SUFFICES ASSUME NEW i \in Inos, node'[i].live, held[i] = 0, ~IsDir(node'[i])
                 PROVE  \E l \in LinksOf(node') : l[3] = i
      BY <1>2 DEF OrphansOk
    <2>1. PICK l \in LinksOf(node) : l[3] = i
      BY <1>1, <1>4 DEF OrphansOk
    <2>2. l \in LinksOf(node')
      BY <2>1 DEF LinkStep
    <2>3. QED
      BY <2>1, <2>2
  <1>13. QED
    BY <1>3, <1>5, <1>6, <1>9, <1>10, <1>11, <1>12 DEF Rests
-----------------------------------------------------------------------------
(* What a change of the links is to the users of the name space.           *)
Free2(L, l) == \A m \in L : ~(m[1] = l[1] /\ m[2] = l[2])

NameStep(L, K) ==
  \/ K = L
  \/ \E l \in K \ L : Free2(L, l) /\ K = L \cup {l}
  \/ \E l \in L \ K : \/ K = L \ {l}
                      \/ \E m \in K \ L : /\ m[3] = l[3] /\ Free2(L, m)
                                          /\ K = (L \ {l}) \cup {m}

(* What the guards of the calls say.                                       *)
LEMMA AbsentIs ==
  ASSUME IInv, NEW d \in Inos, NEW n \in Names, Absent(d, n)
  PROVE  /\ NoName(node, d, n) /\ ~Locked(d) /\ ~Creating(d)
         /\ node[d].live /\ IsDir(node[d]) /\ node[d].nlink > 0 /\ held[d] > 0 /\ UsableDir(d)
         /\ \A i : Free2(LinksOf(node), <<d, n, i>>) /\ <<d, n, i>> \notin LinksOf(node)
  <1>1. NodesOk(node)
    BY DEF IInv, TreeInv
  <1>2. NoName(node, d, n)
    BY <1>1, LookupLinks DEF Absent, NoName
  <1>3. \A l \in LinksOf(node) : l = <<l[1], l[2], l[3]>> /\ l[3] \in Inos
    BY <1>1, LinksIs
  <1>4. \A i : Free2(LinksOf(node), <<d, n, i>>)
    BY <1>2, <1>3 DEF NoName, Free2
  <1>5. \A i : <<d, n, i>> \notin LinksOf(node)
    BY <1>4 DEF Free2
  <1>6. QED
    BY <1>2, <1>4, <1>5 DEF Absent, UsableDir, Usable

(* ... about a name that is changed.                                       *)
LEMMA CachedIs ==
  ASSUME IInv, NEW d \in Inos, NEW n \in Names, Cached(d, n)
  PROVE  /\ InoOf(node, d, n) \in Inos /\ <<d, n, InoOf(node, d, n)>> \in LinksOf(node)
         /\ Usable(InoOf(node, d, n)) /\ held[InoOf(node, d, n)] > 0
         /\ ~Locked(d) /\ ~Creating(d) /\ UsableDir(d)
  <1>1. NodesOk(node)
    BY DEF IInv, TreeInv
  <1>2. InoOf(node, d, n) \in Inos /\ <<d, n, InoOf(node, d, n)>> \in LinksOf(node)
    BY <1>1, LookupLinks DEF Cached
  <1>3. QED
    BY <1>2 DEF Cached, UsableDir, Usable

(* What a creation in progress knows.                                      *)
LEMMA CreatingIs ==
  ASSUME IInv, NEW t \in Threads, op[t].k = "create"
  PROVE  /\ op[t].d \in Inos /\ op[t].i \in Inos /\ op[t].n \in Names /\ CreateOk(op[t])
         /\ op[t].d # op[t].i /\ op[t].i \in tab /\ node[op[t].i].live
         /\ Exclusive(op[t].d) /\ Locked(op[t].d) /\ Creating(op[t].i)
  <1>1. op[t] \in OpRecs /\ CreateOk(op[t])
    BY DEF IInv, TypesOk, OpsOk
  <1>2. op[t].d \in Inos /\ op[t].i \in Inos /\ op[t].n \in Names
    BY <1>1, OpFacts
  <1>3. Exclusive(op[t].d) /\ Locked(op[t].d) /\ Creating(op[t].i)
    BY DEF Exclusive, Locked, Creating
  <1>4. ~Creating(op[t].d)
    BY <1>1 DEF CreateOk, UsableDir
  <1>5. op[t].d # op[t].i
    BY <1>3, <1>4
  <1>6. held[op[t].i] = 1 /\ op[t].i # Root
    BY <1>1 DEF CreateOk
  <1>7. op[t].i \in tab /\ node[op[t].i].live
    BY <1>2, <1>6 DEF IInv, HandlesOk, HandlesValid
  <1>8. QED
    BY <1>1, <1>2, <1>3, <1>5, <1>7

(* The tree and the pool, when a dirent is added.                          *)
LEMMA AddStep ==
  ASSUME IInv, NEW d \in Inos, NEW n \in Names, NEW i \in Inos, CanLink(node, d, n, i),
         IsDir(node[i]) => \A l \in LinksOf(node) : l[3] # i, CanAdd(node, mem, d, n),
         node' = AddDirent(node, mem, d, n, i).nd, mem' = AddDirent(node, mem, d, n, i).m,
         tii' = tii, lost' = lost
  PROVE  WithLink(node, d, n, i, node') /\ TreeInv(node') /\ PoolOk(node', mem', tii', lost')
  <1>1. TreeInv(node) /\ TreeBase(node) /\ NodesOk(node) /\ PoolOk(node, mem, tii, lost)
    BY TreeIs DEF IInv, TreeInv
  <1>2. /\ WithLink(node, d, n, i, node')
        /\ mem' = IF NoRoom(node[d].pages, n) THEN AcquirePmemb(mem) ELSE mem
    <2>1. IsAdd(node, mem, d, n, i, AddDirent(node, mem, d, n, i))
      BY <1>1, AddKeeps
    <2>2. QED
      BY <2>1 DEF IsAdd
  <1>3. TreeInv(node')
    BY <1>1, AddTree
  <1> DEFINE b == IF NoRoom(node[d].pages, n) THEN 1 ELSE 0
  <1>4. b \in {0, 1} /\ (b = 1 => HasPage(mem))
    BY DEF CanAdd, NoRoom
  <1>5. mem' = IF b = 1 THEN AcquirePmemb(mem) ELSE mem
    BY <1>2
  <1>6. /\ SameNodes(node, node') /\ NodesOk(node')
        /\ \A j \in Inos : Len(node'[j].pages) = Len(node[j].pages)
                                + IF j = d /\ NoRoom(node[d].pages, n) THEN 1 ELSE 0
    BY <1>2, <1>3 DEF WithLink, TreeInv
  <1>7. MaybePage(node, node', d, b)
    <2> SUFFICES ASSUME NEW j \in Inos
                 PROVE  Len(node'[j].pages) = Len(node[j].pages) + IF j = d THEN b ELSE 0
      BY DEF MaybePage
    <2>1. Len(node'[j].pages) =
            Len(node[j].pages) + IF j = d /\ NoRoom(node[d].pages, n) THEN 1 ELSE 0
      BY <1>6
    <2>2. (IF j = d /\ NoRoom(node[d].pages, n) THEN 1 ELSE 0) = IF j = d THEN b ELSE 0
      OBVIOUS
    <2>3. QED
      BY <2>1, <2>2
  <1> HIDE DEF b
  <1>8. PoolOk(node', Charged(mem, b), tii, lost)
    BY <1>1, <1>4, <1>6, <1>7, PoolLinks
  <1>9. QED
    BY <1>2, <1>3, <1>5, <1>8 DEF Charged

(* toyfs_add_dentry at the end of a creation.                              *)
LEMMA AddDentryKeeps ==
  ASSUME IInv, NEW t \in Threads, AddDentry(t)
  PROVE  IInv' /\ NameStep(LinksOf(node), LinksOf(node'))
  <1>1. op[t].k = "create"
    BY DEF AddDentry
  <1>2. PICK d \in Inos, i \in Inos, n \in Names : d = op[t].d /\ i = op[t].i /\ n = op[t].n
    BY <1>1, CreatingIs
  <1>3. /\ CanAdd(node, mem, d, n)
        /\ node' = AddDirent(node, mem, d, n, i).nd /\ mem' = AddDirent(node, mem, d, n, i).m
        /\ KeepScan(node') /\ op' = [op EXCEPT ![t] = Idle]
        /\ UNCHANGED <<tiiVars, top, stale, uaf, lost>>
    BY <1>2 DEF AddDentry, Finish
  <1>4. /\ d # i /\ i \in tab /\ node[i].live /\ CreateOk(op[t])
    BY <1>1, <1>2, CreatingIs
  <1>5. /\ UsableDir(d) /\ held[i] = 1 /\ i # Root
        /\ \A l \in LinksOf(node) : ~(l[1] = d /\ l[2] = n) /\ l[3] # i
        /\ IsDir(node[i]) => node[i].nlink > 0
    BY <1>2, <1>4 DEF CreateOk
  <1>6. NoName(node, d, n) /\ Free2(LinksOf(node), <<d, n, i>>) /\ <<d, n, i>> \notin LinksOf(node)
    BY <1>5 DEF NoName, Free2
  <1>7. CanLink(node, d, n, i)
    BY <1>4, <1>5, <1>6 DEF CanLink, UsableDir, Usable
  <1>8. tii' = tii /\ lost' = lost
    BY <1>3 DEF tiiVars
  <1>9. WithLink(node, d, n, i, node') /\ TreeInv(node') /\ PoolOk(node', mem', tii', lost')
    BY <1>3, <1>5, <1>7, <1>8, AddStep
  <1>10. /\ SameNodes(node, node') /\ LinksOf(node') = LinksOf(node) \cup {<<d, n, i>>}
         /\ \A j \in Inos :
              /\ node'[j].nlink =
                   node[j].nlink + IF j = i \/ (j = d /\ IsDir(node[i])) THEN 1 ELSE 0
              /\ j # d => node'[j].size = node[j].size
              /\ Grows(node[j].pages, node'[j].pages)
    BY <1>9 DEF WithLink
  <1>11. \A j \in Inos : node[j].nlink \in Nat /\ (node[j].nlink > 0 => node'[j].nlink > 0)
    <2>1. \A j \in Inos : node[j].nlink \in Nat
      BY NodeFacts DEF IInv, TreeInv
    <2>2. QED
      BY <1>10, <2>1
  <1>12. op \in [Threads -> OpRecs] /\ Idle \in OpRecs /\ Idle.k = "none"
    BY OpFacts DEF IInv, TypesOk, OpRecs, Idle
  <1>13. /\ op' \in [Threads -> OpRecs]
         /\ \A u \in Threads : op'[u] = op[u] \/ op'[u].k = "none"
         /\ op'[t].k = "none" /\ \A u \in Threads : u # t => op'[u] = op[u]
    BY <1>3, <1>12
  <1>14. ASSUME NEW u \in Threads, op'[u].k = "create"
         PROVE  /\ op'[u].d # d /\ op'[u].i # i
                /\ node'[op'[u].d].nlink > 0 /\ node'[op'[u].i].size = 0
                /\ IsDir(node[op'[u].i]) => node'[op'[u].i].nlink > 0
    <2>1. u # t /\ op'[u] = op[u]
      BY <1>13, <1>14
    <2>2. op[u].d # d /\ op[u].i # i
      BY <1>1, <1>2, <1>14, <2>1 DEF IInv, OpsOk
    <2>3. /\ op[u].d \in Inos /\ op[u].i \in Inos /\ CreateOk(op[u]) /\ Creating(op[u].i)
      BY <1>14, <2>1, CreatingIs
    <2>4. op[u].i # d
      BY <1>5, <2>3 DEF UsableDir
    <2>5. node[op[u].d].nlink > 0 /\ node[op[u].i].size = 0
            /\ (IsDir(node[op[u].i]) => node[op[u].i].nlink > 0)
      BY <2>3 DEF CreateOk, UsableDir
    <2>6. QED
      BY <1>10, <1>11, <2>1, <2>2, <2>3, <2>4, <2>5
  <1>15. \A j \in Inos : Stays(node[j].pages, node'[j].pages)
    BY <1>10, GrowsIsStays
  <1>16. \A l \in LinksOf(node') \ LinksOf(node) : l[1] = d /\ l[3] = i
    BY <1>10
  <1>17. LinkStep
    BY <1>3, <1>4, <1>9, <1>10, <1>13, <1>14, <1>15, <1>16 DEF LinkStep
  <1>18. IInv'
    BY <1>9, <1>17, LinkStepKeeps, IInvIsPrime
  <1>19. NameStep(LinksOf(node), LinksOf(node'))
    BY <1>6, <1>10 DEF NameStep
  <1>20. QED
    BY <1>18, <1>19

(* What a step in other directories leaves alone.                          *)
LEMMA OthersCreate ==
  ASSUME IInv, NEW u \in Threads, op[u].k = "create"
  PROVE  /\ op[u].d \in Inos /\ op[u].i \in Inos
         /\ \A d : ~Locked(d) => op[u].d # d
         /\ \A d : ~Creating(d) => op[u].i # d
         /\ \A l \in LinksOf(node) : l[3] # op[u].i
         /\ node[op[u].d].nlink > 0 /\ IsDir(node[op[u].d]) /\ node[op[u].i].size = 0
         /\ IsDir(node[op[u].i]) => node[op[u].i].nlink > 0
  <1>1. /\ op[u].d \in Inos /\ op[u].i \in Inos /\ CreateOk(op[u])
        /\ Locked(op[u].d) /\ Creating(op[u].i)
    BY CreatingIs
  <1>2. /\ \A l \in LinksOf(node) : l[3] # op[u].i
        /\ node[op[u].d].nlink > 0 /\ IsDir(node[op[u].d]) /\ node[op[u].i].size = 0
        /\ IsDir(node[op[u].i]) => node[op[u].i].nlink > 0
    BY <1>1 DEF CreateOk, UsableDir
  <1>3. QED
    BY <1>1, <1>2

(* toyfs_add_dentry of one more name.                                      *)
LEMMA LinkKeeps ==
  ASSUME IInv, NEW d \in Inos, NEW n \in Names, NEW i \in Inos, Link(d, n, i)
  PROVE  IInv' /\ NameStep(LinksOf(node), LinksOf(node'))
  <1>1. /\ Usable(i) /\ ~IsDir(node[i]) /\ ~Creating(i) /\ Absent(d, n)
        /\ CanAdd(node, mem, d, n)
        /\ node' = AddDirent(node, mem, d, n, i).nd /\ mem' = AddDirent(node, mem, d, n, i).m
        /\ KeepScan(node') /\ UNCHANGED <<tiiVars, top, op, stale, uaf, lost>>
    BY DEF Link
  <1>2. /\ NoName(node, d, n) /\ ~Locked(d) /\ ~Creating(d)
        /\ node[d].live /\ IsDir(node[d]) /\ node[d].nlink > 0
        /\ Free2(LinksOf(node), <<d, n, i>>) /\ <<d, n, i>> \notin LinksOf(node)
    BY <1>1, AbsentIs
  <1>3. i # Root /\ i # d /\ node[i].live /\ i \in tab
    BY <1>1, <1>2 DEF IInv, RootOk, Usable, HandlesOk, HandlesValid
  <1>4. CanLink(node, d, n, i)
    BY <1>1, <1>2, <1>3 DEF CanLink
  <1>5. tii' = tii /\ lost' = lost /\ op' = op
    BY <1>1 DEF tiiVars
  <1>6. WithLink(node, d, n, i, node') /\ TreeInv(node') /\ PoolOk(node', mem', tii', lost')
    BY <1>1, <1>4, <1>5, AddStep
  <1>7. /\ SameNodes(node, node') /\ LinksOf(node') = LinksOf(node) \cup {<<d, n, i>>}
        /\ \A j \in Inos :
             /\ node'[j].nlink = node[j].nlink + IF j = i \/ (j = d /\ IsDir(node[i])) THEN 1 ELSE 0
             /\ j # d => node'[j].size = node[j].size
             /\ Grows(node[j].pages, node'[j].pages)
    BY <1>6 DEF WithLink
  <1>8. \A j \in Inos : node[j].nlink \in Nat /\ (node[j].nlink > 0 => node'[j].nlink > 0)
    <2>1. \A j \in Inos : node[j].nlink \in Nat
      BY NodeFacts DEF IInv, TreeInv
    <2>2. QED
      BY <1>7, <2>1
  <1>9. op' \in [Threads -> OpRecs]
    BY <1>5 DEF IInv, TypesOk
  <1>10. ASSUME NEW u \in Threads, op'[u].k = "create"
         PROVE  /\ op'[u].d # d /\ op'[u].i # i
                /\ node'[op'[u].d].nlink > 0 /\ node'[op'[u].i].size = 0
                /\ IsDir(node[op'[u].i]) => node'[op'[u].i].nlink > 0
    <2>1. op[u].k = "create"
      BY <1>5, <1>10
    <2>2. /\ op[u].d \in Inos /\ op[u].i \in Inos /\ op[u].d # d /\ op[u].i # d /\ op[u].i # i
          /\ node[op[u].d].nlink > 0 /\ node[op[u].i].size = 0
          /\ IsDir(node[op[u].i]) => node[op[u].i].nlink > 0
      BY <1>1, <1>2, <2>1, OthersCreate
    <2>3. QED
      BY <1>5, <1>7, <1>8, <2>2
  <1>11. \A j \in Inos : Stays(node[j].pages, node'[j].pages)
    BY <1>7, GrowsIsStays
  <1>12. \A l \in LinksOf(node') \ LinksOf(node) : l[1] = d /\ l[3] = i
    BY <1>7
  <1>13. LinkStep
    BY <1>1, <1>3, <1>5, <1>6, <1>7, <1>9, <1>10, <1>11, <1>12 DEF LinkStep
  <1>14. IInv'
    BY <1>6, <1>13, LinkStepKeeps, IInvIsPrime
  <1>15. NameStep(LinksOf(node), LinksOf(node'))
    BY <1>2, <1>7 DEF NameStep
  <1>16. QED
    BY <1>14, <1>15

(* A dirent and k links of its inode are removed.                          *)
LEMMA DropStep ==
  ASSUME IInv, NEW d \in Inos, NEW n \in Names, NEW i \in Inos, <<d, n, i>> \in LinksOf(node),
         NEW k \in {1, 2}, k = 2 => IsDir(node[i]) /\ node[i].size = 0 /\ ~Locked(i),
         ~Locked(d), ~Creating(d), held[i] > 0,
         node' = Lessened(node, d, n, i, k), mem' = mem, op' = op, KeepScan(node'),
         UNCHANGED <<tiiVars, top, uaf, lost>>
  PROVE  IInv' /\ NameStep(LinksOf(node), LinksOf(node'))
  <1>1. TreeInv(node) /\ TreeBase(node) /\ NodesOk(node) /\ PoolOk(node, mem, tii, lost)
        /\ OneParent(LinksOf(node), DirsOf(node))
    BY TreeIs DEF IInv, TreeInv
  <1>2. TreeInv(node')
    <2>1. k = 2 => IsDir(node[i]) /\ node[i].size = 0
      OBVIOUS
    <2>2. QED
      BY <1>1, <2>1, DropTree
  <1>3. /\ SameNodes(node, node')
        /\ LinksOf(node') = LinksOf(node) \ {<<d, n, i>>}
        /\ \A j \in Inos :
             /\ node'[j].nlink = node[j].nlink - IF j = i THEN k
                                                 ELSE IF j = d /\ IsDir(node[i]) THEN 1 ELSE 0
             /\ j # d => node'[j].size = node[j].size
             /\ Stays(node[j].pages, node'[j].pages)
             /\ Len(node'[j].pages) = Len(node[j].pages)
    <2> DEFINE r == Lessened(node, d, n, i, k)
    <2>1. k = 2 => IsDir(node[i]) /\ node[i].size = 0 /\ OneParent(LinksOf(node), DirsOf(node))
      BY <1>1
    <2>2. /\ TreeBase(r) /\ SameNodes(node, r) /\ DirsOf(r) = DirsOf(node)
          /\ LinksOf(r) = LinksOf(node) \ {<<d, n, i>>}
          /\ \A j \in Inos :
               /\ r[j].nlink = node[j].nlink - IF j = i THEN k
                                               ELSE IF j = d /\ IsDir(node[i]) THEN 1 ELSE 0
               /\ j # d => r[j].size = node[j].size /\ r[j].pages = node[j].pages
               /\ Stays(node[j].pages, r[j].pages)
               /\ Len(r[j].pages) = Len(node[j].pages)
      BY <1>1, <2>1, DropKeeps
    <2> HIDE DEF r
    <2>3. node' = r
      BY DEF r
    <2>4. QED
      BY <2>2, <2>3
  <1>4. PoolOk(node', mem', tii', lost')
    <2> DEFINE b == 0
    <2>1. \A j \in Inos : /\ Len(node'[j].pages) = Len(node[j].pages)
                          /\ Len(node[j].pages) \in Nat
      BY <1>1, <1>3, NodeFacts
    <2>2. MaybePage(node, node', d, b)
      BY <2>1 DEF MaybePage
    <2>3. b \in {0, 1} /\ b # 1
      OBVIOUS
    <2> HIDE DEF b
    <2>4. PoolOk(node', Charged(mem, b), tii, lost)
      <3>1. NodesOk(node') /\ SameNodes(node, node')
        BY <1>2, <1>3 DEF TreeInv
      <3>2. b \in {0, 1} /\ (b = 1 => HasPage(mem))
        BY <2>3
      <3>3. QED
        BY <1>1, <2>2, <3>1, <3>2, PoolLinks
    <2>5. QED
      BY <2>3, <2>4 DEF tiiVars, Charged
  <1>5. /\ d # i /\ (IsDir(node[i]) => node[i].nlink >= 2)
    BY <1>1, LinkEnds
  <1>6. \A j \in Inos : node[j].nlink \in Nat
    BY <1>1, NodeFacts
  <1>7. ASSUME NEW u \in Threads, op'[u].k = "create"
        PROVE  /\ node'[op'[u].d].nlink > 0 /\ node'[op'[u].i].size = 0
               /\ IsDir(node[op'[u].i]) => node'[op'[u].i].nlink > 0
    <2>1. op[u].k = "create"
      BY <1>7
    <2>2. /\ op[u].d \in Inos /\ op[u].i \in Inos /\ op[u].d # d /\ op[u].i # d
          /\ \A l \in LinksOf(node) : l[3] # op[u].i
          /\ node[op[u].d].nlink > 0 /\ IsDir(node[op[u].d]) /\ node[op[u].i].size = 0
          /\ IsDir(node[op[u].i]) => node[op[u].i].nlink > 0
          /\ ~Locked(i) => op[u].d # i
      BY <2>1, OthersCreate
    <2>3. op[u].i # i
      BY <2>2
    <2>4. node'[op[u].d].nlink > 0
      <3>1. CASE op[u].d = i
        BY <1>3, <1>5, <1>6, <2>2, <3>1
      <3>2. CASE op[u].d # i
        BY <1>3, <1>6, <2>2, <3>2
      <3>3. QED
        BY <3>1, <3>2
    <2>5. node'[op[u].i].size = 0 /\ node'[op[u].i].nlink = node[op[u].i].nlink
      BY <1>3, <1>6, <2>2, <2>3
    <2>6. QED
      BY <2>2, <2>4, <2>5
  <1>8. op' \in [Threads -> OpRecs]
    BY DEF IInv, TypesOk
  <1>9. \A l \in LinksOf(node) \ LinksOf(node') : l[1] = d /\ l[3] = i
    BY <1>3
  <1>10. LinksOf(node') \ LinksOf(node) = {}
    BY <1>3
  <1>11. LinkStep
    BY <1>2, <1>3, <1>7, <1>8, <1>9, <1>10 DEF LinkStep
  <1>12. IInv'
    BY <1>2, <1>4, <1>11, LinkStepKeeps, IInvIsPrime
  <1>13. NameStep(LinksOf(node), LinksOf(node'))
    BY <1>3 DEF NameStep
  <1>14. QED
    BY <1>12, <1>13

(* toyfs_remove_dentry.                                                    *)
LEMMA RemoveDentryKeeps ==
  ASSUME IInv, NEW d \in Inos, NEW n \in Names, RemoveDentry(d, n)
  PROVE  IInv' /\ NameStep(LinksOf(node), LinksOf(node'))
  <1>1. PICK i : i = InoOf(node, d, n)
    OBVIOUS
  <1>2. /\ Cached(d, n) /\ ~(IsDir(node[i]) /\ node[i].size > 0) /\ ~Locked(i)
        /\ node' = ForceFree(RemoveDirent(node, d, n, i), i)
        /\ KeepScan(node') /\ UNCHANGED <<tiiVars, mem, top, op, stale, uaf, lost>>
    BY <1>1 DEF RemoveDentry
  <1>3. /\ i \in Inos /\ <<d, n, i>> \in LinksOf(node) /\ held[i] > 0
        /\ ~Locked(d) /\ ~Creating(d)
    BY <1>1, <1>2, CachedIs
  <1>4. TreeInv(node) /\ node[i].size \in Nat
    BY <1>3, NodeFacts DEF IInv, TreeInv
  <1> DEFINE k == IF IsDir(node[i]) THEN 2 ELSE 1
  <1>5. node' = Lessened(node, d, n, i, k)
    BY <1>2, <1>3, <1>4, UnlinkIs
  <1>6. k \in {1, 2} /\ (k = 2 => IsDir(node[i]) /\ node[i].size = 0 /\ ~Locked(i))
    BY <1>2, <1>4
  <1> HIDE DEF k
  <1>7. QED
    BY <1>2, <1>3, <1>5, <1>6, DropStep

(* toyfs_rename over a name that is there.                                 *)
LEMMA RenameOverKeeps ==
  ASSUME IInv, NEW d \in Inos, NEW n \in Names, NEW d2 \in Inos, NEW n2 \in Names,
         RenameOver(d, n, d2, n2)
  PROVE  IInv' /\ NameStep(LinksOf(node), LinksOf(node'))
  <1>1. PICK i : i = InoOf(node, d, n)
    OBVIOUS
  <1>2. /\ Cached(d, n) /\ node' = GiveBack(RemoveDirent(node, d, n, i), i)
        /\ KeepScan(node') /\ UNCHANGED <<tiiVars, mem, top, op, uaf, lost>>
    BY <1>1 DEF RenameOver, GiveBack
  <1>3. /\ i \in Inos /\ <<d, n, i>> \in LinksOf(node) /\ held[i] > 0
        /\ ~Locked(d) /\ ~Creating(d)
    BY <1>1, <1>2, CachedIs
  <1>4. NodesOk(node) /\ d # i
    BY <1>3, LinkEnds, TreeIs DEF IInv, TreeInv
  <1>5. node' = Lessened(node, d, n, i, 1)
    BY <1>2, <1>3, <1>4, GiveBackIs
  <1> DEFINE k == 1
  <1>6. k \in {1, 2} /\ k # 2 /\ node' = Lessened(node, d, n, i, k)
    BY <1>5
  <1> HIDE DEF k
  <1>7. QED
    BY <1>2, <1>3, <1>6, DropStep

(* toyfs_rename to a free name.                                            *)
LEMMA RenameKeeps ==
  ASSUME IInv, NEW d \in Inos, NEW n \in Names, NEW d2 \in Inos, NEW n2 \in Names,
         Rename(d, n, d2, n2)
  PROVE  IInv' /\ NameStep(LinksOf(node), LinksOf(node'))
  <1>1. PICK i : i = InoOf(node, d, n)
    OBVIOUS
  <1> DEFINE a == MoveDirent(node, mem, d, n, d2, n2, i)
             l == <<d, n, i>>
             l2 == <<d2, n2, i>>
  <1>2. /\ Cached(d, n) /\ Absent(d2, n2) /\ (IsDir(node[i]) => d2 \in {d, Root})
        /\ CanAdd(node, mem, d2, n2) /\ node' = a.nd /\ mem' = a.m
        /\ KeepScan(node') /\ UNCHANGED <<tiiVars, top, op, stale, uaf, lost>>
    BY <1>1 DEF Rename
  <1>3. /\ i \in Inos /\ l \in LinksOf(node) /\ held[i] > 0 /\ ~Locked(d) /\ ~Creating(d)
    BY <1>1, <1>2, CachedIs
  <1>4. /\ NoName(node, d2, n2) /\ ~Locked(d2) /\ ~Creating(d2)
        /\ node[d2].live /\ IsDir(node[d2]) /\ node[d2].nlink > 0
        /\ Free2(LinksOf(node), l2) /\ l2 \notin LinksOf(node)
    BY <1>2, AbsentIs
  <1>5. TreeInv(node) /\ TreeBase(node) /\ NodesOk(node) /\ PoolOk(node, mem, tii, lost)
    BY TreeIs DEF IInv, TreeInv
  <1>6. d # i /\ i # Root /\ d2 # i /\ i \in tab
    <2>1. d # i /\ i # Root
      BY <1>3, <1>5, LinkEnds
    <2>2. i \in tab
      BY <1>3 DEF IInv, HandlesOk
    <2>3. QED
      BY <1>2, <1>4, <2>1, <2>2
  <1>7. /\ TreeInv(a.nd) /\ SameNodes(node, a.nd)
        /\ LinksOf(a.nd) = (LinksOf(node) \ {<<d, n, i>>}) \cup {<<d2, n2, i>>}
        /\ <<d2, n2, i>> \notin LinksOf(node)
        /\ a.m = IF NoRoom(node[d2].pages, n2) THEN AcquirePmemb(mem) ELSE mem
        /\ \A j \in Inos :
             /\ j # d /\ node[j].nlink > 0 => a.nd[j].nlink > 0
             /\ j # d /\ j # d2 => a.nd[j].size = node[j].size
             /\ Stays(node[j].pages, a.nd[j].pages)
             /\ Len(a.nd[j].pages) =
                  Len(node[j].pages) + IF j = d2 /\ NoRoom(node[d2].pages, n2) THEN 1 ELSE 0
    <2>1. /\ WithMove(node, d, n, d2, n2, i, a.nd)
          /\ a.m = IF NoRoom(node[d2].pages, n2) THEN AcquirePmemb(mem) ELSE mem
      <3>1. CanMove(node, d, n, d2, n2, i)
        BY <1>3, <1>4, <1>6 DEF CanMove
      <3>2. i \in Inos
        BY <1>3
      <3>3. IsMove(node, mem, d, n, d2, n2, i, MoveDirent(node, mem, d, n, d2, n2, i))
        BY <1>5, <3>1, <3>2, MoveTree
      <3>4. QED
        BY <3>3 DEF IsMove
    <2> HIDE DEF a
    <2>2. QED
      BY <2>1 DEF WithMove
  <1> HIDE DEF a, l, l2
  <1> DEFINE b == IF NoRoom(node[d2].pages, n2) THEN 1 ELSE 0
  <1>8. b \in {0, 1} /\ (b = 1 => HasPage(mem)) /\ mem' = IF b = 1 THEN AcquirePmemb(mem) ELSE mem
    BY <1>2, <1>7 DEF CanAdd, NoRoom
  <1>9. MaybePage(node, node', d2, b)
    <2> SUFFICES ASSUME NEW j \in Inos
                 PROVE  Len(node'[j].pages) = Len(node[j].pages) + IF j = d2 THEN b ELSE 0
      BY DEF MaybePage
    <2>1. Len(node'[j].pages) =
            Len(node[j].pages) + IF j = d2 /\ NoRoom(node[d2].pages, n2) THEN 1 ELSE 0
      BY <1>2, <1>7
    <2>2. (IF j = d2 /\ NoRoom(node[d2].pages, n2) THEN 1 ELSE 0) = IF j = d2 THEN b ELSE 0
      OBVIOUS
    <2>3. QED
      BY <2>1, <2>2
  <1> HIDE DEF b
  <1>10. TreeInv(node') /\ SameNodes(node, node') /\ NodesOk(node')
    BY <1>2, <1>7 DEF TreeInv
  <1>11. PoolOk(node', mem', tii', lost')
    <2>1. PoolOk(node', Charged(mem, b), tii, lost)
      BY <1>5, <1>8, <1>9, <1>10, PoolLinks
    <2>2. QED
      BY <1>2, <1>8, <2>1 DEF tiiVars, Charged
  <1>12. LinksOf(node') = (LinksOf(node) \ {l}) \cup {l2} /\ l2 \notin LinksOf(node)
    BY <1>2, <1>7 DEF l, l2
  <1>13. \A j \in Inos :
             /\ j # d /\ node[j].nlink > 0 => node'[j].nlink > 0
             /\ j # d /\ j # d2 => node'[j].size = node[j].size
             /\ Stays(node[j].pages, node'[j].pages)
    BY <1>2, <1>7
  <1>14. ASSUME NEW u \in Threads, op'[u].k = "create"
         PROVE  /\ op'[u].d # d2 /\ op'[u].i # i
                /\ node'[op'[u].d].nlink > 0 /\ node'[op'[u].i].size = 0
                /\ IsDir(node[op'[u].i]) => node'[op'[u].i].nlink > 0
    <2>1. op[u].k = "create" /\ op' = op
      BY <1>2, <1>14
    <2>2. /\ op[u].d \in Inos /\ op[u].i \in Inos /\ op[u].d # d /\ op[u].i # d
          /\ op[u].d # d2 /\ op[u].i # d2
          /\ \A m \in LinksOf(node) : m[3] # op[u].i
          /\ node[op[u].d].nlink > 0 /\ IsDir(node[op[u].d]) /\ node[op[u].i].size = 0
          /\ IsDir(node[op[u].i]) => node[op[u].i].nlink > 0
      BY <1>3, <1>4, <2>1, OthersCreate
    <2>3. op[u].i # i
      BY <1>3, <2>2 DEF l
    <2>4. QED
      BY <1>13, <2>1, <2>2, <2>3
  <1>15. l[1] = d /\ l[3] = i /\ l2[1] = d2 /\ l2[3] = i
    BY DEF l, l2
  <1>16. op' \in [Threads -> OpRecs] /\ op' = op
    BY <1>2 DEF IInv, TypesOk
  <1>17. /\ \A m \in LinksOf(node) \ LinksOf(node') : m = l
         /\ \A m \in LinksOf(node') \ LinksOf(node) : m = l2
    BY <1>12
  <1>18. LinkStep
    BY <1>2, <1>3, <1>6, <1>10, <1>13, <1>14, <1>15, <1>16, <1>17 DEF LinkStep
  <1>19. IInv'
    BY <1>10, <1>11, <1>18, LinkStepKeeps, IInvIsPrime
  <1>20. NameStep(LinksOf(node), LinksOf(node'))
    BY <1>3, <1>4, <1>12, <1>15 DEF NameStep
  <1>21. QED
    BY <1>19, <1>20
-----------------------------------------------------------------------------
(* A step that changes no link.  An inode is kept for a call that uses it. *)
Kept(j) ==
  /\ held[j] > 0 => held'[j] > 0
  /\ tii[j] = "full" => tii'[j] = "full"
  /\ node'[j].live = node[j].live /\ node'[j].kind = node[j].kind
  /\ node'[j].nlink = node[j].nlink /\ node'[j].size = node[j].size

(* A creation in progress goes on.                                         *)
LEMMA OldCreate ==
  ASSUME IInv, NEW t \in Threads, op[t].k = "create", op'[t] = op[t],
         LinksOf(node') = LinksOf(node), Kept(op[t].d), Kept(op[t].i), held'[op[t].i] = 1,
         \A u \in Threads : op'[u].k = "create" => op'[u].i # op[t].d
  PROVE  CreateOk(op[t])'
  <1>1. PICK d \in Inos, i \in Inos, n \in Names : d = op[t].d /\ i = op[t].i /\ n = op[t].n
    BY CreatingIs
  <1>2. CreateOk(op[t])
    BY CreatingIs
  <1>3. /\ UsableDir(d) /\ \A l \in LinksOf(node) : ~(l[1] = d /\ l[2] = n) /\ l[3] # i
        /\ held[i] = 1 /\ tii[i] = "full" /\ i # Root
        /\ node[i].size = 0 /\ (IsDir(node[i]) => node[i].nlink > 0)
    BY <1>1, <1>2 DEF CreateOk
  <1>4. Kept(d) /\ Kept(i) /\ held'[i] = 1
    BY <1>1
  <1>5. ~Creating(d)'
    BY <1>1 DEF Creating
  <1>6. UsableDir(d)'
    BY <1>3, <1>4, <1>5 DEF UsableDir, Usable, Kept, IsDir
  <1>7. op'[t].d = d /\ op'[t].i = i /\ op'[t].n = n
    BY <1>1
  <1>8. UsableDir(op[t].d)'
    BY <1>6, <1>7 DEF UsableDir, Usable, Creating
  <1>9. /\ tii'[i] = "full" /\ node'[i].size = 0 /\ (IsDir(node'[i]) => node'[i].nlink > 0)
    BY <1>3, <1>4 DEF Kept, IsDir
  <1>10. \A l \in LinksOf(node') : ~(l[1] = d /\ l[2] = n) /\ l[3] # i
    BY <1>3
  <1>11. QED
    BY <1>3, <1>4, <1>7, <1>8, <1>9, <1>10 DEF CreateOk

(* No call begins but lookups.                                             *)
QuietOps ==
  /\ LinksOf(node') = LinksOf(node) /\ op' \in [Threads -> OpRecs]
  /\ \A t \in Threads :
       \/ op'[t] = op[t] \/ op'[t].k \in {"none", "undo", "store"}
       \/ op'[t].k \in {"found", "iget"} /\ LookupOk(op'[t])
  /\ \A t \in Threads : op'[t].k = "create" =>
       Kept(op[t].d) /\ Kept(op[t].i) /\ held'[op[t].i] = held[op[t].i]

(* The calls in progress stay right over such a step.                      *)
LEMMA QuietOpsKeeps ==
  ASSUME IInv, QuietOps
  PROVE  OpsOk' /\ \A j : Creating(j)' => Creating(j)
  <1>1. OpsOk /\ \A t \in Threads : op'[t].k = "create" => op'[t] = op[t]
    BY DEF IInv, QuietOps
  <1>2. \A j : Creating(j)' => Creating(j)
    BY <1>1 DEF Creating
  <1>3. ASSUME NEW t \in Threads, op'[t].k = "create" PROVE CreateOk(op[t])'
    <2>1. op'[t] = op[t] /\ op[t].k = "create"
      BY <1>1, <1>3
    <2>2. CreateOk(op[t])
      BY <2>1, CreatingIs
    <2>3. Kept(op[t].d) /\ Kept(op[t].i) /\ held'[op[t].i] = 1
      BY <1>3, <2>2 DEF QuietOps, CreateOk
    <2>4. ~Creating(op[t].d)
      BY <2>2 DEF CreateOk, UsableDir
    <2>5. \A u \in Threads : op'[u].k = "create" => op'[u].i # op[t].d
      BY <1>1, <2>4 DEF Creating
    <2>6. LinksOf(node') = LinksOf(node)
      BY DEF QuietOps
    <2>7. QED
      BY <2>1, <2>3, <2>5, <2>6, OldCreate
  <1>4. ASSUME NEW t \in Threads, op'[t].k \in {"found", "iget"} PROVE LookupOk(op[t])'
    <2>1. LookupOk(op'[t])
      BY <1>1, <1>4 DEF QuietOps, OpsOk
    <2>2. QED
      BY <2>1 DEF QuietOps, LookupOk
  <1>5. ASSUME NEW t \in Threads, NEW u \in Threads, u # t, op'[t].k = "create", op'[u].k = "create"
        PROVE  op'[t].i # op'[u].i /\ op'[t].d # op'[u].d
    <2>1. op'[t] = op[t] /\ op'[u] = op[u]
      BY <1>1, <1>5
    <2>2. QED
      BY <1>1, <1>5, <2>1 DEF OpsOk
  <1>6. \A t \in Threads : op'[t].k = "create" => CreateOk(op[t])'
    BY <1>3
  <1>7. \A t \in Threads : op'[t].k \in {"found", "iget"} => LookupOk(op[t])'
    BY <1>4
  <1>8. OpsOk'
    BY <1>5, <1>6, <1>7 DEF OpsOk
  <1>9. QED
    BY <1>2, <1>8

(* So does the reader.                                                     *)
LEMMA QuietScan ==
  ASSUME ScanOk, rd' = rd,
         rd.d # 0 => /\ held'[rd.d] > 0 /\ ~Creating(rd.d)'
                     /\ node'[rd.d].pages = node[rd.d].pages
  PROVE  ScanOk'
  <1>1. CASE rd.d = 0
    BY <1>1 DEF ScanOk
  <1>2. CASE rd.d # 0
    <2>1. PICK d : d = rd.d
      OBVIOUS
    <2>2. /\ rd' = MkScan(rd'.d, rd'.pos, rd'.due, rd'.seen, {}, FALSE)
          /\ rd'.d \in Inos /\ rd'.pos \in Nat
          /\ DueAt(node[rd'.d].pages, rd'.pos, rd'.due)
          /\ SeenAt(node[rd'.d].pages, rd'.pos, rd'.seen)
      BY <1>2 DEF ScanOk
    <2>3. held'[rd'.d] > 0 /\ ~Creating(rd.d)' /\ node'[rd'.d].pages = node[rd'.d].pages
      BY <1>2
    <2>4. QED
      BY <2>2, <2>3 DEF ScanOk
  <1>3. QED
    BY <1>1, <1>2

(* A number that is not in use: nothing leads to it, and it has no entry.  *)
LEMMA DeadIs ==
  ASSUME NEW nd, TreeInv(nd), NEW i \in Inos, ~nd[i].live, NEW L, NEW D, L = LinksOf(nd)
  PROVE  /\ \A l \in L : l[1] # i /\ l[3] # i
         /\ Cardinality(LinksIn(L, i)) = 0 /\ Cardinality(SubsIn(L, D, i)) = 0
         /\ nd[i] = NoNode /\ nd[i].pages = <<>>
  <1>1. nd[i] = NoNode /\ nd[i].pages = <<>>
    BY NoNodeIs DEF TreeInv, NodesOk, NodeOk
  <1>2. \A n, j : ~HasLink(nd[i].pages, n, j)
    BY <1>1, NoPagesIs DEF HasLink
  <1>3. \A l \in L : l[1] # i
    BY <1>2, LinksIs DEF TreeInv
  <1>4. \A l \in L : l[3] # i
    BY DEF TreeInv, LinksOk
  <1>5. LinksIn(L, i) = {} /\ SubsIn(L, D, i) = {}
    BY <1>3, <1>4 DEF LinksIn, SubsIn
  <1>6. QED
    BY <1>1, <1>3, <1>4, <1>5, FS_EmptySet

(* A new inode, before it has a name.                                      *)
Newborn(kind) == Node(kind, IF kind = "dir" THEN 1 ELSE 0)

(* What the new inode is.                                                  *)
LEMMA NewbornIs ==
  ASSUME NEW kind \in Kinds
  PROVE  /\ Newborn(kind) \in NodeRecs /\ NodeOk(Newborn(kind)) /\ Newborn(kind).live
         /\ Newborn(kind).pages = <<>> /\ Newborn(kind).size = 0
         /\ Newborn(kind).nlink = IF IsDir(Newborn(kind)) THEN 1 ELSE 0
         /\ OwnPages(Newborn(kind)) = SymPages(Newborn(kind))
         /\ SymPages(Newborn(kind)) \in {0, 1}
  <1>1. PICK n \in Nat : n = IF kind = "dir" THEN 1 ELSE 0
    OBVIOUS
  <1>2. Newborn(kind) = Node(kind, n)
    BY <1>1 DEF Newborn
  <1> DEFINE x == Node(kind, n)
  <1>3. /\ x \in NodeRecs /\ NodeOk(x) /\ x.live /\ x.pages = <<>> /\ x.size = 0
        /\ (IsDir(x) <=> kind = "dir") /\ x.nlink = n /\ OwnPages(x) = SymPages(x)
    BY NewNodeIs
  <1> HIDE DEF x
  <1>4. SymPages(x) \in {0, 1}
    BY DEF SymPages
  <1>5. x.nlink = IF IsDir(x) THEN 1 ELSE 0
    BY <1>1, <1>3
  <1>6. QED
    BY <1>2, <1>3, <1>4, <1>5 DEF x

(* It can be put into the tree.                                            *)
LEMMA NewbornPut ==
  ASSUME NEW nd, TreeInv(nd), NEW i \in Inos, ~nd[i].live, i # Root, NEW kind \in Kinds
  PROVE  CanPut(nd, i, Newborn(kind))
  <1> DEFINE x == Newborn(kind)
             L == LinksOf(nd)
             D == DirsOf(nd)
  <1>1. /\ x \in NodeRecs /\ NodeOk(x) /\ x.live /\ x.pages = <<>> /\ x.size = 0
        /\ x.nlink = IF IsDir(x) THEN 1 ELSE 0
    BY NewbornIs
  <1>2. /\ \A l \in L : l[1] # i /\ l[3] # i
        /\ Cardinality(LinksIn(L, i)) = 0 /\ Cardinality(SubsIn(L, D, i)) = 0
        /\ nd[i].pages = <<>>
    BY DeadIs
  <1> HIDE DEF x, L, D
  <1>3. NlinkOk(x, i, L, D)
    <2>1. CASE IsDir(x)
      BY <1>1, <1>2, <2>1 DEF NlinkOk
    <2>2. CASE ~IsDir(x)
      BY <1>1, <1>2, <2>2 DEF NlinkOk
    <2>3. QED
      BY <2>1, <2>2
  <1>4. QED
    BY <1>1, <1>2, <1>3 DEF CanPut, x, L, D

(* A number that was not used yet.                                         *)
LEMMA TopIs ==
  ASSUME IInv, top \in Inos
  PROVE  /\ ~node[top].live /\ tii[top] = "none" /\ held[top] = 0 /\ top \notin tab /\ top # Root
         /\ \A l \in LinksOf(node) : l[1] # top /\ l[3] # top
         /\ \A t \in Threads : op[t].k = "create" => op[t].d # top /\ op[t].i # top
         /\ rd.d # 0 => rd.d # top
  <1>1. TreeInv(node) /\ RootOk /\ FreshOk /\ ScanOk /\ top \in Nat
    BY DEF IInv, TypesOk
  <1>2. ~node[top].live /\ tii[top] = "none" /\ held[top] = 0 /\ top \notin tab /\ top # Root
    BY <1>1 DEF FreshOk, RootOk
  <1>3. \A l \in LinksOf(node) : l[1] # top /\ l[3] # top
    BY <1>1, <1>2, DeadIs
  <1>4. ASSUME NEW t \in Threads, op[t].k = "create" PROVE op[t].d # top /\ op[t].i # top
    <2>1. CreateOk(op[t])
      BY <1>4, CreatingIs
    <2>2. QED
      BY <1>2, <2>1 DEF CreateOk, UsableDir, Usable
  <1>5. rd.d # 0 => rd.d # top
    BY <1>1, <1>2 DEF ScanOk
  <1>6. QED
    BY <1>2, <1>3, <1>4, <1>5

(* The pool when an inode is made.                                         *)
CanMake(m, kind) ==
  /\ HasInode(m) /\ m.ffree > 0
  /\ SymPages(Newborn(kind)) = 1 => HasPage(AcquireInode(AllocIi(m)))
MadeMem(m, kind) ==
  IF SymPages(Newborn(kind)) = 1 THEN AcquirePmemb(AcquireInode(AllocIi(m)))
  ELSE AcquireInode(AllocIi(m))
Gains(t, u, i) == t[i] = "none" /\ InfosOf(u) = InfosOf(t) \cup {i}

(* The pool with the new inode.                                            *)
LEMMA NewbornPool ==
  ASSUME NEW nd, NodesOk(nd), NEW m, NEW t, NEW x, PoolOk(nd, m, t, x), NEW kind \in Kinds,
         CanMake(m, kind), NEW i \in Inos, ~nd[i].live, NEW u, Gains(t, u, i),
         NEW r, r = [nd EXCEPT ![i] = Newborn(kind)]
  PROVE  PoolOk(r, MadeMem(m, kind), u, x)
  <1> DEFINE y == Newborn(kind)
             q == AllocIi(m)
  <1>1. y \in NodeRecs /\ NodeOk(y) /\ y.live /\ OwnPages(y) = SymPages(y) /\ SymPages(y) \in {0, 1}
    BY NewbornIs
  <1>2. PoolOk(nd, q, u, x)
    BY PoolInfo DEF CanMake, Gains
  <1>3. HasInode(q)
    <2>1. m \in MemRecs
      BY DEF PoolOk, Balanced
    <2>2. q = MkMem(m.pages, m.ifree, m.bfree, m.ffree - 1)
      BY <2>1, MemSteps
    <2>3. q.pages = m.pages /\ q.ifree = m.ifree
      BY <2>2, MkMemIs
    <2>4. QED
      BY <2>3 DEF HasInode, CanMake
  <1> HIDE DEF y, q
  <1>4. OwnPages(y) \in {0, 1} /\ (OwnPages(y) = 1 => HasPage(AcquireInode(q)))
    BY <1>1 DEF y, q, CanMake
  <1>5. r = [nd EXCEPT ![i] = y]
    BY DEF y
  <1>6. PoolOk(r, IF OwnPages(y) = 1 THEN AcquirePmemb(AcquireInode(q)) ELSE AcquireInode(q), u, x)
    BY <1>1, <1>2, <1>3, <1>4, <1>5, PoolNew
  <1>7. QED
    BY <1>1, <1>6 DEF y, q, MadeMem

(* toyfs_new_inode.                                                        *)
LEMMA NewInodeKeeps ==
  ASSUME IInv, NEW t \in Threads, NEW d \in Inos, NEW n \in Names, NEW kind \in Kinds,
         NewInode(t, d, n, kind)
  PROVE  IInv' /\ LinksOf(node') = LinksOf(node)
  <1> DEFINE x == Newborn(kind)
             o == [k |-> "create", d |-> d, i |-> top, n |-> n]
  <1>1. /\ op[t] = Idle /\ top \in Inos /\ Absent(d, n) /\ mem.ffree > 0 /\ HasInode(mem)
        /\ SymPages(x) = 1 => HasPage(AcquireInode(AllocIi(mem)))
        /\ mem' = IF SymPages(x) = 1 THEN AcquirePmemb(AcquireInode(AllocIi(mem)))
                  ELSE AcquireInode(AllocIi(mem))
        /\ node' = [node EXCEPT ![top] = x]
        /\ tab' = tab \cup {top} /\ tii' = [tii EXCEPT ![top] = "full"]
        /\ ref' = [ref EXCEPT ![top] = 1] /\ held' = [held EXCEPT ![top] = 1]
        /\ op' = [op EXCEPT ![t] = o] /\ top' = top + 1
        /\ stale' = stale /\ rd' = rd /\ uaf' = uaf /\ lost' = lost
    BY DEF NewInode, Newborn, ITrack
  <1>2. PICK i \in Inos : i = top
    BY <1>1
  <1>3. /\ ~node[i].live /\ tii[i] = "none" /\ held[i] = 0 /\ i \notin tab /\ i # Root
        /\ \A l \in LinksOf(node) : l[1] # i /\ l[3] # i
        /\ \A u \in Threads : op[u].k = "create" => op[u].d # i /\ op[u].i # i
        /\ rd.d # 0 => rd.d # i
    BY <1>1, <1>2, TopIs
  <1>4. /\ x \in NodeRecs /\ x.live /\ x.size = 0 /\ x.nlink = IF IsDir(x) THEN 1 ELSE 0
    BY NewbornIs
  <1>5. /\ TreeInv(node) /\ PoolOk(node, mem, tii, lost) /\ TypesOk /\ RootOk /\ FreshOk /\ OpsOk
        /\ ScanOk /\ HandlesOk /\ OrphansOk /\ NodesOk(node)
    BY DEF IInv, TreeInv
  <1>6. CanPut(node, i, x)
    BY <1>3, <1>5, NewbornPut
  <1>7. /\ NoName(node, d, n) /\ ~Locked(d) /\ ~Creating(d) /\ UsableDir(d)
        /\ \A j : <<d, n, j>> \notin LinksOf(node)
        /\ Free2(LinksOf(node), <<d, n, i>>)
    BY <1>1, AbsentIs
  <1>8. d # i
    BY <1>3, <1>7 DEF UsableDir, Usable
  <1> HIDE DEF x, o
  <1>9. TreeInv(node') /\ LinksOf(node') = LinksOf(node)
    BY <1>1, <1>2, <1>5, <1>6, PutKeeps
  <1>10. /\ node'[i] = x /\ \A j \in Inos : j # i => node'[j] = node[j]
         /\ tii' \in [Inos -> {"none", "full", "half"}] /\ tii'[i] = "full"
         /\ \A j \in Inos : j # i => tii'[j] = tii[j]
         /\ held' \in [Inos -> Nat] /\ held'[i] = 1 /\ \A j \in Inos : j # i => held'[j] = held[j]
         /\ ref' \in [Inos -> Nat] /\ ref'[i] = 1 /\ \A j \in Inos : j # i => ref'[j] = ref[j]
         /\ op'[t] = o /\ \A u \in Threads : u # t => op'[u] = op[u]
         /\ tab' = tab \cup {i} /\ top' = i + 1
    BY <1>1, <1>2, <1>5 DEF TypesOk, NodesOk
  <1>11. /\ o.k = "create" /\ o.d = d /\ o.i = i /\ o.n = n /\ o \in OpRecs
    BY <1>2 DEF o, OpRecs
  <1>12. PoolOk(node', mem', tii', lost')
    <2>1. InfosOf(tii') = InfosOf(tii) \cup {i}
      BY <1>10 DEF InfosOf
    <2>2. node' = [node EXCEPT ![i] = Newborn(kind)]
      BY <1>1, <1>2 DEF x
    <2>3. CanMake(mem, kind) /\ Gains(tii, tii', i) /\ ~node[i].live
      BY <1>1, <1>3, <2>1 DEF x, CanMake, Gains
    <2>4. PoolOk(node', MadeMem(mem, kind), tii', lost)
      BY <1>5, <2>2, <2>3, NewbornPool
    <2>5. QED
      BY <1>1, <2>4 DEF x, MadeMem
  <1>13. TypesOk'
    <2>1. op' \in [Threads -> OpRecs]
      BY <1>1, <1>5, <1>11 DEF TypesOk
    <2>2. tab' \subseteq Inos /\ top' \in Nat /\ lost' \in Nat
      BY <1>1, <1>2, <1>5, <1>10 DEF TypesOk
    <2>3. QED
      BY <1>10, <2>1, <2>2 DEF TypesOk
  <1>14. RootOk'
    BY <1>3, <1>5, <1>10, NsAssumption DEF RootOk
  <1>15. FreshOk'
    <2>1. Root \in Nat /\ i \in Nat /\ Inos \subseteq Nat
      BY NsAssumption, DirAssumption
    <2>2. Root < i + 1
      BY <1>2, <1>5, <2>1 DEF FreshOk
    <2>3. ASSUME NEW j \in Inos, j >= i + 1
          PROVE  /\ ~node'[j].live /\ tii'[j] = "none" /\ held'[j] = 0 /\ j \notin tab'
      <3>1. j # i /\ j >= i
        BY <2>1, <2>3
      <3>2. QED
        BY <1>2, <1>5, <1>10, <3>1 DEF FreshOk
    <2>4. QED
      BY <1>10, <2>2, <2>3 DEF FreshOk
  <1>16. ASSUME NEW u \in Threads, u # t, op[u].k = "create"
         PROVE  /\ CreateOk(op[u])' /\ op'[u] = op[u] /\ op[u].i # i /\ op[u].d # d
    <2>1. /\ op[u].d \in Inos /\ op[u].i \in Inos /\ CreateOk(op[u]) /\ Locked(op[u].d)
      BY <1>16, CreatingIs
    <2>2. op[u].d # i /\ op[u].i # i /\ op[u].d # d /\ op'[u] = op[u]
      BY <1>3, <1>7, <1>10, <1>16, <2>1
    <2>3. Kept(op[u].d) /\ Kept(op[u].i) /\ held'[op[u].i] = 1
      BY <1>10, <2>1, <2>2 DEF Kept, CreateOk
    <2>4. ASSUME NEW v \in Threads, op'[v].k = "create" PROVE op'[v].i # op[u].d
      <3>1. CASE v = t
        BY <1>10, <1>11, <2>2, <3>1
      <3>2. CASE v # t
        BY <1>10, <2>1, <2>4, <3>2 DEF CreateOk, UsableDir, Creating
      <3>3. QED
        BY <3>1, <3>2
    <2>5. QED
      BY <1>9, <1>16, <2>2, <2>3, <2>4, OldCreate
  <1>17. CreateOk(op[t])'
    <2>1. ~Creating(d)'
      <3>1. ASSUME NEW u \in Threads, op'[u].k = "create" PROVE op'[u].i # d
        <4>1. CASE u = t
          BY <1>8, <1>10, <1>11, <4>1
        <4>2. CASE u # t
          BY <1>7, <1>10, <3>1, <4>2 DEF Creating
        <4>3. QED
          BY <4>1, <4>2
      <3>2. QED
        BY <3>1 DEF Creating
    <2>2. UsableDir(d)'
      BY <1>7, <1>8, <1>10, <2>1 DEF UsableDir, Usable
    <2>3. UsableDir(op[t].d)'
      BY <1>10, <1>11, <2>2 DEF UsableDir, Usable, Creating
    <2>4. \A l \in LinksOf(node') : ~(l[1] = d /\ l[2] = n) /\ l[3] # i
      BY <1>3, <1>7, <1>9 DEF Free2
    <2>5. node'[i].size = 0 /\ (IsDir(node'[i]) => node'[i].nlink > 0)
      BY <1>4, <1>10
    <2>6. QED
      BY <1>3, <1>10, <1>11, <2>3, <2>4, <2>5 DEF CreateOk
  <1>18. OpsOk'
    <2>1. ASSUME NEW u \in Threads, op'[u].k = "create" PROVE CreateOk(op[u])'
      <3>1. CASE u = t
        BY <1>17, <3>1
      <3>2. CASE u # t
        BY <1>10, <1>16, <2>1, <3>2
      <3>3. QED
        BY <3>1, <3>2
    <2>2. ASSUME NEW u \in Threads, op'[u].k \in {"found", "iget"} PROVE LookupOk(op[u])'
      <3>1. u # t /\ op'[u] = op[u]
        BY <1>10, <1>11, <2>2
      <3>2. LookupOk(op'[u])
        BY <1>5, <2>2, <3>1 DEF OpsOk
      <3>3. QED
        BY <1>9, <3>2 DEF LookupOk
    <2>3. ASSUME NEW u \in Threads, NEW v \in Threads, v # u, op'[u].k = "create",
                 op'[v].k = "create"
          PROVE  op'[u].i # op'[v].i /\ op'[u].d # op'[v].d
      <3>1. CASE u = t
        BY <1>10, <1>11, <1>16, <2>3, <3>1
      <3>2. CASE v = t
        BY <1>10, <1>11, <1>16, <2>3, <3>2
      <3>3. CASE u # t /\ v # t
        BY <1>5, <1>10, <2>3, <3>3 DEF OpsOk
      <3>4. QED
        BY <3>1, <3>2, <3>3
    <2>4. \A u \in Threads : op'[u].k = "create" => CreateOk(op[u])'
      BY <2>1
    <2>5. \A u \in Threads : op'[u].k \in {"found", "iget"} => LookupOk(op[u])'
      BY <2>2
    <2>6. QED
      BY <2>3, <2>4, <2>5 DEF OpsOk
  <1>19. ScanOk'
    <2>1. ASSUME rd.d # 0
          PROVE  held'[rd.d] > 0 /\ ~Creating(rd.d)' /\ node'[rd.d].pages = node[rd.d].pages
      <3>1. PICK r \in Inos : r = rd.d
        BY <1>5, <2>1 DEF ScanOk
      <3>2. r # i /\ held[r] > 0 /\ ~Creating(r)
        BY <1>3, <1>5, <2>1, <3>1 DEF ScanOk
      <3>3. ASSUME NEW u \in Threads, op'[u].k = "create" PROVE op'[u].i # r
        <4>1. CASE u = t
          BY <1>10, <1>11, <3>2, <4>1
        <4>2. CASE u # t
          BY <1>10, <3>2, <3>3, <4>2 DEF Creating
        <4>3. QED
          BY <4>1, <4>2
      <3>4. ~Creating(r)'
        BY <3>3 DEF Creating
      <3>5. rd'.d = r
        BY <1>1, <3>1
      <3>6. ~Creating(rd.d)'
        BY <3>4, <3>5 DEF Creating
      <3>7. QED
        BY <1>10, <3>1, <3>2, <3>6
    <2>2. QED
      BY <1>1, <1>5, <2>1, QuietScan
  <1>20. HandlesOk'
    <2>1. HandlesValid'
      BY <1>3, <1>4, <1>5, <1>10 DEF HandlesOk, HandlesValid
    <2>2. QED
      BY <1>1, <1>5, <1>9, <1>10, <2>1 DEF HandlesOk
  <1>21. OrphansOk'
    BY <1>5, <1>9, <1>10 DEF OrphansOk
  <1>22. QED
    BY <1>9, <1>12, <1>13, <1>14, <1>15, <1>18, <1>19, <1>20, <1>21, IInvIsPrime DEF Rests

(* A step that leaves the inodes, their inode_infos and handles as they    *)
(* are, but for extended attributes.                                       *)
Quiet ==
  /\ LinksOf(node') = LinksOf(node)
  /\ \A j \in Inos : /\ node'[j].live = node[j].live /\ node'[j].kind = node[j].kind
                     /\ node'[j].nlink = node[j].nlink /\ node'[j].size = node[j].size
                     /\ node'[j].pages = node[j].pages
  /\ tii' = tii /\ ref' = ref /\ tab' = tab /\ held' = held /\ uaf' = uaf /\ lost' = lost
  /\ top' \in {top, top + 1}
  /\ op' \in [Threads -> OpRecs]
  /\ \A t \in Threads :
       \/ op'[t] = op[t] \/ op'[t].k \in {"none", "undo", "store"}
       \/ op'[t].k \in {"found", "iget"} /\ LookupOk(op'[t])

(* Such a step keeps the parts of the invariant.                           *)
LEMMA QuietKeeps ==
  ASSUME IInv, Quiet
  PROVE  /\ TypesOk' /\ RootOk' /\ FreshOk' /\ OpsOk' /\ HandlesOk' /\ OrphansOk'
         /\ \A j : Creating(j)' => Creating(j)
         /\ rd' = rd => ScanOk'
  <1>1. /\ TypesOk /\ RootOk /\ FreshOk /\ ScanOk /\ HandlesOk /\ OrphansOk
    BY DEF IInv
  <1>2. /\ tii' = tii /\ ref' = ref /\ tab' = tab /\ held' = held /\ uaf' = uaf /\ lost' = lost
        /\ top' \in {top, top + 1} /\ op' \in [Threads -> OpRecs]
        /\ LinksOf(node') = LinksOf(node)
        /\ \A j \in Inos : /\ node'[j].live = node[j].live /\ node'[j].kind = node[j].kind
                           /\ node'[j].nlink = node[j].nlink /\ node'[j].size = node[j].size
                           /\ node'[j].pages = node[j].pages
    BY DEF Quiet
  <1>3. TypesOk'
    BY <1>1, <1>2 DEF TypesOk
  <1>4. RootOk'
    BY <1>1, <1>2, NsAssumption DEF RootOk, IsDir
  <1>5. FreshOk'
    <2>1. Root \in Nat /\ top \in Nat /\ Inos \subseteq Nat
      BY <1>1, NsAssumption, DirAssumption DEF TypesOk
    <2>2. Root < top /\ top <= top' /\ top' \in Nat
      BY <1>1, <1>2, <2>1 DEF FreshOk
    <2>3. Root < top' /\ \A j \in Inos : j >= top' => j >= top
      BY <2>1, <2>2
    <2>4. QED
      BY <1>1, <1>2, <2>3 DEF FreshOk
  <1>6. \A j \in Inos : Kept(j)
    BY <1>2 DEF Kept
  <1>7. QuietOps
    <2>1. ASSUME NEW t \in Threads, op'[t].k = "create"
          PROVE  Kept(op[t].d) /\ Kept(op[t].i)
      <3>1. op[t].k = "create"
        BY <2>1 DEF Quiet
      <3>2. QED
        BY <1>6, <3>1, CreatingIs
    <2>2. QED
      BY <1>2, <2>1 DEF QuietOps, Quiet
  <1>8. OpsOk' /\ \A j : Creating(j)' => Creating(j)
    BY <1>7, QuietOpsKeeps
  <1>9. rd' = rd => ScanOk'
    <2> SUFFICES ASSUME rd' = rd PROVE ScanOk'
      OBVIOUS
    <2>1. ASSUME rd.d # 0
          PROVE  held'[rd.d] > 0 /\ ~Creating(rd.d)' /\ node'[rd.d].pages = node[rd.d].pages
      <3>1. PICK r \in Inos : r = rd.d
        BY <1>1, <2>1 DEF ScanOk
      <3>2. held[r] > 0 /\ ~Creating(r)
        BY <1>1, <2>1, <3>1 DEF ScanOk
      <3>3. ~Creating(r)' /\ rd'.d = r
        BY <1>8, <3>1, <3>2
      <3>4. ~Creating(rd.d)'
        BY <3>3 DEF Creating
      <3>5. QED
        BY <1>2, <3>1, <3>2, <3>4
    <2>2. QED
      BY <1>1, <2>1, QuietScan
  <1>10. HandlesOk'
    <2>1. HandlesValid'
      BY <1>1, <1>2 DEF HandlesOk, HandlesValid
    <2>2. QED
      BY <1>1, <1>2, <2>1 DEF HandlesOk
  <1>11. OrphansOk'
    BY <1>1, <1>2 DEF OrphansOk, IsDir
  <1>12. QED
    BY <1>3, <1>4, <1>5, <1>8, <1>9, <1>10, <1>11

(* The inodes themselves do not change.                                    *)
LEMMA SameQuiet ==
  ASSUME IInv, node' = node, tii' = tii, ref' = ref, tab' = tab, held' = held, uaf' = uaf,
         lost' = lost, top' \in {top, top + 1}, op' \in [Threads -> OpRecs],
         \A t \in Threads : \/ op'[t] = op[t] \/ op'[t].k \in {"none", "undo", "store"}
                            \/ op'[t].k \in {"found", "iget"} /\ LookupOk(op'[t])
  PROVE  Quiet
  BY DEF Quiet

(* The calls of the threads are calls.                                     *)
LEMMA OpsType == IInv => op \in [Threads -> OpRecs]
  BY DEF IInv, TypesOk

(* A call t that fails, or is done, and leaves the inodes as they are.     *)
LEMMA OpQuiet ==
  ASSUME IInv, NEW t \in Threads, NEW o \in OpRecs, o.k \in {"none", "undo", "store"},
         op' = [op EXCEPT ![t] = o], top' \in {top, top + 1},
         node' = node, tii' = tii, ref' = ref, tab' = tab, held' = held, rd' = rd, uaf' = uaf,
         lost' = lost, PoolOk(node, mem', tii, lost)
  PROVE  IInv' /\ LinksOf(node') = LinksOf(node)
  <1>1. op' \in [Threads -> OpRecs] /\ op'[t] = o /\ \A u \in Threads : u # t => op'[u] = op[u]
    BY OpsType
  <1>2. \A u \in Threads : op'[u] = op[u] \/ op'[u].k \in {"none", "undo", "store"}
    BY <1>1
  <1>3. Quiet
    BY <1>1, <1>2, SameQuiet
  <1>4. Rests'
    BY <1>3, QuietKeeps DEF Rests
  <1>5. TreeInv(node)
    BY DEF IInv
  <1>6. QED
    BY <1>4, <1>5, IInvIsPrime

(* The pool does not depend on f_ffree.                                    *)
LEMMA PoolFfree ==
  ASSUME NEW nd, NEW m, NEW t, NEW x, PoolOk(nd, m, t, x), NEW e \in Nat
  PROVE  /\ PoolOk(nd, [m EXCEPT !.ffree = e], t, x)
         /\ [m EXCEPT !.ffree = e] \in MemRecs /\ [m EXCEPT !.ffree = e].ffree = e
  <1> DEFINE r == [m EXCEPT !.ffree = e]
  <1>1. m \in MemRecs
    BY DEF PoolOk, Balanced
  <1>2. m.pages \in Nat /\ m.ifree \in Nat /\ m.bfree \in Nat
    BY <1>1, MemIs
  <1>3. r = MkMem(m.pages, m.ifree, m.bfree, e)
    BY <1>1, MemExcept, Zenon
  <1> HIDE DEF r
  <1>4. /\ r \in MemRecs /\ r.pages = m.pages /\ r.ifree = m.ifree /\ r.bfree = m.bfree
        /\ r.ffree = e
    BY <1>2, <1>3, MkMemIs
  <1>5. PoolOk(nd, r, t, x)
    BY <1>4 DEF PoolOk, Balanced
  <1>6. QED
    BY <1>4, <1>5 DEF r

(* toyfs_new_inode that finds no inode, or no page for a long symlink.     *)
LEMMA NewInodeFailKeeps ==
  ASSUME IInv, NEW t \in Threads, NEW d \in Inos, NEW n \in Names, NEW kind \in Kinds,
         NewInodeFail(t, d, n, kind)
  PROVE  /\ IInv' /\ LinksOf(node') = LinksOf(node)
         /\ mem'.ffree = mem.ffree - 1
  <1> DEFINE o == [k |-> "undo", d |-> d, i |-> 0]
             q == AllocIi(mem)
  <1>1. /\ mem.ffree > 0 /\ op' = [op EXCEPT ![t] = o]
        /\ \/ mem' = q /\ top' = top
           \/ HasInode(mem) /\ mem' = ReleaseInode(AcquireInode(q)) /\ top' = top + 1
        /\ node' = node /\ tii' = tii /\ ref' = ref /\ tab' = tab /\ held' = held
        /\ rd' = rd /\ uaf' = uaf /\ lost' = lost
    BY DEF NewInodeFail, tiiVars
  <1>2. PoolOk(node, mem, tii, lost) /\ mem \in MemRecs
    BY DEF IInv, PoolOk, Balanced
  <1>3. mem.ffree - 1 \in Nat /\ q = [mem EXCEPT !.ffree = mem.ffree - 1]
    BY <1>1, <1>2, MemIs DEF AllocIi
  <1>4. PoolOk(node, q, tii, lost) /\ q \in MemRecs /\ q.ffree = mem.ffree - 1
    BY <1>2, <1>3, PoolFfree
  <1>5. q = MkMem(mem.pages, mem.ifree, mem.bfree, mem.ffree - 1)
    BY <1>2, MemSteps
  <1>6. q.pages = mem.pages /\ q.ifree = mem.ifree
    BY <1>2, <1>3, <1>5, MemIs, MkMemIs
  <1>7. HasInode(mem) => HasInode(q)
    BY <1>6 DEF HasInode
  <1>8. o \in OpRecs /\ o.k = "undo"
    BY DEF OpRecs
  <1> HIDE DEF o, q
  <1>9. PoolOk(node, mem', tii, lost)
    BY <1>1, <1>4, <1>7, PoolFail
  <1>10. IInv' /\ LinksOf(node') = LinksOf(node)
    BY <1>1, <1>8, <1>9, OpQuiet
  <1>11. ReleaseInode(AcquireInode(q)).ffree = q.ffree
    BY <1>5, FfreeIs DEF IsMem, q
  <1>12. QED
    BY <1>1, <1>4, <1>7, <1>10, <1>11

(* toyfs_tii_free reads f_ffree.                                           *)
LEMMA UndoLoadKeeps ==
  ASSUME IInv, NEW t \in Threads, UndoLoad(t)
  PROVE  IInv' /\ LinksOf(node') = LinksOf(node)
  <1> DEFINE o == [k |-> "store", d |-> op[t].d, i |-> 0, r |-> mem.ffree]
  <1>1. /\ op[t].k = "undo" /\ op' = [op EXCEPT ![t] = o] /\ mem' = mem /\ top' = top
        /\ node' = node /\ tii' = tii /\ ref' = ref /\ tab' = tab /\ held' = held
        /\ rd' = rd /\ uaf' = uaf /\ lost' = lost
    BY OpsType DEF UndoLoad, tiiVars
  <1>2. PoolOk(node, mem, tii, lost) /\ mem \in MemRecs /\ op[t] \in OpRecs
    BY OpsType DEF IInv, PoolOk, Balanced
  <1>3. op[t].d \in Inos /\ mem.ffree \in Nat
    BY <1>1, <1>2, OpFacts, MemIs
  <1>4. o \in OpRecs /\ o.k = "store"
    BY <1>3 DEF OpRecs
  <1> HIDE DEF o
  <1>5. QED
    BY <1>1, <1>2, <1>4, OpQuiet

(* toyfs_tii_free writes it.                                               *)
LEMMA UndoStoreKeeps ==
  ASSUME IInv, NEW t \in Threads, UndoStore(t)
  PROVE  IInv' /\ LinksOf(node') = LinksOf(node) /\ mem'.ffree = op[t].r + 1
  <1>1. /\ op[t].k = "store" /\ op' = [op EXCEPT ![t] = Idle] /\ top' = top
        /\ mem' = [mem EXCEPT !.ffree = op[t].r + 1]
        /\ node' = node /\ tii' = tii /\ ref' = ref /\ tab' = tab /\ held' = held
        /\ rd' = rd /\ uaf' = uaf /\ lost' = lost
    BY DEF UndoStore, tiiVars
  <1>2. PoolOk(node, mem, tii, lost) /\ op[t] \in OpRecs
    BY OpsType DEF IInv
  <1>3. op[t].r + 1 \in Nat
    BY <1>1, <1>2, OpFacts
  <1>4. PoolOk(node, mem', tii, lost) /\ mem'.ffree = op[t].r + 1
    BY <1>1, <1>2, <1>3, PoolFfree
  <1>5. Idle \in OpRecs /\ Idle.k = "none"
    BY <1>2, OpFacts
  <1>6. IInv' /\ LinksOf(node') = LinksOf(node)
    BY <1>1, <1>4, <1>5, OpQuiet
  <1>7. QED
    BY <1>4, <1>6

(* A stuttering step.                                                      *)
LEMMA StutterKeeps ==
  ASSUME IInv, UNCHANGED vars
  PROVE  IInv' /\ LinksOf(node') = LinksOf(node)
  <1>1. /\ node' = node /\ tii' = tii /\ ref' = ref /\ tab' = tab /\ held' = held /\ op' = op
        /\ rd' = rd /\ uaf' = uaf /\ lost' = lost /\ mem' = mem /\ top' = top
    BY DEF vars
  <1>2. Quiet
    BY <1>1, OpsType, SameQuiet
  <1>3. Rests'
    BY <1>1, <1>2, QuietKeeps DEF Rests
  <1>4. QED
    BY <1>1, <1>3, IInvIs, IInvIsPrime

(* An inode with attributes.                                               *)
WithXattr(v) == MkNode(v.live, v.kind, v.nlink, v.size, v.pages, TRUE)

(* The inode with its attributes, field by field.                          *)
LEMMA XattrExcept ==
  ASSUME NEW v \in NodeRecs
  PROVE  [v EXCEPT !.xattr = TRUE] = WithXattr(v)
  <1> DEFINE e == TRUE
  <1> HIDE DEF e
  <1>1. v = MkNode(v.live, v.kind, v.nlink, v.size, v.pages, v.xattr)
    BY NodeFields
  <1>2. PICK a, b, c, d, f, g : v = MkNode(a, b, c, d, f, g)
    BY <1>1
  <1>3. [v EXCEPT !.xattr = e] = MkNode(a, b, c, d, f, e)
    BY <1>2 DEF MkNode
  <1>4. v.live = a /\ v.kind = b /\ v.nlink = c /\ v.size = d /\ v.pages = f
    BY <1>2, MkNodeIs
  <1>5. QED
    BY <1>3, <1>4, Zenon DEF WithXattr, e

(* It is right on its own and owns one page more.                          *)
LEMMA XattrIs ==
  ASSUME NEW v \in NodeRecs, NodeOk(v), v.live, ~v.xattr
  PROVE  LET y == WithXattr(v) IN
         /\ y \in NodeRecs /\ NodeOk(y) /\ y.live = v.live /\ y.kind = v.kind /\ y.nlink = v.nlink
         /\ y.size = v.size /\ y.pages = v.pages /\ OwnPages(y) = OwnPages(v) + 1
  <1> DEFINE y == WithXattr(v)
             e == TRUE
  <1>1. /\ v.live \in BOOLEAN /\ v.kind \in Kinds \cup {"none", "dir"} /\ v.nlink \in Nat
        /\ v.size \in Nat /\ v.pages \in Seq(PageType) /\ e \in BOOLEAN
    BY NodeFields
  <1> HIDE DEF e
  <1>2. y = MkNode(v.live, v.kind, v.nlink, v.size, v.pages, e)
    BY DEF WithXattr, e
  <1> HIDE DEF y
  <1>3. /\ y.live = v.live /\ y.kind = v.kind /\ y.nlink = v.nlink /\ y.size = v.size
        /\ y.pages = v.pages /\ y.xattr = e /\ y \in NodeRecs
    <2>1. /\ y.live = v.live /\ y.kind = v.kind /\ y.nlink = v.nlink /\ y.size = v.size
          /\ y.pages = v.pages /\ y.xattr = e
      <3>1. PICK a, b, c, d, f :
              a = v.live /\ b = v.kind /\ c = v.nlink /\ d = v.size /\ f = v.pages
        OBVIOUS
      <3>2. y = MkNode(a, b, c, d, f, e)
        BY <1>2, <3>1
      <3>3. y.live = a /\ y.kind = b /\ y.nlink = c /\ y.size = d /\ y.pages = f /\ y.xattr = e
        BY <3>2, MkNodeIs
      <3>4. QED
        BY <3>1, <3>3
    <2>2. y \in NodeRecs
      <3>1. MkNode(v.live, v.kind, v.nlink, v.size, v.pages, e) \in NodeRecs
        BY <1>1, MkNodeType
      <3>2. QED
        BY <1>2, <3>1
    <2>3. QED
      BY <2>1, <2>2, Zenon
  <1>4. NodeOk(y)
    BY <1>3 DEF NodeOk, IsDir
  <1>5. OwnPages(y) = OwnPages(v) + 1
    <2>1. SymPages(v) \in {0, 1} /\ Len(v.pages) \in Nat
      BY OwnIs
    <2>2. SymPages(y) = SymPages(v)
      BY <1>3 DEF SymPages
    <2>3. XattrPages(y) = 1 /\ XattrPages(v) = 0
      BY <1>3 DEF XattrPages, e
    <2>4. QED
      BY <1>3, <2>1, <2>2, <2>3 DEF OwnPages
  <1>6. QED
    BY <1>3, <1>4, <1>5 DEF y

(* _require_xattr.                                                         *)
LEMMA SetXattrKeeps ==
  ASSUME IInv, NEW i \in Inos, SetXattr(i)
  PROVE  IInv' /\ LinksOf(node') = LinksOf(node)
  <1> DEFINE y == WithXattr(node[i])
  <1>1. /\ node[i].live /\ ~node[i].xattr /\ HasPage(mem) /\ mem' = AcquirePmemb(mem)
        /\ node' = [node EXCEPT ![i].xattr = TRUE]
        /\ tii' = tii /\ ref' = ref /\ tab' = tab /\ held' = held /\ op' = op /\ top' = top
        /\ rd' = rd /\ uaf' = uaf /\ lost' = lost
    BY DEF SetXattr, tiiVars, Usable
  <1>2. /\ TreeInv(node) /\ PoolOk(node, mem, tii, lost) /\ NodesOk(node)
        /\ node \in [Inos -> NodeRecs] /\ node[i] \in NodeRecs /\ NodeOk(node[i])
        /\ NlinkOk(node[i], i, LinksOf(node), DirsOf(node))
    BY <1>1 DEF IInv, TreeInv, NodesOk
  <1>3. /\ y \in NodeRecs /\ NodeOk(y) /\ y.live = node[i].live /\ y.kind = node[i].kind
        /\ y.nlink = node[i].nlink /\ y.size = node[i].size /\ y.pages = node[i].pages
        /\ OwnPages(y) = OwnPages(node[i]) + 1
    BY <1>1, <1>2, XattrIs
  <1>4. node' = [node EXCEPT ![i] = y]
    <2>1. node' = [node EXCEPT ![i] = [node[i] EXCEPT !.xattr = TRUE]]
      BY <1>1, <1>2
    <2>2. [node[i] EXCEPT !.xattr = TRUE] = y
      BY <1>2, XattrExcept
    <2>3. QED
      BY <2>1, <2>2
  <1> HIDE DEF y
  <1>5. CanPut(node, i, y)
    <2>1. IsDir(y) <=> IsDir(node[i])
      BY <1>3 DEF IsDir
    <2>2. NlinkOk(y, i, LinksOf(node), DirsOf(node))
      BY <1>2, <1>3, <2>1 DEF NlinkOk
    <2>3. QED
      BY <1>1, <1>3, <2>1, <2>2 DEF CanPut
  <1>6. TreeInv(node') /\ LinksOf(node') = LinksOf(node)
    BY <1>2, <1>4, <1>5, PutKeeps
  <1>7. y.live
    BY <1>1, <1>3
  <1>8. PoolOk(node', AcquirePmemb(mem), tii, lost)
    <2>1. MorePages(node, i, y)
      BY <1>1, <1>3, <1>7 DEF MorePages
    <2>2. QED
      BY <1>1, <1>2, <1>4, <2>1, PoolXattr
  <1>9. node'[i] = y /\ \A j \in Inos : j # i => node'[j] = node[j]
    BY <1>2, <1>4
  <1>10. Quiet
    <2>1. op' \in [Threads -> OpRecs]
      BY <1>1, OpsType
    <2>2. ASSUME NEW j \in Inos
          PROVE  /\ node'[j].live = node[j].live /\ node'[j].kind = node[j].kind
                 /\ node'[j].nlink = node[j].nlink /\ node'[j].size = node[j].size
                 /\ node'[j].pages = node[j].pages
      BY <1>3, <1>9
    <2>3. QED
      BY <1>1, <1>6, <2>1, <2>2 DEF Quiet
  <1>11. Rests'
    BY <1>1, <1>10, QuietKeeps DEF Rests
  <1>12. QED
    BY <1>1, <1>6, <1>8, <1>11, IInvIsPrime

(* toyfs_lookup.                                                           *)
LEMMA LookupKeeps ==
  ASSUME IInv, NEW t \in Threads, NEW d \in Inos, NEW n \in Names, Lookup(t, d, n)
  PROVE  IInv' /\ LinksOf(node') = LinksOf(node)
  <1> DEFINE i == InoOf(node, d, n)
             o == [k |-> "found", d |-> d, i |-> i]
  <1>1. /\ Has(node, d, n) /\ op' = [op EXCEPT ![t] = o]
        /\ node' = node /\ tii' = tii /\ ref' = ref /\ tab' = tab /\ held' = held /\ top' = top
        /\ rd' = rd /\ uaf' = uaf /\ lost' = lost /\ mem' = mem
    BY DEF Lookup, tiiVars
  <1>2. NodesOk(node)
    BY DEF IInv, TreeInv
  <1>3. i \in Inos /\ <<d, n, i>> \in LinksOf(node)
    BY <1>1, <1>2, LookupLinks
  <1> HIDE DEF i
  <1>4. o \in OpRecs /\ o.k = "found" /\ o.d = d /\ o.i = i
    BY <1>3 DEF OpRecs
  <1> HIDE DEF o
  <1>5. LookupOk(o)
    BY <1>3, <1>4 DEF LookupOk
  <1>6. op' \in [Threads -> OpRecs] /\ op'[t] = o /\ \A u \in Threads : u # t => op'[u] = op[u]
    BY <1>1, <1>4, OpsType
  <1>7. \A u \in Threads : \/ op'[u] = op[u]
                           \/ op'[u].k \in {"found", "iget"} /\ LookupOk(op'[u])
    BY <1>4, <1>5, <1>6
  <1>8. Quiet
    BY <1>1, <1>6, <1>7, SameQuiet
  <1>9. Rests'
    BY <1>1, <1>8, QuietKeeps DEF Rests
  <1>10. QED
    BY <1>1, <1>9, IInvIs, IInvIsPrime

(* toyfs_find_inode_ref.                                                   *)
LEMMA FindInodeRefKeeps ==
  ASSUME IInv, NEW t \in Threads, FindInodeRef(t)
  PROVE  IInv' /\ LinksOf(node') = LinksOf(node)
  <1> DEFINE o == IF op[t].i \in tab THEN [op[t] EXCEPT !.k = "iget"] ELSE Idle
  <1>1. /\ op[t].k = "found" /\ op' = [op EXCEPT ![t] = o]
        /\ node' = node /\ tii' = tii /\ ref' = ref /\ tab' = tab /\ held' = held /\ top' = top
        /\ rd' = rd /\ uaf' = uaf /\ lost' = lost /\ mem' = mem
    BY OpsType DEF FindInodeRef, tiiVars
  <1>2. op \in [Threads -> OpRecs] /\ op[t] \in OpRecs /\ LookupOk(op[t])
    BY <1>1 DEF IInv, TypesOk, OpsOk
  <1>3. o \in OpRecs /\ (o.k = "none" \/ (o.k = "iget" /\ o.d = op[t].d /\ o.i = op[t].i))
    BY <1>1, <1>2 DEF OpRecs, Idle
  <1> HIDE DEF o
  <1>4. o.k = "iget" => LookupOk(o)
    BY <1>2, <1>3 DEF LookupOk
  <1>5. op' \in [Threads -> OpRecs] /\ op'[t] = o /\ \A u \in Threads : u # t => op'[u] = op[u]
    BY <1>1, <1>2, <1>3
  <1>6. \A u \in Threads : \/ op'[u] = op[u] \/ op'[u].k = "none"
                           \/ op'[u].k \in {"found", "iget"} /\ LookupOk(op'[u])
    BY <1>3, <1>4, <1>5
  <1>7. Quiet
    BY <1>1, <1>5, <1>6, SameQuiet
  <1>8. Rests'
    BY <1>1, <1>7, QuietKeeps DEF Rests
  <1>9. QED
    BY <1>1, <1>8, IInvIs, IInvIsPrime

(* What a link leads to.                                                   *)
LEMMA LinkedIs ==
  ASSUME IInv, NEW i, \E l \in LinksOf(node) : l[3] = i
  PROVE  /\ i \in Inos /\ node[i].live /\ i # Root /\ i \in tab /\ i < top
         /\ \A t \in Threads : op[t].k = "create" => op[t].i # i
  <1>1. TreeInv(node) /\ FreshOk /\ HandlesOk /\ top \in Nat
    BY DEF IInv, TypesOk
  <1>2. i \in Inos
    BY <1>1, LinksIs DEF TreeInv
  <1>3. node[i].live /\ i # Root
    BY <1>1 DEF TreeInv, LinksOk
  <1>4. i \in tab
    BY <1>1 DEF HandlesOk
  <1>5. i < top
    BY <1>1, <1>2, <1>3, DirAssumption DEF FreshOk
  <1>6. \A t \in Threads : op[t].k = "create" => op[t].i # i
    BY OthersCreate
  <1>7. QED
    BY <1>2, <1>3, <1>4, <1>5, <1>6

(* toyfs_iget gives out a handle.                                          *)
Given(i, t) ==
  /\ node' = node /\ tab' = tab /\ top' = top /\ rd' = rd /\ lost' = lost /\ uaf' = FALSE
  /\ op' = [op EXCEPT ![t] = Idle]
  /\ held' = [held EXCEPT ![i] = @ + 1]
  /\ ref' \in [Inos -> Nat] /\ ref'[i] = held[i] + 1 /\ \A j \in Inos : j # i => ref'[j] = ref[j]
  /\ tii' \in [Inos -> {"none", "full", "half"}] /\ tii'[i] # "none"
  /\ tii[i] = "full" => tii'[i] = "full"
  /\ \A j \in Inos : j # i => tii'[j] = tii[j]

(* A handle given by toyfs_iget keeps the rest of the invariant.           *)
LEMMA GivenKeeps ==
  ASSUME IInv, NEW i, \E l \in LinksOf(node) : l[3] = i, NEW t \in Threads, Given(i, t)
  PROVE  Rests'
  <1>1. /\ i \in Inos /\ node[i].live /\ i # Root /\ i \in tab /\ i < top
        /\ \A u \in Threads : op[u].k = "create" => op[u].i # i
    BY LinkedIs
  <1>2. /\ TypesOk /\ RootOk /\ FreshOk /\ ScanOk /\ HandlesOk /\ OrphansOk
    BY DEF IInv
  <1>3. /\ node' = node /\ tab' = tab /\ top' = top /\ rd' = rd /\ lost' = lost /\ uaf' = FALSE
        /\ held' \in [Inos -> Nat] /\ held'[i] = held[i] + 1 /\ held'[i] > 0
        /\ \A j \in Inos : j # i => held'[j] = held[j] /\ ref'[j] = ref[j] /\ tii'[j] = tii[j]
        /\ ref' \in [Inos -> Nat] /\ ref'[i] = held'[i]
        /\ tii' \in [Inos -> {"none", "full", "half"}] /\ tii'[i] # "none"
        /\ tii[i] = "full" => tii'[i] = "full"
    BY <1>1, <1>2 DEF Given, TypesOk
  <1>4. /\ op' \in [Threads -> OpRecs] /\ \A u \in Threads : op'[u] = op[u] \/ op'[u].k = "none"
    BY <1>2, OpFacts DEF Given, TypesOk, OpRecs, Idle
  <1>5. TypesOk'
    BY <1>2, <1>3, <1>4 DEF TypesOk
  <1>6. RootOk'
    BY <1>1, <1>2, <1>3, NsAssumption DEF RootOk
  <1>7. FreshOk'
    <2>1. \A j \in Inos : j >= top => j # i
      BY <1>1, <1>2, DirAssumption DEF TypesOk
    <2>2. QED
      BY <1>2, <1>3, <2>1 DEF FreshOk
  <1>8. \A j \in Inos : Kept(j)
    BY <1>3 DEF Kept
  <1>9. QuietOps
    <2>1. ASSUME NEW u \in Threads, op'[u].k = "create"
          PROVE  Kept(op[u].d) /\ Kept(op[u].i) /\ held'[op[u].i] = held[op[u].i]
      <3>1. op[u].k = "create"
        BY <1>4, <2>1
      <3>2. op[u].d \in Inos /\ op[u].i \in Inos /\ op[u].i # i
        BY <1>1, <3>1, CreatingIs
      <3>3. QED
        BY <1>3, <1>8, <3>2
    <2>2. QED
      BY <1>3, <1>4, <2>1 DEF QuietOps
  <1>10. OpsOk' /\ \A j : Creating(j)' => Creating(j)
    BY <1>9, QuietOpsKeeps
  <1>11. ScanOk'
    <2>1. ASSUME rd.d # 0
          PROVE  held'[rd.d] > 0 /\ ~Creating(rd.d)' /\ node'[rd.d].pages = node[rd.d].pages
      <3>1. PICK r \in Inos : r = rd.d
        BY <1>2, <2>1 DEF ScanOk
      <3>2. held[r] > 0 /\ ~Creating(r)
        BY <1>2, <2>1, <3>1 DEF ScanOk
      <3>3. ~Creating(r)' /\ rd'.d = r
        BY <1>3, <1>10, <3>1, <3>2
      <3>4. ~Creating(rd.d)'
        BY <3>3 DEF Creating
      <3>5. QED
        BY <1>3, <3>1, <3>2, <3>4
    <2>2. QED
      BY <1>2, <1>3, <2>1, QuietScan
  <1>12. HandlesOk'
    <2>1. HandlesValid'
      BY <1>1, <1>2, <1>3 DEF HandlesOk, HandlesValid
    <2>2. QED
      BY <1>2, <1>3, <2>1 DEF HandlesOk
  <1>13. OrphansOk'
    BY <1>2, <1>3 DEF OrphansOk
  <1>14. QED
    BY <1>5, <1>6, <1>7, <1>10, <1>11, <1>12, <1>13 DEF Rests

(* What a lookup on its way to an inode knows.                             *)
LEMMA IgetIs ==
  ASSUME IInv, NEW t \in Threads, op[t].k = "iget"
  PROVE  /\ \E l \in LinksOf(node) : l[3] = op[t].i
         /\ op[t].i \in Inos /\ op[t].i # Root /\ op[t].i \in tab /\ uaf = FALSE
         /\ ref[op[t].i] = held[op[t].i] /\ held[op[t].i] \in Nat
         /\ tii[op[t].i] = "none" => held[op[t].i] = 0
  <1>1. LookupOk(op[t]) /\ HandlesOk /\ TypesOk
    BY DEF IInv, OpsOk
  <1>2. \E l \in LinksOf(node) : l[3] = op[t].i
    BY <1>1 DEF LookupOk
  <1>3. op[t].i \in Inos /\ op[t].i # Root /\ op[t].i \in tab
    BY <1>2, LinkedIs
  <1>4. QED
    BY <1>1, <1>2, <1>3 DEF HandlesOk, HandlesValid, TypesOk

(* toyfs_iget of an inode that has an inode_info.                          *)
LEMMA IgetHitKeeps ==
  ASSUME IInv, NEW t \in Threads, IgetHit(t)
  PROVE  IInv' /\ LinksOf(node') = LinksOf(node)
  <1>1. PICK i : i = op[t].i
    OBVIOUS
  <1>2. /\ op[t].k = "iget" /\ tii[i] # "none"
        /\ ref' = [ref EXCEPT ![i] = @ + 1] /\ held' = [held EXCEPT ![i] = @ + 1]
        /\ uaf' = (uaf \/ i \notin tab) /\ op' = [op EXCEPT ![t] = Idle]
        /\ node' = node /\ tii' = tii /\ tab' = tab /\ mem' = mem /\ top' = top /\ rd' = rd
        /\ lost' = lost
    BY <1>1 DEF IgetHit, Finish
  <1>3. /\ \E l \in LinksOf(node) : l[3] = i
        /\ i \in Inos /\ i # Root /\ i \in tab /\ uaf = FALSE /\ ref[i] = held[i]
    BY <1>1, <1>2, IgetIs
  <1>4. TypesOk
    BY DEF IInv
  <1>5. uaf' = FALSE
    BY <1>2, <1>3
  <1>6. /\ ref' \in [Inos -> Nat] /\ ref'[i] = held[i] + 1
        /\ \A j \in Inos : j # i => ref'[j] = ref[j]
    BY <1>2, <1>3, <1>4 DEF TypesOk
  <1>7. Given(i, t)
    BY <1>2, <1>4, <1>5, <1>6 DEF Given, TypesOk
  <1>8. Rests'
    BY <1>3, <1>7, GivenKeeps
  <1>9. QED
    BY <1>2, <1>8, IInvIs, IInvIsPrime

(* toyfs_iget of one that has none.                                        *)
LEMMA IgetNewKeeps ==
  ASSUME IInv, NEW t \in Threads, IgetNew(t)
  PROVE  IInv' /\ LinksOf(node') = LinksOf(node)
  <1>1. PICK i : i = op[t].i
    OBVIOUS
  <1>2. /\ op[t].k = "iget" /\ tii[i] = "none"
        /\ uaf' = (uaf \/ i \notin tab) /\ op' = [op EXCEPT ![t] = Idle]
        /\ node' = node /\ tab' = tab /\ top' = top /\ rd' = rd /\ lost' = lost
    BY <1>1 DEF IgetNew, Finish
  <1>3. /\ mem.ffree > 0 =>
             /\ tii' = [tii EXCEPT ![i] = "half"] /\ ref' = [ref EXCEPT ![i] = 1]
             /\ held' = [held EXCEPT ![i] = @ + 1] /\ mem' = AllocIi(mem)
        /\ ~(mem.ffree > 0) => tii' = tii /\ ref' = ref /\ held' = held /\ mem' = mem
    BY <1>1 DEF IgetNew
  <1>4. /\ \E l \in LinksOf(node) : l[3] = i
        /\ i \in Inos /\ i # Root /\ i \in tab /\ uaf = FALSE /\ held[i] = 0
    BY <1>1, <1>2, IgetIs
  <1>5. TypesOk /\ TreeInv(node) /\ PoolOk(node, mem, tii, lost)
    BY DEF IInv
  <1>6. uaf' = FALSE
    BY <1>2, <1>4
  <1>7. CASE mem.ffree > 0
    <2>1. /\ tii' \in [Inos -> {"none", "full", "half"}] /\ tii'[i] = "half"
          /\ \A j \in Inos : j # i => tii'[j] = tii[j]
      BY <1>3, <1>4, <1>5, <1>7 DEF TypesOk
    <2>2. /\ ref' \in [Inos -> Nat] /\ ref'[i] = held[i] + 1
          /\ \A j \in Inos : j # i => ref'[j] = ref[j]
      BY <1>3, <1>4, <1>5, <1>7 DEF TypesOk
    <2>3. Given(i, t)
      BY <1>2, <1>3, <1>6, <1>7, <2>1, <2>2 DEF Given
    <2>4. Rests'
      BY <1>4, <2>3, GivenKeeps
    <2>5. InfosOf(tii') = InfosOf(tii) \cup {i}
      BY <1>4, <2>1 DEF InfosOf
    <2>6. PoolOk(node, AllocIi(mem), tii', lost)
      BY <1>2, <1>4, <1>5, <1>7, <2>5, PoolInfo
    <2>7. QED
      BY <1>2, <1>3, <1>5, <1>7, <2>4, <2>6, IInvIsPrime
  <1>8. CASE ~(mem.ffree > 0)
    <2>1. op' \in [Threads -> OpRecs] /\ \A u \in Threads : op'[u] = op[u] \/ op'[u].k = "none"
      BY <1>2, <1>5, OpFacts DEF TypesOk, OpRecs, Idle
    <2>2. Quiet
      BY <1>2, <1>3, <1>4, <1>6, <1>8, <2>1, SameQuiet
    <2>3. Rests'
      BY <1>2, <2>2, QuietKeeps DEF Rests
    <2>4. QED
      BY <1>2, <1>3, <1>8, <2>3, IInvIs, IInvIsPrime
  <1>9. QED
    BY <1>7, <1>8

(* An inode without links can be freed: no dirent leads to it, and it has  *)
(* none.                                                                   *)
LEMMA GoneIs ==
  ASSUME NEW nd, TreeInv(nd), NEW i \in Inos, nd[i].live, nd[i].nlink = 0
  PROVE  /\ CanPut(nd, i, NoNode) /\ ~(IsDir(nd[i]) /\ nd[i].size > 0)
         /\ \A l \in LinksOf(nd) : l[3] # i
  <1> DEFINE L == LinksOf(nd)
             D == DirsOf(nd)
             S == SubsIn(L, D, i)
             T == LinksIn(L, i)
  <1>1. NodesOk(nd) /\ IsFiniteSet(L) /\ NlinkOk(nd[i], i, L, D)
    BY DEF TreeInv, LinksOk
  <1>2. IsFiniteSet(S) /\ IsFiniteSet(T)
    BY <1>1, FS_Subset DEF SubsIn, LinksIn
  <1>3. Cardinality(S) \in Nat /\ Cardinality(T) \in Nat
    BY <1>2, FS_CardinalityType
  <1>4. nd[i].size \in Nat
    BY <1>1, NodeFacts
  <1>5. 0 = Cardinality(T) + IF ~IsDir(nd[i]) \/ nd[i].size = 0 THEN 0
                             ELSE Cardinality(S) + IF i = Root THEN 2 ELSE 1
    BY <1>1 DEF NlinkOk
  <1> HIDE DEF S, T, L, D
  <1>6. Cardinality(T) = 0 /\ (~IsDir(nd[i]) \/ nd[i].size = 0)
    <2>1. CASE ~IsDir(nd[i]) \/ nd[i].size = 0
      BY <1>3, <1>5, <2>1
    <2>2. CASE ~(~IsDir(nd[i]) \/ nd[i].size = 0)
      BY <1>3, <1>5, <2>2
    <2>3. QED
      BY <2>1, <2>2
  <1>7. T = {}
    BY <1>2, <1>6, FS_EmptySet
  <1>8. \A l \in L : l[3] # i
    BY <1>7 DEF T, LinksIn
  <1>9. Places(nd[i].pages) = {}
    <2>1. CASE IsDir(nd[i])
      BY <1>1, <1>6, <2>1, NodeFacts, FS_EmptySet
    <2>2. CASE ~IsDir(nd[i])
      BY <1>1, <2>2, NoPagesIs DEF NodesOk, NodeOk
    <2>3. QED
      BY <2>1, <2>2
  <1>10. NoNode \in NodeRecs /\ NodeOk(NoNode) /\ ~NoNode.live /\ Places(NoNode.pages) = {}
    BY NoNodeIs, NoPagesIs
  <1>11. \A n \in Names, j \in Inos : ~HasLink(NoNode.pages, n, j) /\ ~HasLink(nd[i].pages, n, j)
    BY <1>9, <1>10 DEF HasLink
  <1>12. QED
    BY <1>6, <1>8, <1>10, <1>11 DEF CanPut, L

(* A file that has links is named by a dirent.                             *)
LEMMA NamedIs ==
  ASSUME NEW nd, TreeInv(nd), NEW i \in Inos, nd[i].live, nd[i].nlink # 0, ~IsDir(nd[i])
  PROVE  \E l \in LinksOf(nd) : l[3] = i
  <1> DEFINE T == LinksIn(LinksOf(nd), i)
  <1>1. IsFiniteSet(T) /\ nd[i].nlink = Cardinality(T) + 0
    BY FS_Subset DEF TreeInv, LinksOk, NlinkOk, LinksIn
  <1>2. Cardinality(T) \in Nat
    BY <1>1, FS_CardinalityType
  <1> HIDE DEF T
  <1>3. Cardinality(T) # 0
    BY <1>1, <1>2
  <1>4. T # {}
    BY <1>3, FS_EmptySet
  <1>5. QED
    BY <1>4 DEF T, LinksIn

(* The pool when the last reference is dropped.                            *)
Loses(t, u, i) == t[i] # "none" /\ InfosOf(u) = InfosOf(t) \ {i}

(* Every page of the inode is returned or counted as lost.                 *)
LEMMA GonePool ==
  ASSUME NEW nd, NodesOk(nd), NEW m, NEW t, NEW x \in Nat, PoolOk(nd, m, t, x),
         NEW i \in Inos, nd[i].live, NEW r, r = [nd EXCEPT ![i] = NoNode], NEW u, Loses(t, u, i)
  PROVE  PoolOk(r, FreeIi(ReleasePmembs(ReleaseInode(m), Released(nd[i]))), u,
                IF nd[i].kind = "lnk32" THEN x + 1 ELSE x)
  <1> DEFINE q == ReleasePmembs(ReleaseInode(m), Released(nd[i]))
             y == x + IF nd[i].kind = "lnk32" THEN 1 ELSE 0
  <1>1. PoolOk(r, q, t, y)
    BY PoolFree
  <1>2. y = IF nd[i].kind = "lnk32" THEN x + 1 ELSE x
    OBVIOUS
  <1> HIDE DEF q, y
  <1>3. PoolOk(r, FreeIi(q), u, y)
    BY <1>1, PoolInfo DEF Loses
  <1>4. QED
    BY <1>2, <1>3 DEF q

(* toyfs_evict with the last reference, of an inode that no other call and *)
(* no reader uses.                                                         *)
Dropped(i) ==
  /\ i # Root /\ held[i] = 1 /\ rd.d # i /\ EvictLast(i)
  /\ held' = [held EXCEPT ![i] = 0] /\ top' = top /\ rd' = rd /\ uaf' = uaf
  /\ op' \in [Threads -> OpRecs] /\ \A u \in Threads : op'[u] = op[u] \/ op'[u].k = "none"
  /\ \A u \in Threads : op'[u].k = "create" => op[u].d # i /\ op[u].i # i

(* The last eviction keeps the invariant, whether it frees the inode or    *)
(* not.                                                                    *)
LEMMA DroppedKeeps ==
  ASSUME IInv, NEW i \in Inos, Dropped(i)
  PROVE  IInv' /\ LinksOf(node') = LinksOf(node)
  <1> DEFINE gone == node[i].nlink = 0
  <1>1. /\ i # Root /\ held[i] = 1 /\ rd.d # i /\ top' = top /\ rd' = rd /\ uaf' = uaf
        /\ held' = [held EXCEPT ![i] = 0]
        /\ op' \in [Threads -> OpRecs] /\ \A u \in Threads : op'[u] = op[u] \/ op'[u].k = "none"
        /\ \A u \in Threads : op'[u].k = "create" => op[u].d # i /\ op[u].i # i
    BY DEF Dropped
  <1>2. /\ TreeInv(node) /\ PoolOk(node, mem, tii, lost) /\ TypesOk /\ RootOk /\ FreshOk
        /\ ScanOk /\ HandlesOk /\ OrphansOk /\ NodesOk(node)
    BY DEF IInv, TreeInv
  <1>3. tii[i] # "none" /\ node[i].live /\ i \in tab
    BY <1>1, <1>2 DEF HandlesOk, HandlesValid
  <1>4. /\ gone => ~(IsDir(node[i]) /\ node[i].size > 0) /\ CanPut(node, i, NoNode)
        /\ gone => \A l \in LinksOf(node) : l[3] # i
    BY <1>2, <1>3, GoneIs
  <1>5. /\ tii' = [tii EXCEPT ![i] = "none"] /\ ref' = [ref EXCEPT ![i] = 0]
        /\ tab' = IF gone THEN tab \ {i} ELSE tab
        /\ gone => /\ node' = [node EXCEPT ![i] = NoNode]
                   /\ mem' = FreeIi(ReleasePmembs(ReleaseInode(mem), Released(node[i])))
                   /\ lost' = IF node[i].kind = "lnk32" THEN lost + 1 ELSE lost
        /\ ~gone => node' = node /\ mem' = FreeIi(mem) /\ lost' = lost
    BY <1>4 DEF Dropped, EvictLast, IUntrack
  <1> HIDE DEF gone
  <1>6. TreeInv(node') /\ LinksOf(node') = LinksOf(node)
    <2>1. CASE gone
      BY <1>2, <1>4, <1>5, <2>1, PutKeeps
    <2>2. CASE ~gone
      BY <1>2, <1>5, <2>2
    <2>3. QED
      BY <2>1, <2>2
  <1>7. /\ tii' \in [Inos -> {"none", "full", "half"}] /\ tii'[i] = "none"
        /\ ref' \in [Inos -> Nat] /\ ref'[i] = 0 /\ held' \in [Inos -> Nat] /\ held'[i] = 0
        /\ \A j \in Inos : j # i => tii'[j] = tii[j] /\ ref'[j] = ref[j] /\ held'[j] = held[j]
    BY <1>1, <1>2, <1>5 DEF TypesOk
  <1>8. /\ \A j \in Inos : j # i => node'[j] = node[j]
        /\ gone => node'[i] = NoNode /\ ~node'[i].live
        /\ ~gone => node'[i] = node[i]
    <2>1. node \in [Inos -> NodeRecs]
      BY <1>2 DEF NodesOk
    <2>2. CASE gone
      <3>1. node'[i] = NoNode /\ \A j \in Inos : j # i => node'[j] = node[j]
        BY <1>5, <2>1, <2>2
      <3>2. QED
        BY <2>2, <3>1, NoNodeIs
    <2>3. CASE ~gone
      BY <1>5, <2>3
    <2>4. QED
      BY <2>2, <2>3
  <1>9. tab' \subseteq tab /\ (~gone => tab' = tab) /\ \A j \in tab : j # i => j \in tab'
    BY <1>5
  <1>10. lost' \in Nat
    BY <1>2, <1>5 DEF TypesOk
  <1>11. PoolOk(node', mem', tii', lost')
    <2>1. Loses(tii, tii', i)
      <3>1. InfosOf(tii') = InfosOf(tii) \ {i}
        BY <1>7 DEF InfosOf
      <3>2. QED
        BY <1>3, <3>1 DEF Loses
    <2>2. CASE gone
      <3>1. node' = [node EXCEPT ![i] = NoNode] /\ lost \in Nat
        BY <1>2, <1>5, <2>2 DEF TypesOk
      <3>2. PoolOk(node', FreeIi(ReleasePmembs(ReleaseInode(mem), Released(node[i]))), tii',
                   IF node[i].kind = "lnk32" THEN lost + 1 ELSE lost)
        BY <1>2, <1>3, <2>1, <3>1, GonePool
      <3>3. QED
        BY <1>5, <2>2, <3>2
    <2>3. CASE ~gone
      <3>1. PoolOk(node, FreeIi(mem), tii', lost)
        BY <1>2, <2>1, PoolInfo DEF Loses
      <3>2. QED
        BY <1>5, <2>3, <3>1
    <2>4. QED
      BY <2>2, <2>3
  <1>12. TypesOk'
    BY <1>1, <1>2, <1>7, <1>9, <1>10 DEF TypesOk
  <1>13. RootOk'
    BY <1>1, <1>2, <1>7, <1>8, <1>9, NsAssumption DEF RootOk
  <1>14. FreshOk'
    BY <1>1, <1>2, <1>3, <1>7, <1>8, <1>9 DEF FreshOk
  <1>15. \A j \in Inos : j # i => Kept(j)
    BY <1>7, <1>8 DEF Kept
  <1>16. QuietOps
    <2>1. ASSUME NEW u \in Threads, op'[u].k = "create"
          PROVE  Kept(op[u].d) /\ Kept(op[u].i) /\ held'[op[u].i] = held[op[u].i]
      <3>1. op[u].k = "create"
        BY <1>1, <2>1
      <3>2. op[u].d \in Inos /\ op[u].i \in Inos /\ op[u].d # i /\ op[u].i # i
        BY <1>1, <2>1, <3>1, CreatingIs
      <3>3. QED
        BY <1>7, <1>15, <3>2
    <2>2. QED
      BY <1>1, <1>6, <2>1 DEF QuietOps
  <1>17. OpsOk' /\ \A j : Creating(j)' => Creating(j)
    BY <1>16, QuietOpsKeeps
  <1>18. ScanOk'
    <2>1. ASSUME rd.d # 0
          PROVE  held'[rd.d] > 0 /\ ~Creating(rd.d)' /\ node'[rd.d].pages = node[rd.d].pages
      <3>1. PICK r \in Inos : r = rd.d
        BY <1>2, <2>1 DEF ScanOk
      <3>2. held[r] > 0 /\ ~Creating(r) /\ r # i
        BY <1>1, <1>2, <2>1, <3>1 DEF ScanOk
      <3>3. ~Creating(r)' /\ rd'.d = r
        BY <1>1, <1>17, <3>1, <3>2
      <3>4. ~Creating(rd.d)'
        BY <3>3 DEF Creating
      <3>5. QED
        BY <1>7, <1>8, <3>1, <3>2, <3>4
    <2>2. QED
      BY <1>1, <1>2, <2>1, QuietScan
  <1>19. HandlesOk'
    <2>1. HandlesValid'
      BY <1>2, <1>7, <1>8, <1>9 DEF HandlesOk, HandlesValid
    <2>2. \A l \in LinksOf(node') : l[3] \in tab'
      BY <1>2, <1>4, <1>6, <1>9 DEF HandlesOk
    <2>3. QED
      BY <1>1, <1>2, <2>1, <2>2 DEF HandlesOk
  <1>20. OrphansOk'
    <2> SUFFICES ASSUME NEW j \in Inos, node'[j].live, held'[j] = 0, ~IsDir(node'[j])
                 PROVE  \E l \in LinksOf(node') : l[3] = j
      BY DEF OrphansOk
    <2>1. CASE j = i
      <3>1. ~gone /\ node'[i] = node[i]
        BY <1>8, <2>1
      <3>2. node[i].nlink # 0 /\ ~IsDir(node[i])
        BY <2>1, <3>1 DEF gone
      <3>3. QED
        BY <1>2, <1>3, <1>6, <2>1, <3>2, NamedIs
    <2>2. CASE j # i
      BY <1>2, <1>6, <1>7, <1>8, <2>2 DEF OrphansOk
    <2>3. QED
      BY <2>1, <2>2
  <1>21. QED
    BY <1>6, <1>11, <1>12, <1>13, <1>14, <1>17, <1>18, <1>19, <1>20, IInvIsPrime DEF Rests

(* The end of a creation that finds no room for the dirent.                *)
LEMMA AddDentryFailKeeps ==
  ASSUME IInv, NEW t \in Threads, AddDentryFail(t)
  PROVE  IInv' /\ LinksOf(node') = LinksOf(node)
  <1>1. PICK i : i = op[t].i
    OBVIOUS
  <1>2. /\ op[t].k = "create" /\ EvictLast(i) /\ held' = [held EXCEPT ![i] = 0]
        /\ op' = [op EXCEPT ![t] = Idle] /\ top' = top /\ rd' = rd /\ uaf' = uaf
    BY <1>1 DEF AddDentryFail, Finish
  <1>3. /\ i \in Inos /\ CreateOk(op[t]) /\ Creating(i)
    BY <1>1, <1>2, CreatingIs
  <1>4. i # Root /\ held[i] = 1
    BY <1>1, <1>3 DEF CreateOk
  <1>5. rd.d # i
    BY <1>3, DirAssumption DEF IInv, ScanOk
  <1>6. op \in [Threads -> OpRecs] /\ OpsOk
    BY DEF IInv, TypesOk
  <1>7. /\ op' \in [Threads -> OpRecs] /\ op'[t].k = "none"
        /\ \A u \in Threads : u # t => op'[u] = op[u]
    BY <1>2, <1>6, OpFacts DEF OpRecs, Idle
  <1>8. ASSUME NEW u \in Threads, op'[u].k = "create" PROVE op[u].d # i /\ op[u].i # i
    <2>1. u # t /\ op[u].k = "create"
      BY <1>7, <1>8
    <2>2. op[u].i # i
      BY <1>1, <1>2, <1>6, <2>1 DEF OpsOk
    <2>3. CreateOk(op[u])
      BY <2>1, CreatingIs
    <2>4. op[u].d # i
      BY <1>3, <2>3 DEF CreateOk, UsableDir
    <2>5. QED
      BY <2>2, <2>4
  <1>9. Dropped(i)
    BY <1>2, <1>4, <1>5, <1>7, <1>8 DEF Dropped
  <1>10. QED
    BY <1>3, <1>9, DroppedKeeps

(* toyfs_evict.                                                            *)
LEMMA EvictKeeps ==
  ASSUME IInv, NEW i \in Inos, Evict(i)
  PROVE  IInv' /\ LinksOf(node') = LinksOf(node)
  <1>1. /\ i # Root /\ Usable(i) /\ (held[i] = 1 => ~InUse(i)) /\ (EvictRef(i) \/ EvictLast(i))
        /\ held' = [held EXCEPT ![i] = @ - 1]
        /\ top' = top /\ op' = op /\ rd' = rd /\ uaf' = uaf
    BY DEF Evict
  <1>2. /\ TreeInv(node) /\ PoolOk(node, mem, tii, lost) /\ TypesOk /\ RootOk /\ FreshOk /\ OpsOk
        /\ ScanOk /\ HandlesOk /\ OrphansOk
    BY DEF IInv
  <1>3. ref[i] = held[i] /\ held[i] \in Nat
    BY <1>1, <1>2 DEF HandlesOk, HandlesValid, TypesOk
  <1>4. CASE EvictLast(i)
    <2>1. held[i] = 1
      BY <1>3, <1>4 DEF EvictLast
    <2>2. ~Locked(i) /\ ~Creating(i) /\ rd.d # i
      BY <1>1, <2>1 DEF InUse
    <2>3. held' = [held EXCEPT ![i] = 0]
      BY <1>1, <2>1
    <2>4. op' \in [Threads -> OpRecs]
      BY <1>1, <1>2 DEF TypesOk
    <2>5. \A u \in Threads : op[u].k = "create" => op[u].d # i /\ op[u].i # i
      BY <2>2 DEF Locked, Exclusive, Creating
    <2>6. Dropped(i)
      BY <1>1, <1>4, <2>1, <2>2, <2>3, <2>4, <2>5 DEF Dropped
    <2>7. QED
      BY <2>6, DroppedKeeps
  <1>5. CASE EvictRef(i)
    <2>1. /\ ref[i] > 1 /\ ref' = [ref EXCEPT ![i] = @ - 1]
          /\ node' = node /\ tii' = tii /\ tab' = tab /\ mem' = mem /\ lost' = lost
      BY <1>5 DEF EvictRef
    <2>2. /\ held[i] > 1 /\ held' \in [Inos -> Nat] /\ ref' \in [Inos -> Nat]
          /\ held'[i] = held[i] - 1 /\ held'[i] > 0 /\ ref'[i] = held'[i]
          /\ \A j \in Inos : j # i => held'[j] = held[j] /\ ref'[j] = ref[j]
      BY <1>1, <1>2, <1>3, <2>1 DEF TypesOk
    <2>3. TypesOk'
      BY <1>1, <1>2, <2>1, <2>2 DEF TypesOk
    <2>4. RootOk'
      BY <1>1, <1>2, <2>1, <2>2, NsAssumption DEF RootOk
    <2>5. FreshOk'
      <3>1. \A j \in Inos : j >= top => j # i
        BY <1>2, <2>2 DEF FreshOk
      <3>2. QED
        BY <1>1, <1>2, <2>1, <2>2, <3>1 DEF FreshOk
    <2>6. \A j \in Inos : Kept(j)
      BY <2>1, <2>2 DEF Kept
    <2>7. QuietOps
      <3>1. ASSUME NEW u \in Threads, op'[u].k = "create"
            PROVE  Kept(op[u].d) /\ Kept(op[u].i) /\ held'[op[u].i] = held[op[u].i]
        <4>1. op[u].k = "create"
          BY <1>1, <3>1
        <4>2. op[u].d \in Inos /\ op[u].i \in Inos /\ CreateOk(op[u])
          BY <4>1, CreatingIs
        <4>3. op[u].i # i
          BY <2>2, <4>2 DEF CreateOk
        <4>4. QED
          BY <2>2, <2>6, <4>2, <4>3
      <3>2. QED
        BY <1>1, <1>2, <2>1, <3>1 DEF QuietOps, TypesOk
    <2>8. OpsOk' /\ \A j : Creating(j)' => Creating(j)
      BY <2>7, QuietOpsKeeps
    <2>9. ScanOk'
      <3>1. ASSUME rd.d # 0
            PROVE  held'[rd.d] > 0 /\ ~Creating(rd.d)' /\ node'[rd.d].pages = node[rd.d].pages
        <4>1. PICK r \in Inos : r = rd.d
          BY <1>2, <3>1 DEF ScanOk
        <4>2. held[r] > 0 /\ ~Creating(r)
          BY <1>2, <3>1, <4>1 DEF ScanOk
        <4>3. ~Creating(r)' /\ rd'.d = r
          BY <1>1, <2>8, <4>1, <4>2
        <4>4. ~Creating(rd.d)'
          BY <4>3 DEF Creating
        <4>5. QED
          BY <2>1, <2>2, <4>1, <4>2, <4>4
      <3>2. QED
        BY <1>1, <1>2, <3>1, QuietScan
    <2>10. HandlesOk'
      <3>1. HandlesValid'
        <4> SUFFICES ASSUME NEW j \in Inos \ {Root}
                     PROVE  /\ ref'[j] = held'[j] /\ (held'[j] > 0 <=> tii'[j] # "none")
                            /\ held'[j] > 0 => j \in tab' /\ node'[j].live
          BY DEF HandlesValid
        <4>1. /\ ref[j] = held[j] /\ (held[j] > 0 <=> tii[j] # "none")
              /\ held[j] > 0 => j \in tab /\ node[j].live
          BY <1>2 DEF HandlesOk, HandlesValid
        <4>2. CASE j = i
          BY <1>3, <2>1, <2>2, <4>1, <4>2
        <4>3. CASE j # i
          BY <2>1, <2>2, <4>1, <4>3
        <4>4. QED
          BY <4>2, <4>3
      <3>2. QED
        BY <1>1, <1>2, <2>1, <3>1 DEF HandlesOk
    <2>11. OrphansOk'
      BY <1>2, <2>1, <2>2 DEF OrphansOk
    <2>12. QED
      BY <1>2, <2>1, <2>3, <2>4, <2>5, <2>8, <2>9, <2>10, <2>11, IInvIsPrime DEF Rests
  <1>6. QED
    BY <1>1, <1>4, <1>5
-----------------------------------------------------------------------------
(* Reading a directory.                                                    *)

(* A reader that is right, by its fields.                                  *)
LEMMA ScanFields ==
  ASSUME NEW d, NEW pos, NEW due, NEW seen, NEW missed, NEW dup, missed = {}, dup = FALSE,
         rd' = MkScan(d, pos, due, seen, missed, dup), d \in Inos, pos \in Nat, held'[d] > 0,
         ~Creating(d)',
         DueAt(node'[d].pages, pos, due), SeenAt(node'[d].pages, pos, seen)
  PROVE  ScanOk'
  <1>1. rd'.d = d /\ rd'.pos = pos /\ rd'.due = due /\ rd'.seen = seen
    BY MkScanIs
  <1>2. ~Creating(rd.d)'
    BY <1>1 DEF Creating
  <1>3. QED
    BY <1>1, <1>2 DEF ScanOk

(* No reader.                                                              *)
LEMMA NoScanOk ==
  ASSUME rd' = NoScan
  PROVE  ScanOk'
  <1>1. NoScan = MkScan(0, 0, {}, {}, {}, FALSE)
    BY DEF NoScan, MkScan
  <1>2. NoScan.d = 0 /\ NoScan.pos = 0 /\ NoScan.due = {} /\ NoScan.seen = {}
    BY DEF NoScan
  <1>3. QED
    BY <1>1, <1>2 DEF ScanOk

(* A step of the reader changes nothing but what the reader knows.         *)
LEMMA ReaderKeeps ==
  ASSUME IInv, UNCHANGED <<node, tiiVars, mem, top, op, stale, uaf, lost>>
  PROVE  /\ \A j : Creating(j)' => Creating(j)
         /\ node' = node /\ held' = held /\ LinksOf(node') = LinksOf(node)
         /\ ScanOk' => IInv'
  <1>1. /\ node' = node /\ tii' = tii /\ ref' = ref /\ tab' = tab /\ held' = held /\ op' = op
        /\ uaf' = uaf /\ lost' = lost /\ mem' = mem /\ top' = top
    BY DEF tiiVars
  <1>2. Quiet
    BY <1>1, OpsType, SameQuiet
  <1>3. /\ TypesOk' /\ RootOk' /\ FreshOk' /\ OpsOk' /\ HandlesOk' /\ OrphansOk'
        /\ \A j : Creating(j)' => Creating(j)
    BY <1>2, QuietKeeps
  <1>4. ScanOk' => Rests'
    BY <1>3 DEF Rests
  <1>5. QED
    BY <1>1, <1>3, <1>4, IInvIs, IInvIsPrime

(* The reader closes the directory.                                        *)
LEMMA EndScanKeeps ==
  ASSUME IInv, EndScan
  PROVE  IInv' /\ LinksOf(node') = LinksOf(node)
  <1>1. rd' = NoScan /\ UNCHANGED <<node, tiiVars, mem, top, op, stale, uaf, lost>>
    BY DEF EndScan
  <1>2. QED
    BY <1>1, NoScanOk, ReaderKeeps

(* The reader opens a directory.                                           *)
LEMMA StartScanKeeps ==
  ASSUME IInv, NEW d \in Inos, StartScan(d)
  PROVE  IInv' /\ LinksOf(node') = LinksOf(node)
  <1> DEFINE due == Dirents(node[d].pages)
  <1>1. /\ UsableDir(d) /\ rd' = [NoScan EXCEPT !.d = d, !.due = due]
        /\ UNCHANGED <<node, tiiVars, mem, top, op, stale, uaf, lost>>
    BY DEF StartScan
  <1>2. /\ \A j : Creating(j)' => Creating(j)
        /\ node' = node /\ held' = held /\ LinksOf(node') = LinksOf(node) /\ (ScanOk' => IInv')
    BY <1>1, ReaderKeeps
  <1>3. held[d] > 0 /\ ~Creating(d)
    BY <1>1 DEF UsableDir, Usable
  <1>4. DirOk(node[d].pages)
    BY DEF IInv, TreeInv, NodesOk, NodeOk
  <1>5. DueAt(node[d].pages, 0, due)
    <2>1. \A x \in Places(node[d].pages) : OffOf(x) \in Nat
      BY <1>4, OffIs
    <2>2. QED
      BY <2>1 DEF DueAt, Dirents
  <1>6. SeenAt(node[d].pages, 0, {})
    BY DEF SeenAt
  <1> HIDE DEF due
  <1>7. rd' = MkScan(d, 0, due, {}, {}, FALSE)
    BY <1>1 DEF NoScan, MkScan
  <1>8. ScanOk'
    <2> DEFINE pos == 0
               none == {}
               dup == FALSE
    <2>1. /\ pos \in Nat /\ DueAt(node'[d].pages, pos, due) /\ SeenAt(node'[d].pages, pos, none)
          /\ rd' = MkScan(d, pos, due, none, none, dup) /\ none = {} /\ dup = FALSE
      BY <1>2, <1>5, <1>6, <1>7
    <2>2. held'[d] > 0 /\ ~Creating(d)'
      BY <1>2, <1>3
    <2> HIDE DEF pos, none, dup
    <2>3. QED
      BY <2>1, <2>2, ScanFields
  <1>9. QED
    BY <1>2, <1>8

Emitted(pages, r) == {At(pages, x) : x \in r.out}

AfterEmit(pages, r, due, seen, got) ==
  /\ got \cap seen = {} /\ Cardinality(got) = Cardinality(r.out) /\ Cardinality(got) \in Nat
  /\ DueAt(pages, r.pos, due \ got) /\ SeenAt(pages, r.pos, seen \cup (due \cap got))
  /\ r.pos \in Nat
  /\ ~r.more => due \ got = {}

(* The sets of the reader after a call that emitted r.                     *)
LEMMA EmitKeeps ==
  ASSUME NEW pages, DirOk(pages), NEW pos \in Nat, NEW due, NEW seen, NEW r,
         Emits(pages, pos, r), DueAt(pages, pos, due), SeenAt(pages, pos, seen)
  PROVE  AfterEmit(pages, r, due, seen, Emitted(pages, r))
  <1> DEFINE P == Places(pages)
             got == {At(pages, x) : x \in r.out}
  <1>1. /\ r.out \in SUBSET P /\ r.pos \in Nat /\ pos <= r.pos
        /\ \A x \in r.out : pos <= OffOf(x) /\ OffOf(x) < r.pos
        /\ \A x \in P : pos <= OffOf(x) /\ x \notin r.out => r.pos <= OffOf(x)
    BY DEF Emits
  <1>2. ~r.more => \A x \in P : pos <= OffOf(x) => x \in r.out
    BY Zenon DEF Emits
  <1>3. /\ Cardinality(got) = Cardinality(r.out) /\ Cardinality(r.out) \in Nat
        /\ \A x \in P, y \in P : At(pages, x) = At(pages, y) => x = y
    BY <1>1, EmittedOnce
  <1>4. \A x \in P : OffOf(x) \in Nat
    BY OffIs
  <1> HIDE DEF P
  <1>5. /\ \A e \in due : \E x \in P : At(pages, x) = e /\ pos <= OffOf(x)
        /\ \A e \in seen : \E x \in P : At(pages, x) = e /\ OffOf(x) < pos
    BY <1>4 DEF DueAt, SeenAt, P
  <1>6. got \cap seen = {}
    <2> SUFFICES ASSUME NEW e \in got, e \in seen PROVE FALSE
      OBVIOUS
    <2>1. PICK x \in r.out : e = At(pages, x)
      OBVIOUS
    <2>2. PICK y \in P : At(pages, y) = e /\ OffOf(y) < pos
      BY <1>5
    <2>3. x = y /\ pos <= OffOf(x) /\ OffOf(x) \in Nat
      BY <1>1, <1>3, <1>4, <2>1, <2>2
    <2>4. QED
      BY <2>2, <2>3
  <1>7. DueAt(pages, r.pos, due \ got)
    <2> SUFFICES ASSUME NEW e \in due \ got
                 PROVE  \E x \in P : At(pages, x) = e /\ OffOf(x) >= r.pos
      BY DEF DueAt, P
    <2>1. PICK x \in P : At(pages, x) = e /\ pos <= OffOf(x)
      BY <1>5
    <2>2. x \notin r.out
      BY <2>1
    <2>3. r.pos <= OffOf(x)
      BY <1>1, <2>1, <2>2
    <2>4. QED
      BY <1>1, <1>4, <2>1, <2>3
  <1>8. SeenAt(pages, r.pos, seen \cup (due \cap got))
    <2> SUFFICES ASSUME NEW e \in seen \cup got
                 PROVE  \E x \in P : At(pages, x) = e /\ OffOf(x) < r.pos
      BY DEF SeenAt, P
    <2>1. CASE e \in seen
      <3>1. PICK x \in P : At(pages, x) = e /\ OffOf(x) < pos
        BY <1>5, <2>1
      <3>2. QED
        BY <1>1, <1>4, <3>1
    <2>2. CASE e \in got
      BY <1>1, <2>2
    <2>3. QED
      BY <2>1, <2>2
  <1>9. ~r.more => due \ got = {}
    <2> SUFFICES ASSUME ~r.more, NEW e \in due PROVE e \in got
      OBVIOUS
    <2>1. PICK x \in P : At(pages, x) = e /\ pos <= OffOf(x)
      BY <1>5
    <2>2. x \in r.out
      BY <1>2, <2>1
    <2>3. QED
      BY <2>1, <2>2
  <1>10. Emitted(pages, r) = got
    BY DEF Emitted
  <1> HIDE DEF got
  <1>11. QED
    BY <1>1, <1>3, <1>6, <1>7, <1>8, <1>9, <1>10 DEF AfterEmit

ReadOn(s, pos, due, seen, dup) == [s EXCEPT !.pos = pos, !.due = due, !.seen = seen, !.dup = dup]

(* The reader after a call, field by field.                                *)
LEMMA ReadOnIs ==
  ASSUME NEW d, NEW p, NEW u, NEW s, NEW m, NEW t, NEW p2, NEW u2, NEW s2, NEW t2
  PROVE  ReadOn(MkScan(d, p, u, s, m, t), p2, u2, s2, t2) = MkScan(d, p2, u2, s2, m, t2)
  <1> DEFINE v == MkScan(d, p, u, s, m, t)
             w == [v EXCEPT !.pos = p2]
             y == [w EXCEPT !.due = u2]
             z == [y EXCEPT !.seen = s2]
  <1>1. ReadOn(v, p2, u2, s2, t2) = [z EXCEPT !.dup = t2]
    BY DEF ReadOn
  <1>2. w = MkScan(d, p2, u, s, m, t)
    BY DEF MkScan
  <1> HIDE DEF v, w
  <1>3. y = MkScan(d, p2, u2, s, m, t)
    BY <1>2 DEF MkScan
  <1> HIDE DEF y
  <1>4. z = MkScan(d, p2, u2, s2, m, t)
    BY <1>3 DEF MkScan
  <1> HIDE DEF z
  <1>5. [z EXCEPT !.dup = t2] = MkScan(d, p2, u2, s2, m, t2)
    BY <1>4 DEF MkScan
  <1>6. QED
    BY <1>1, <1>5 DEF v

(* toyfs_readdir.                                                          *)
LEMMA ReadDirKeeps ==
  ASSUME IInv, ReadDir
  PROVE  IInv' /\ LinksOf(node') = LinksOf(node)
  <1>1. /\ rd.d # 0 /\ UsableDir(rd.d)
        /\ UNCHANGED <<node, tiiVars, mem, top, op, stale, uaf, lost>>
    BY DEF ReadDir
  <1>2. ScanOk
    BY DEF IInv
  <1>3. PICK d, pos, due, seen, missed, dup :
          rd = MkScan(d, pos, due, seen, missed, dup) /\ missed = {} /\ dup = FALSE
    BY <1>2 DEF ScanOk
  <1>4. rd.d = d /\ rd.pos = pos /\ rd.due = due /\ rd.seen = seen /\ rd.dup = dup
    <2>1. rd = MkScan(d, pos, due, seen, missed, dup)
      BY <1>3
    <2>2. QED
      BY <2>1 DEF MkScan
  <1>5. /\ d \in Inos /\ pos \in Nat /\ held[d] > 0 /\ ~Creating(d)
        /\ DueAt(node[d].pages, pos, due) /\ SeenAt(node[d].pages, pos, seen)
    <2>1. /\ rd.d \in Inos /\ rd.pos \in Nat /\ held[rd.d] > 0 /\ ~Creating(rd.d)
          /\ DueAt(node[rd.d].pages, rd.pos, rd.due) /\ SeenAt(node[rd.d].pages, rd.pos, rd.seen)
      BY <1>1, <1>2 DEF ScanOk
    <2>2. QED
      BY <1>4, <2>1
  <1> DEFINE pages == node[d].pages
             r == IterateDir(pages, pos, BufSize)
             got == {At(pages, at) : at \in r.out}
             twice == got \cap seen # {} \/ Cardinality(got) < Cardinality(r.out)
             due2 == due \ got
             seen2 == seen \cup (due \cap got)
             dup2 == dup \/ twice
  <1>6. DirOk(pages)
    BY <1>5 DEF IInv, TreeInv, NodesOk, NodeOk
  <1>7. Emits(pages, pos, r)
    BY <1>5, <1>6, IterateIs, NsAssumption
  <1>8. rd' = IF r.more THEN ReadOn(rd, r.pos, due2, seen2, dup2)
              ELSE [NoScan EXCEPT !.missed = due2, !.dup = dup2]
    <2>1. rd' = IF r.more
                THEN ReadOn(rd, r.pos, rd.due \ got, rd.seen \cup (rd.due \cap got),
                            rd.dup \/ twice)
                ELSE [NoScan EXCEPT !.missed = rd.due \ got, !.dup = rd.dup \/ twice]
      BY <1>4, Zenon DEF ReadDir, ReadOn
    <2>2. QED
      BY <1>4, <2>1, Zenon
  <1>9. got = Emitted(pages, r)
    BY DEF Emitted
  <1> HIDE DEF r, got, pages
  <1>10. DueAt(pages, pos, due) /\ SeenAt(pages, pos, seen) /\ pos \in Nat
    BY <1>5 DEF pages
  <1>11. AfterEmit(pages, r, due, seen, Emitted(pages, r))
    BY <1>6, <1>7, <1>10, EmitKeeps
  <1>12. /\ got \cap seen = {} /\ Cardinality(got) = Cardinality(r.out)
         /\ Cardinality(got) \in Nat /\ r.pos \in Nat
         /\ DueAt(pages, r.pos, due2) /\ SeenAt(pages, r.pos, seen2)
         /\ ~r.more => due2 = {}
    BY <1>9, <1>11 DEF AfterEmit
  <1>13. ~twice
    BY <1>12
  <1> HIDE DEF twice
  <1>14. dup2 = FALSE
    BY <1>3, <1>13
  <1> HIDE DEF due2, seen2, dup2
  <1>15. /\ \A j : Creating(j)' => Creating(j)
         /\ node' = node /\ held' = held /\ LinksOf(node') = LinksOf(node) /\ (ScanOk' => IInv')
    BY <1>1, ReaderKeeps
  <1>16. CASE r.more
    <2>1. rd' = ReadOn(rd, r.pos, due2, seen2, dup2)
      BY <1>8, <1>16
    <2>2. PICK q \in Nat : q = r.pos
      BY <1>12
    <2>3. rd' = MkScan(d, q, due2, seen2, missed, dup2)
      BY <1>3, <2>1, <2>2, ReadOnIs
    <2>4. held'[d] > 0 /\ ~Creating(d)'
      BY <1>5, <1>15
    <2>5. DueAt(node'[d].pages, q, due2) /\ SeenAt(node'[d].pages, q, seen2)
      BY <1>12, <1>15, <2>2 DEF pages
    <2>6. missed = {}
      BY <1>3
    <2>7. ScanOk'
      BY <1>5, <1>14, <2>3, <2>4, <2>5, <2>6, ScanFields
    <2>8. QED
      BY <1>15, <2>7
  <1>17. CASE ~r.more
    <2>1. rd' = [NoScan EXCEPT !.missed = due2, !.dup = dup2] /\ due2 = {}
      BY <1>8, <1>12, <1>17
    <2>2. rd' = NoScan
      BY <1>14, <2>1 DEF NoScan
    <2>3. QED
      BY <1>15, <2>2, NoScanOk
  <1>18. QED
    BY <1>16, <1>17
-----------------------------------------------------------------------------
(* Every step keeps the invariant, and is a step of the name space.        *)
LEMMA NextKeeps ==
  ASSUME IInv, [Next]_vars
  PROVE  IInv' /\ NameStep(LinksOf(node), LinksOf(node'))
  <1>1. \A l \in Links : l[1] \in Inos /\ l[2] \in Names
    BY LinksAre, LinksIs DEF IInv, TreeInv
  <1>2. SUFFICES IInv'
          /\ (LinksOf(node') = LinksOf(node) \/ NameStep(LinksOf(node), LinksOf(node')))
    BY DEF NameStep
  <1>3. ASSUME NEW t \in Threads, AddDentry(t)
        PROVE  IInv' /\ NameStep(LinksOf(node), LinksOf(node'))
    BY <1>3, AddDentryKeeps
  <1>4. ASSUME NEW t \in Threads, AddDentryFail(t)
        PROVE  IInv' /\ LinksOf(node') = LinksOf(node)
    BY <1>4, AddDentryFailKeeps
  <1>5. ASSUME NEW t \in Threads, FindInodeRef(t)
        PROVE  IInv' /\ LinksOf(node') = LinksOf(node)
    BY <1>5, FindInodeRefKeeps
  <1>6. ASSUME NEW t \in Threads, IgetNew(t)
        PROVE  IInv' /\ LinksOf(node') = LinksOf(node)
    BY <1>6, IgetNewKeeps
  <1>7. ASSUME NEW t \in Threads, IgetHit(t)
        PROVE  IInv' /\ LinksOf(node') = LinksOf(node)
    BY <1>7, IgetHitKeeps
  <1>8. ASSUME NEW t \in Threads, NEW l \in Links, Lookup(t, l[1], l[2])
        PROVE  IInv' /\ LinksOf(node') = LinksOf(node)
    BY <1>1, <1>8, LookupKeeps
  <1>9. ASSUME NEW t \in Threads, NEW d \in Inos, NEW n \in Names, NEW kind \in Kinds,
               NewInode(t, d, n, kind)
        PROVE  IInv' /\ LinksOf(node') = LinksOf(node)
    BY <1>9, NewInodeKeeps
  <1>10. ASSUME NEW t \in Threads, NEW d \in Inos, NEW n \in Names, NEW kind \in Kinds,
                NewInodeFail(t, d, n, kind)
         PROVE  IInv' /\ LinksOf(node') = LinksOf(node)
    BY <1>10, NewInodeFailKeeps
  <1>11. ASSUME NEW l \in Links, RemoveDentry(l[1], l[2])
         PROVE  IInv' /\ NameStep(LinksOf(node), LinksOf(node'))
    BY <1>1, <1>11, RemoveDentryKeeps
  <1>12. ASSUME NEW l \in Links, NEW d \in Inos, NEW n \in Names, Rename(l[1], l[2], d, n)
         PROVE  IInv' /\ NameStep(LinksOf(node), LinksOf(node'))
    BY <1>1, <1>12, RenameKeeps
  <1>13. ASSUME NEW l \in Links, NEW d \in Inos, NEW n \in Names, RenameOver(l[1], l[2], d, n)
         PROVE  IInv' /\ NameStep(LinksOf(node), LinksOf(node'))
    BY <1>1, <1>13, RenameOverKeeps
  <1>14. ASSUME NEW d \in Inos, NEW n \in Names, NEW i \in Inos, Link(d, n, i)
         PROVE  IInv' /\ NameStep(LinksOf(node), LinksOf(node'))
    BY <1>14, LinkKeeps
  <1>15. ASSUME NEW i \in Inos, SetXattr(i) PROVE IInv' /\ LinksOf(node') = LinksOf(node)
    BY <1>15, SetXattrKeeps
  <1>16. ASSUME NEW i \in Inos, Evict(i) PROVE IInv' /\ LinksOf(node') = LinksOf(node)
    BY <1>16, EvictKeeps
  <1>17. ASSUME NEW i \in Inos, StartScan(i) PROVE IInv' /\ LinksOf(node') = LinksOf(node)
    BY <1>17, StartScanKeeps
  <1>18. ASSUME ReadDir PROVE IInv' /\ LinksOf(node') = LinksOf(node)
    BY <1>18, ReadDirKeeps
  <1>19. ASSUME EndScan PROVE IInv' /\ LinksOf(node') = LinksOf(node)
    BY <1>19, EndScanKeeps
  <1>20. ASSUME UNCHANGED vars PROVE IInv' /\ LinksOf(node') = LinksOf(node)
    BY <1>20, StutterKeeps
  <1>21. ASSUME NEW t \in Threads, UndoLoad(t)
         PROVE  IInv' /\ LinksOf(node') = LinksOf(node)
    BY <1>21, UndoLoadKeeps
  <1>22. ASSUME NEW t \in Threads, UndoStore(t)
         PROVE  IInv' /\ LinksOf(node') = LinksOf(node)
    BY <1>22, UndoStoreKeeps
  <1>23. QED
    BY <1>3, <1>4, <1>5, <1>6, <1>7, <1>8, <1>9, <1>10, <1>11, <1>12, <1>13, <1>14, <1>15,
       <1>16, <1>17, <1>18, <1>19, <1>20, <1>21, <1>22 DEF Next

(* The parts of the invariant hold in every state that toyfs reaches.      *)
THEOREM NsInvariant == Spec => []IInv
  <1>1. Init => IInv
    BY InitIInv
  <1>2. IInv /\ [Next]_vars => IInv'
    BY NextKeeps
  <1>3. QED
    BY <1>1, <1>2, PTL DEF Spec
-----------------------------------------------------------------------------
(* Nothing that is named, held or being looked up is freed under its user: *)
(* toyfs_iget never uses an inode_ref that toyfs_evict freed.              *)
THEOREM HandlesAreSafe == Spec => []HandlesSafe
  <1>1. IInv => HandlesSafe
    <2> SUFFICES ASSUME IInv PROVE HandlesSafe
      OBVIOUS
    <2>1. TypesOk /\ HandlesOk /\ NodesOk(node)
      BY DEF IInv, TreeInv
    <2>2. mem \in MemRecs
      BY DEF IInv, PoolOk, Balanced
    <2>3. \A i \in Inos : /\ node[i].nlink \in Nat /\ node[i].size \in Nat
                          /\ node[i].kind \in Kinds \cup {"none", "dir"}
                          /\ node[i].live = FALSE => node[i] = NoNode
      <3> SUFFICES ASSUME NEW i \in Inos
                   PROVE  /\ node[i].nlink \in Nat /\ node[i].size \in Nat
                          /\ node[i].kind \in Kinds \cup {"none", "dir"}
                          /\ node[i].live = FALSE => node[i] = NoNode
        OBVIOUS
      <3>1. node[i] \in NodeRecs /\ NodeOk(node[i])
        BY <2>1 DEF NodesOk
      <3>2. node[i].live = FALSE => node[i] = NoNode
        BY <3>1, Zenon DEF NodeOk
      <3>3. QED
        BY <3>1, <3>2, NodeFields
    <2>4. \A t \in Threads : op[t].k \in {"none", "create", "undo", "store", "found", "iget"}
      BY <2>1, OpFacts DEF TypesOk
    <2>5. uaf \in BOOLEAN /\ ~uaf /\ HandlesValid
      BY <2>1, Zenon DEF HandlesOk
    <2>6. TypeOK
      BY <2>1, <2>2, <2>3, <2>4, <2>5 DEF TypeOK, TypesOk, MemRecs
    <2>7. LinkedSurvive
      <3>1. \A l \in LinksOf(node) : node[l[3]].live
        BY DEF IInv, TreeInv, LinksOk
      <3>2. QED
        BY <2>1, <3>1, LinksAre DEF LinkedSurvive, HandlesOk
    <2>8. QED
      BY <2>5, <2>6, <2>7 DEF HandlesSafe, IgetSafe
  <1>2. QED
    BY <1>1, NsInvariant, PTL

(* Every link count says how many dirents lead to the inode, in whatever   *)
(* order names are added, removed and moved.                               *)
THEOREM NlinkIsExact == Spec => []NlinkExact
  <1>1. IInv => NlinkExact
    <2> SUFFICES ASSUME IInv, NEW i \in Live
                 PROVE  node[i].nlink = Cardinality(LinksTo(i))
                          + IF ~IsDir(node[i]) \/ (node[i].nlink = 0 /\ node[i].size = 0) THEN 0
                            ELSE Cardinality(SubDirs(i)) + IF i = Root THEN 2 ELSE 1
      BY DEF NlinkExact
    <2>1. LinksTo(i) = LinksIn(LinksOf(node), i)
      BY LinksAre DEF LinksTo, LinksIn
    <2>2. SubDirs(i) = SubsIn(LinksOf(node), DirsOf(node), i)
      <3>1. \A l \in LinksOf(node) : l[3] \in Inos
        BY LinksIs DEF IInv, TreeInv
      <3>2. QED
        BY <3>1, LinksAre DEF SubDirs, SubsIn, DirsOf
    <2>3. NlinkOk(node[i], i, LinksOf(node), DirsOf(node))
      BY DEF IInv, TreeInv, Live
    <2>4. QED
      BY <2>1, <2>2, <2>3 DEF NlinkOk
  <1>2. QED
    BY <1>1, NsInvariant, PTL

(* An inode without name and handle was freed, but for directories.        *)
THEOREM NoOrphansLeft == Spec => []NoOrphans
  <1>1. IInv => NoOrphans
    BY LinksAre DEF IInv, OrphansOk, NoOrphans, Live, LinksTo
  <1>2. QED
    BY <1>1, NsInvariant, PTL

(* Inodes are kept while they are named, held or looked up and, if they are *)
(* no directories, freed afterwards (toyfs_iget, toyfs_evict).             *)
THEOREM InodesAreKept == Spec => []InodesKept
  BY HandlesAreSafe, NoOrphansLeft, PTL DEF InodesKept

(* A lookup finds each dirent of a directory (toyfs_lookup after any       *)
(* sequence of toyfs_add_dirent and toyfs_remove_dirent).                  *)
THEOREM DirsAreConsistent == Spec => []DirConsistent
  <1>1. IInv => DirConsistent
    <2> SUFFICES ASSUME IInv, NEW d \in Live
                 PROVE  /\ node[d].size = Cardinality(Places(node[d].pages))
                        /\ \A at \in Places(node[d].pages) :
                             LookupDirent(node[d].pages, At(node[d].pages, at).n) = at
      BY DEF DirConsistent
    <2>1. DirOk(node[d].pages) /\ node[d].size = Cardinality(Places(node[d].pages))
      BY DEF IInv, TreeInv, NodesOk, NodeOk, Live
    <2>2. QED
      BY <2>1, LookupFinds
  <1>2. QED
    BY <1>1, NsInvariant, PTL

(* Every page of the pool is free or in one use and f_bfree counts those   *)
(* that are not owned, but for one page lost with each symlink of exactly  *)
(* the size of i_symlink that was freed (toyfs_release_symlink).           *)
THEOREM PoolIsConserved == Spec => []PoolConserved
  <1>1. IInv => PoolConserved
    <2> SUFFICES ASSUME IInv PROVE PoolConserved
      OBVIOUS
    <2>1. Live = LiveOf(node) /\ {i \in Inos : tii[i] # "none"} = InfosOf(tii)
      BY DEF Live, LiveOf, InfosOf
    <2>2. Owned = PagesOf(Weight(node))
      BY DEF Owned, PagesOf, Weight
    <2> DEFINE v == Cardinality(LiveOf(node))
               w == Cardinality(PagesOf(Weight(node)))
               u == Cardinality(InfosOf(tii))
    <2>3. Balanced(mem, v, w, u, lost)
      BY DEF IInv, PoolOk
    <2> HIDE DEF v, w, u
    <2>4. /\ (v + mem.ifree) % InoPerPage = 0
          /\ mem.pages + (v + mem.ifree) \div InoPerPage + w + lost = NPages
          /\ mem.bfree = NPages - w - lost
      BY <2>3, BalRight
    <2>5. QED
      BY <2>1, <2>2, <2>4 DEF PoolConserved, v, w, u
  <1>2. QED
    BY <1>1, NsInvariant, PTL

(* Threads that are in no failed creation before or after the step.        *)
Elsewhere == \A t \in Threads : op'[t].k \in {"undo", "store"} <=> op[t].k \in {"undo", "store"}

SkewStep ==
  \/ Elsewhere /\ mem'.ffree = mem.ffree /\ InfosOf(tii') = InfosOf(tii)
  \/ Elsewhere /\ mem'.ffree = mem.ffree - 1
       /\ \E i \in Inos : tii[i] = "none" /\ InfosOf(tii') = InfosOf(tii) \cup {i}
  \/ Elsewhere /\ mem'.ffree = mem.ffree + 1
       /\ \E i \in Inos : tii[i] # "none" /\ InfosOf(tii') = InfosOf(tii) \ {i}
  \/ /\ InfosOf(tii') = InfosOf(tii) /\ mem'.ffree = mem.ffree - 1
     /\ \E t \in Threads : t \notin Undoing /\ Undoing' = Undoing \cup {t}
  \/ /\ InfosOf(tii') = InfosOf(tii) /\ mem'.ffree = mem.ffree + 1
     /\ \E t \in Threads : t \in Undoing /\ Undoing' = Undoing \ {t}

(* Each of these steps keeps f_ffree as far from the truth as it was.      *)
LEMMA SkewStays ==
  ASSUME IInv, IInv', SkewStep
  PROVE  Skew' = Skew
  <1> DEFINE S == InfosOf(tii)
             T == InfosOf(tii')
             U == Undoing
             V == Undoing'
             f == mem.ffree
             g == mem'.ffree
  <1>1. /\ Skew = f + Cardinality(S) + Cardinality(U) - NPages
        /\ Skew' = g + Cardinality(T) + Cardinality(V) - NPages
    BY DEF Skew, InfosOf
  <1>2. IsFiniteSet(S) /\ IsFiniteSet(T) /\ f \in Nat /\ g \in Nat
    <2>1. mem \in MemRecs /\ mem' \in MemRecs
      BY DEF IInv, PoolOk, Balanced
    <2>2. QED
      BY <2>1, MemIs DEF IInv, PoolOk
  <1>3. IsFiniteSet(U) /\ IsFiniteSet(V)
    BY FS_Subset, NsAssumption DEF Undoing
  <1>4. Elsewhere => V = U
    BY DEF Elsewhere, Undoing
  <1>5. \A i \in Inos : i \in S <=> tii[i] # "none"
    BY DEF InfosOf
  <1> HIDE DEF S, T, U, V, f, g
  <1>6. /\ Cardinality(S) \in Nat /\ Cardinality(T) \in Nat
        /\ Cardinality(U) \in Nat /\ Cardinality(V) \in Nat /\ NPages \in Nat
    BY <1>2, <1>3, FS_CardinalityType, NsAssumption
  <1>7. ASSUME NEW W, IsFiniteSet(W), NEW e
        PROVE  /\ e \notin W => Cardinality(W \cup {e}) = Cardinality(W) + 1
               /\ e \in W => Cardinality(W \ {e}) = Cardinality(W) - 1
    BY <1>7, FS_AddElement, FS_RemoveElement
  <1>8. CASE Elsewhere /\ g = f /\ T = S
    BY <1>1, <1>4, <1>8
  <1>9. CASE Elsewhere /\ g = f - 1 /\ \E i \in Inos : tii[i] = "none" /\ T = S \cup {i}
    <2>1. Cardinality(T) = Cardinality(S) + 1 /\ V = U
      BY <1>2, <1>4, <1>5, <1>7, <1>9
    <2>2. QED
      BY <1>1, <1>2, <1>6, <1>9, <2>1
  <1>10. CASE Elsewhere /\ g = f + 1 /\ \E i \in Inos : tii[i] # "none" /\ T = S \ {i}
    <2>1. Cardinality(T) = Cardinality(S) - 1 /\ V = U
      BY <1>2, <1>4, <1>5, <1>7, <1>10
    <2>2. QED
      BY <1>1, <1>2, <1>6, <1>10, <2>1
  <1>11. CASE T = S /\ g = f - 1 /\ \E t \in Threads : t \notin U /\ V = U \cup {t}
    <2>1. Cardinality(V) = Cardinality(U) + 1
      BY <1>3, <1>7, <1>11
    <2>2. QED
      BY <1>1, <1>2, <1>6, <1>11, <2>1
  <1>12. CASE T = S /\ g = f + 1 /\ \E t \in Threads : t \in U /\ V = U \ {t}
    <2>1. Cardinality(V) = Cardinality(U) - 1
      BY <1>3, <1>7, <1>12
    <2>2. QED
      BY <1>1, <1>2, <1>6, <1>12, <2>1
  <1>13. QED
    BY <1>8, <1>9, <1>10, <1>11, <1>12 DEF SkewStep, S, T, U, V, f, g

(* A step that leaves the inode_infos and f_ffree alone.                   *)
LEMMA SkewQuiet ==
  ASSUME Elsewhere, tii' = tii, mem'.ffree = mem.ffree
  PROVE  SkewStep
  BY DEF SkewStep

(* A step in which thread t ends a call, or goes on to the next state o.   *)
LEMMA SkewCall ==
  ASSUME IInv, NEW t \in Threads, NEW o, op' = [op EXCEPT ![t] = o],
         o.k \in {"undo", "store"} <=> op[t].k \in {"undo", "store"}
  PROVE  Elsewhere
  BY OpsType DEF Elsewhere

(* The last reference goes.                                                *)
LEMMA SkewEvict ==
  ASSUME IInv, NEW i \in Inos, EvictLast(i), tii[i] # "none"
  PROVE  mem'.ffree = mem.ffree + 1 /\ InfosOf(tii') = InfosOf(tii) \ {i}
  <1>1. IsMem(mem)
    BY MemIs DEF IInv, PoolOk, Balanced, IsMem
  <1>2. PICK m : IsMem(m) /\ m.ffree = mem.ffree /\ mem' = FreeIi(m)
    BY <1>1, FfreeIs DEF EvictLast
  <1>3. tii' = [tii EXCEPT ![i] = "none"] /\ tii \in [Inos -> {"none", "full", "half"}]
    BY DEF EvictLast, IInv, TypesOk
  <1>4. InfosOf(tii') = InfosOf(tii) \ {i}
    BY <1>3 DEF InfosOf
  <1>5. QED
    BY <1>2, <1>4, FfreeIs

(* Every step keeps f_ffree as exact as it was, but for one.               *)
LEMMA NextSkew ==
  ASSUME IInv, [Next]_vars,
         ~ \E t \in Threads : op[t].k = "store" /\ op[t].r # mem.ffree
  PROVE  SkewStep
  <1>1. /\ IsMem(mem) /\ op \in [Threads -> OpRecs] /\ Idle.k = "none"
        /\ tii \in [Inos -> {"none", "full", "half"}]
    BY MemIs DEF IInv, PoolOk, Balanced, IsMem, TypesOk, Idle
  <1>2. UNCHANGED op => Elsewhere
    BY DEF Elsewhere
  <1>3. \A l \in Links : l[1] \in Inos /\ l[2] \in Names
    BY LinksAre, LinksIs DEF IInv, TreeInv
  <1>4. ASSUME NEW d, NEW n, NEW i, mem' = AddDirent(node, mem, d, n, i).m
        PROVE  mem'.ffree = mem.ffree
    BY <1>1, <1>4, FfreeIs DEF AddDirent
  <1>5. ASSUME NEW t \in Threads, AddDentry(t) PROVE SkewStep
    <2>1. Elsewhere
      BY <1>1, <1>5, SkewCall DEF AddDentry, Finish
    <2>2. tii' = tii /\ mem' = AddDirent(node, mem, op[t].d, op[t].n, op[t].i).m
      BY <1>5 DEF AddDentry, tiiVars
    <2>3. QED
      BY <1>4, <2>1, <2>2, SkewQuiet
  <1>6. ASSUME NEW t \in Threads, AddDentryFail(t) PROVE SkewStep
    <2>1. Elsewhere
      BY <1>1, <1>6, SkewCall DEF AddDentryFail, Finish
    <2>2. EvictLast(op[t].i) /\ op[t].i \in Inos /\ tii[op[t].i] # "none"
      <3>1. op[t].k = "create" /\ EvictLast(op[t].i)
        BY <1>6 DEF AddDentryFail
      <3>2. CreateOk(op[t]) /\ op[t].i \in Inos
        BY <1>1, <3>1, OpFacts DEF IInv, OpsOk
      <3>3. QED
        BY <3>1, <3>2 DEF CreateOk
    <2>3. QED
      BY <2>1, <2>2, SkewEvict DEF SkewStep
  <1>7. ASSUME NEW t \in Threads, FindInodeRef(t) PROVE SkewStep
    <2>1. PICK o : op' = [op EXCEPT ![t] = o] /\ o \in {[op[t] EXCEPT !.k = "iget"], Idle}
      BY <1>1, <1>7 DEF FindInodeRef
    <2>2. op[t].k = "found" /\ op[t] \in [k : {"found", "iget"}, d : Inos, i : Inos]
      BY <1>1, <1>7 DEF FindInodeRef, OpRecs, Idle
    <2>3. o.k \in {"iget", "none"}
      BY <1>1, <2>1, <2>2
    <2>4. Elsewhere
      BY <2>1, <2>2, <2>3, SkewCall
    <2>5. QED
      BY <1>7, <2>4, SkewQuiet DEF FindInodeRef, tiiVars
  <1>8. ASSUME NEW t \in Threads, IgetNew(t) PROVE SkewStep
    <2>1. op[t].k = "iget" /\ tii[op[t].i] = "none" /\ op[t].i \in Inos
      BY <1>1, <1>8, OpFacts DEF IgetNew
    <2>2. Elsewhere
      BY <1>1, <1>8, <2>1, SkewCall DEF IgetNew, Finish
    <2>3. CASE mem.ffree > 0
      <3>1. mem' = AllocIi(mem) /\ tii' = [tii EXCEPT ![op[t].i] = "half"]
        BY <1>8, <2>3 DEF IgetNew
      <3>2. mem'.ffree = mem.ffree - 1
        BY <1>1, <3>1, FfreeIs
      <3>3. InfosOf(tii') = InfosOf(tii) \cup {op[t].i}
        BY <1>1, <2>1, <3>1 DEF InfosOf
      <3>4. QED
        BY <2>1, <2>2, <3>2, <3>3 DEF SkewStep
    <2>4. CASE ~(mem.ffree > 0)
      BY <1>8, <2>2, <2>4, SkewQuiet DEF IgetNew
    <2>5. QED
      BY <2>3, <2>4
  <1>9. ASSUME NEW t \in Threads, IgetHit(t) PROVE SkewStep
    <2>1. Elsewhere
      BY <1>1, <1>9, SkewCall DEF IgetHit, Finish
    <2>2. QED
      BY <1>9, <2>1, SkewQuiet DEF IgetHit
  <1>10. ASSUME NEW t \in Threads, NEW d, NEW n, Lookup(t, d, n) PROVE SkewStep
    <2> DEFINE o == [k |-> "found", d |-> d, i |-> InoOf(node, d, n)]
    <2>1. op' = [op EXCEPT ![t] = o] /\ op[t].k = "none"
      BY <1>1, <1>10 DEF Lookup
    <2>2. o.k = "found"
      OBVIOUS
    <2> HIDE DEF o
    <2>3. Elsewhere
      BY <2>1, <2>2, SkewCall
    <2>4. QED
      BY <1>10, <2>3, SkewQuiet DEF Lookup, tiiVars
  <1>11. ASSUME NEW t \in Threads, NEW d, NEW n, NEW kind, NewInode(t, d, n, kind)
         PROVE  SkewStep
    <2> DEFINE o == [k |-> "create", d |-> d, i |-> top, n |-> n]
    <2>1. /\ op' = [op EXCEPT ![t] = o] /\ op[t].k = "none" /\ top \in Inos
          /\ tii' = [tii EXCEPT ![top] = "full"]
      BY <1>1, <1>11 DEF NewInode
    <2>2. o.k = "create"
      OBVIOUS
    <2> HIDE DEF o
    <2>3. Elsewhere
      BY <2>1, <2>2, SkewCall
    <2>4. tii[top] = "none"
      BY <2>1, DirAssumption DEF IInv, FreshOk, TypesOk
    <2>5. InfosOf(tii') = InfosOf(tii) \cup {top}
      BY <1>1, <2>1 DEF InfosOf
    <2> DEFINE q == AcquireInode(AllocIi(mem))
    <2>6. mem' = AcquirePmemb(q) \/ mem' = q
      BY <1>11 DEF NewInode
    <2>7. IsMem(AllocIi(mem)) /\ AllocIi(mem).ffree = mem.ffree - 1
      BY <1>1, FfreeIs
    <2>8. IsMem(q) /\ q.ffree = mem.ffree - 1
      BY <2>7, FfreeIs
    <2> HIDE DEF q
    <2>9. mem'.ffree = mem.ffree - 1
      BY <2>6, <2>8, FfreeIs
    <2>10. QED
      BY <2>1, <2>3, <2>4, <2>5, <2>9 DEF SkewStep
  <1>12. ASSUME NEW t \in Threads, NEW d \in Inos, NEW n \in Names, NEW kind \in Kinds,
                NewInodeFail(t, d, n, kind)
         PROVE  SkewStep
    <2>1. mem'.ffree = mem.ffree - 1
      BY <1>12, NewInodeFailKeeps
    <2>2. /\ op' = [op EXCEPT ![t] = [k |-> "undo", d |-> d, i |-> 0]] /\ op[t].k = "none"
          /\ tii' = tii
      BY <1>1, <1>12 DEF NewInodeFail, tiiVars
    <2>3. t \notin Undoing /\ Undoing' = Undoing \cup {t}
      BY <1>1, <2>2 DEF Undoing
    <2>4. QED
      BY <2>1, <2>2, <2>3 DEF SkewStep
  <1>13. ASSUME NEW t \in Threads, UndoLoad(t) PROVE SkewStep
    <2> DEFINE o == [k |-> "store", d |-> op[t].d, i |-> 0, r |-> mem.ffree]
    <2>1. op' = [op EXCEPT ![t] = o] /\ op[t].k = "undo"
      BY <1>1, <1>13 DEF UndoLoad
    <2>2. o.k = "store"
      OBVIOUS
    <2> HIDE DEF o
    <2>3. Elsewhere
      BY <2>1, <2>2, SkewCall
    <2>4. QED
      BY <1>13, <2>3, SkewQuiet DEF UndoLoad, tiiVars
  <1>14. ASSUME NEW t \in Threads, UndoStore(t) PROVE SkewStep
    <2>1. mem'.ffree = op[t].r + 1
      BY <1>14, UndoStoreKeeps
    <2>2. op' = [op EXCEPT ![t] = Idle] /\ op[t].k = "store" /\ tii' = tii
      BY <1>14 DEF UndoStore, tiiVars
    <2>3. op[t].r = mem.ffree
      BY <2>2
    <2>4. t \in Undoing /\ Undoing' = Undoing \ {t}
      BY <1>1, <2>2 DEF Undoing
    <2>5. QED
      BY <2>1, <2>2, <2>3, <2>4 DEF SkewStep
  <1>15. ASSUME NEW d, NEW n, RemoveDentry(d, n) PROVE SkewStep
    BY <1>2, <1>15, SkewQuiet DEF RemoveDentry, tiiVars
  <1>16. ASSUME NEW d, NEW n, NEW d2, NEW n2, Rename(d, n, d2, n2) PROVE SkewStep
    <2>1. mem' = AddDirent(node, mem, d2, n2, InoOf(node, d, n)).m
      BY <1>16 DEF Rename, MoveDirent
    <2>2. mem'.ffree = mem.ffree
      BY <1>4, <2>1
    <2>3. QED
      BY <1>2, <1>16, <2>2, SkewQuiet DEF Rename, tiiVars
  <1>17. ASSUME NEW d, NEW n, NEW d2, NEW n2, RenameOver(d, n, d2, n2) PROVE SkewStep
    BY <1>2, <1>17, SkewQuiet DEF RenameOver, tiiVars
  <1>18. ASSUME NEW d, NEW n, NEW i, Link(d, n, i) PROVE SkewStep
    <2>1. mem' = AddDirent(node, mem, d, n, i).m
      BY <1>18 DEF Link
    <2>2. mem'.ffree = mem.ffree
      BY <1>4, <2>1
    <2>3. QED
      BY <1>2, <1>18, <2>2, SkewQuiet DEF Link, tiiVars
  <1>19. ASSUME NEW i, SetXattr(i) PROVE SkewStep
    <2>1. mem'.ffree = mem.ffree
      BY <1>1, <1>19, FfreeIs DEF SetXattr
    <2>2. QED
      BY <1>2, <1>19, <2>1, SkewQuiet DEF SetXattr, tiiVars
  <1>20. ASSUME NEW i \in Inos, Evict(i) PROVE SkewStep
    <2>1. Elsewhere
      BY <1>2, <1>20 DEF Evict
    <2>2. CASE EvictRef(i)
      BY <2>1, <2>2, SkewQuiet DEF EvictRef
    <2>3. CASE EvictLast(i)
      <3>1. tii[i] # "none"
        BY <1>20 DEF Evict, Usable
      <3>2. QED
        BY <2>1, <2>3, <3>1, SkewEvict DEF SkewStep
    <2>4. QED
      BY <1>20, <2>2, <2>3 DEF Evict
  <1>21. ASSUME NEW i, StartScan(i) PROVE SkewStep
    BY <1>2, <1>21, SkewQuiet DEF StartScan, tiiVars
  <1>22. ASSUME ReadDir PROVE SkewStep
    BY <1>2, <1>22, SkewQuiet DEF ReadDir, tiiVars
  <1>23. ASSUME EndScan PROVE SkewStep
    BY <1>2, <1>23, SkewQuiet DEF EndScan, tiiVars
  <1>24. ASSUME UNCHANGED vars PROVE SkewStep
    BY <1>2, <1>24, SkewQuiet DEF vars
  <1>25. QED
    BY <1>5, <1>6, <1>7, <1>8, <1>9, <1>10, <1>11, <1>12, <1>13, <1>14, <1>15, <1>16, <1>17,
       <1>18, <1>19, <1>20, <1>21, <1>22, <1>23, <1>24 DEF Next

(* f_ffree stays exact through creations, igets, evictions and failures,   *)
(* until the one change that toyfs_tii_free makes without s_mutex          *)
(* overwrites another thread's.                                            *)
THEOREM FfreeOnlyByRace == Spec => FfreeByRace
  <1>1. IInv /\ IInv' /\ [Next]_vars
          => [Skew' # Skew => \E t \in Threads : op[t].k = "store" /\ op[t].r # mem.ffree]_vars
    BY NextSkew, SkewStays
  <1>2. QED
    BY <1>1, NsInvariant, PTL DEF Spec, FfreeByRace

(* A directory read in pieces while it changes gives each entry that stays *)
(* there exactly once (_iterate_dir).                                      *)
THEOREM ReaddirIsRight == Spec => []ReaddirRight
  <1>1. IInv => ReaddirRight
    <2> SUFFICES ASSUME IInv PROVE ReaddirRight
      OBVIOUS
    <2>1. ScanOk
      BY DEF IInv
    <2>2. PICK d, pos, due, seen, missed, dup :
            rd = MkScan(d, pos, due, seen, missed, dup) /\ missed = {} /\ dup = FALSE
      BY <2>1 DEF ScanOk
    <2>3. rd.missed = missed /\ rd.dup = dup
      <3>1. rd = MkScan(d, pos, due, seen, missed, dup)
        BY <2>2
      <3>2. QED
        BY <3>1 DEF MkScan
    <2>4. QED
      BY <2>2, <2>3, Zenon DEF ReaddirRight, ReaddirComplete, ReaddirOnce
  <1>2. QED
    BY <1>1, NsInvariant, PTL

(* toyfs implements the name space: a call adds, removes or moves exactly  *)
(* one link, and never takes a name that is used.                          *)
THEOREM NsRefines == Spec => NameSpaceSpec
  <1>1. Init => Abs!Init
    <2> SUFFICES ASSUME Init PROVE Links = {}
      BY DEF Abs!Init
    <2>1. \A i \in Inos : node[i].pages = <<>>
      BY NoNodeIs, NewNodeIs DEF Init
    <2>2. Places(<<>>) = {}
      BY NoPagesIs
    <2>3. QED
      BY <2>1, <2>2 DEF Links, Dirents, Live
  <1>2. IInv /\ [Next]_vars => [Abs!Next]_Links
    <2> SUFFICES ASSUME IInv, [Next]_vars PROVE Abs!Next \/ Links' = Links
      OBVIOUS
    <2>1. NameStep(Links, Links')
      BY NextKeeps, LinksAre, LinksArePrime
    <2>2. QED
      BY <2>1 DEF NameStep, Free2, Abs!Next, Abs!Link, Abs!Unlink, Abs!Move, Abs!Taken
  <1>3. QED
    BY <1>1, <1>2, NsInvariant, PTL DEF Spec, NameSpaceSpec, Abs!Spec
=============================================================================
