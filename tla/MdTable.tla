------------------------------ MODULE MdTable -------------------------------
(***************************************************************************)
(* The multi-device table (md_zus.c): the map from blocks to devices that  *)
(* a mount sets up, and the copies of the device table on the T2 devices,  *)
(* which are written one after the other and checked by the next mount.    *)
(*                                                                         *)
(* Abstractions.  Sizes and offsets count blocks, every size a legal one   *)
(* (not 0, aligned).  A table is its uuid, the uuids and the sizes of its  *)
(* devices (each list as one value), its index and its sum; the crc is the *)
(* list of what it covers, so that it never matches by accident.  Magic    *)
(* and version are as they should be.  Callers of md_t2_mdt_write take     *)
(* turns, as the mount thread makes them: they share one buffer.           *)
(* External: md_t1_blocks and md_t2_blocks, that add up the sizes; the     *)
(* lookup in the map; the kernel, which finds the device of a block; the   *)
(* file system, that changes, writes, reads and checks tables.             *)
(***************************************************************************)
EXTENDS IomEnc, SequencesExt

CONSTANTS
  SizeLists,    \* lists of device sizes
  MaxRmem       \* bound: remote memory devices in the list

ASSUME MdAssumption ==
  /\ \A l \in SizeLists : \A j \in DOMAIN l : l[j] \in Nat \ {0}
  /\ MaxRmem \in Nat
  /\ "zusmem" \in DOMAIN Words /\ Words["zusmem"] <= IomMax

VARIABLES
  msize,    \* the sizes of the T1 and of the T2 devices
  mmap,     \* t1a and t2a: the maps and their bn_gcd
  mtab,     \* the table in memory
  mdisk,    \* mdisk[j]: the table on T2 device j
  mnext,    \* the T2 device md_t2_mdt_write has come to, 0 outside of a call
  mret      \* what it returned: "none", "ok" or "err"

mdVars == <<msize, mmap, mtab, mdisk, mnext, mret>>

Tiers == {"t1", "t2"}
NoMap == [gcd |-> 0, map |-> <<>>]

Total(l) == FoldLeft(LAMBDA a, b : a + b, 0, l)

(* mdi->offset: the sizes of the devices before it.                        *)
Offset(l, j) == Total(SubSeq(l, 1, j - 1))

(* _gcd                                                                    *)
Gcd(x, y) ==
  LET hi == IF x < y THEN y ELSE x
      lo == IF x < y THEN x ELSE y
      euclid[a \in 0 .. hi, b \in 1 .. hi] ==
        IF a % b = 0 THEN b ELSE euclid[b, a % b]
  IN IF lo = 0 THEN hi ELSE euclid[hi, lo]

BnGcd(l) == FoldLeft(Gcd, 0, l)

MapSetupMut(l) ==
  LET gcd == BnGcd(l)
      size == Total(l) \div gcd
      step(m, j) == IF j * gcd > m.end
                    THEN [dev |-> m.dev + 1, end |-> m.end + l[m.dev + 1]] ELSE m
      at[j \in 0 .. size - 1] ==
        step(IF j = 0 THEN [dev |-> 1, end |-> l[1]] ELSE at[j - 1], j)
  IN [gcd |-> gcd, map |-> [j \in 1 .. size |-> at[j - 1].dev]]

(* _map_setup: one entry for every bn_gcd blocks, a walk along the devices *)
MapSetup(l) ==
  LET gcd == BnGcd(l)
      size == Total(l) \div gcd
      step(m, j) == IF j * gcd >= m.end
                    THEN [dev |-> m.dev + 1, end |-> m.end + l[m.dev + 1]] ELSE m
      at[j \in 0 .. size - 1] ==
        step(IF j = 0 THEN [dev |-> 1, end |-> l[1]] ELSE at[j - 1], j)
  IN [gcd |-> gcd, map |-> [j \in 1 .. size |-> at[j - 1].dev]]

(* External: the device of block bn.                                       *)
DevOf(m, bn) == m.map[bn \div m.gcd + 1]
-----------------------------------------------------------------------------
(* Tables.                                                                 *)

Contents(t) == <<t.uuid, t.ids, t.sizes, t.id>>

(* md_calc_csum                                                            *)
Csum(t) == Contents(t)

Torn == [uuid |-> 0, ids |-> 0, sizes |-> 0, id |-> 0, sum |-> <<>>]

SameDevsMut(t, main) == t.uuid = main.uuid /\ t.ids = main.ids

(* _mdt_compare_uuids                                                      *)
SameDevs(t, main) == t.uuid = main.uuid /\ t.ids = main.ids /\ t.sizes = main.sizes

(* __dev_id_blocks of entry j (from 0) of a list of t1, t2 and rmem        *)
(* devices: the entries behind it are zero.                                *)
ListBlocks(n, rmem, j) == IF j < n + rmem THEN 1 ELSE 0

IndexOkMut(n, rmem, id) == id \in 0 .. n

(* The checks of id_index and of the size of the device it names.          *)
IndexOk(n, rmem, id) == id \in 0 .. n /\ ListBlocks(n, rmem, id) # 0

(* md_mdt_check of a copy against the main table.                          *)
MdtCheck(t, main, n) ==
  /\ t.sum = Csum(t)
  /\ SameDevs(t, main)
  /\ IndexOk(n, 0, t.id)

(* md_t2_mdt_read: the block is 0 whatever device is asked for.            *)
MdtRead(d, j) == d[1]
-----------------------------------------------------------------------------
NT1 == Len(msize.t1)
NT2 == Len(msize.t2)

MdTypeOK ==
  /\ msize \in [Tiers -> SizeLists]
  /\ \A k \in Tiers : \A j \in DOMAIN mmap[k].map : mmap[k].map[j] \in DOMAIN msize[k]
  /\ mnext \in 0 .. NT2
  /\ mret \in {"none", "ok", "err"}

Sealed(t) == [t EXCEPT !.sum = Csum(t)]
FirstTab == Sealed(Torn)

(* The devices after mkfs, which wrote all the tables.                     *)
MdInit ==
  /\ msize \in [Tiers -> SizeLists]
  /\ mmap = [k \in Tiers |-> NoMap]
  /\ mtab = FirstTab
  /\ mdisk = [j \in DOMAIN msize.t2 |-> Sealed([FirstTab EXCEPT !.id = NT1 + j - 1])]
  /\ mnext = 0 /\ mret = "none"

MdUp == \E k \in Tiers : mmap[k].map # <<>>

(* md_init_from_pmem_info; when a map cannot be allocated the mount ends   *)
(* and frees the other one (Mount).                                        *)
MdMount ==
  /\ ~MdUp
  /\ mmap' = [k \in Tiers |-> IF msize[k] = <<>> THEN NoMap ELSE MapSetup(msize[k])]
  /\ UNCHANGED <<msize, mtab, mdisk, mnext, mret>>

(* md_fini                                                                 *)
MdFini ==
  /\ MdUp /\ mnext = 0
  /\ mmap' = [k \in Tiers |-> NoMap]
  /\ UNCHANGED <<msize, mtab, mdisk, mnext, mret>>

(* External: the file system changes the table: each part once.            *)
MdChange ==
  /\ MdUp /\ mnext = 0
  /\ \E f \in {"uuid", "ids", "sizes"} :
       mtab[f] = 0 /\ mtab' = Sealed([mtab EXCEPT ![f] = 1])
  /\ mret' = "none"
  /\ UNCHANGED <<msize, mmap, mdisk, mnext>>

(* md_t2_mdt_write                                                         *)
MdWriteStart ==
  /\ mmap.t2.map # <<>> /\ mnext = 0
  /\ mnext' = 1
  /\ mret' = "none"
  /\ UNCHANGED <<msize, mmap, mtab, mdisk>>

ForDevMut(j) == [Sealed(mtab) EXCEPT !.id = NT1 + j - 1]

(* The table for T2 device j: the sum covers the index.                    *)
ForDev(j) == Sealed([mtab EXCEPT !.id = NT1 + j - 1])

(* The io-map of its write: the kernel finds the device of the block.      *)
Target(j) ==
  Decode(End(Enc(Start(NewIomb), "zusmem", Offset(msize.t2, j))))[1]

MdWriteOne ==
  /\ mnext # 0
  /\ mtab' = ForDev(mnext)
  /\ mdisk' = [mdisk EXCEPT ![DevOf(mmap.t2, Target(mnext).v)] = mtab']
  /\ IF mnext = NT2 THEN mnext' = 0 /\ mret' = "ok" ELSE mnext' = mnext + 1 /\ mret' = mret
  /\ UNCHANGED <<msize, mmap>>

(* The device may keep its table, have the new one or a torn one; or the   *)
(* buffer for the io-map could not be had, and the table is as it was.     *)
MdWriteFails ==
  /\ mnext # 0
  /\ \/ UNCHANGED <<mtab, mdisk>>
     \/ /\ mtab' = ForDev(mnext)
        /\ \E t \in {mdisk[mnext], mtab', Torn} :
             mdisk' = [mdisk EXCEPT ![mnext] = t]
  /\ mnext' = 0 /\ mret' = "err"
  /\ UNCHANGED <<msize, mmap>>

(* The daemon ends in the middle of a write; main's copy, on T1, is what   *)
(* the file system finds again (external).                                 *)
MdCrash ==
  /\ mnext # 0
  /\ \E t \in {mdisk[mnext], ForDev(mnext), Torn} :
       mdisk' = [mdisk EXCEPT ![mnext] = t]
  /\ mmap' = [k \in Tiers |-> NoMap]
  /\ mnext' = 0 /\ mret' = "none"
  /\ UNCHANGED <<msize, mtab>>

MdNext ==
  \/ MdMount
  \/ MdFini
  \/ MdChange
  \/ MdWriteStart
  \/ MdWriteOne
  \/ MdWriteFails
  \/ MdCrash
-----------------------------------------------------------------------------
(***************************************************************************)
(* The map finds the device of every block: the one between whose offset   *)
(* and end the block lies (md_zus.c:124).                                  *)
(***************************************************************************)
MdMapExact ==
  \A k \in Tiers : mmap[k].map # <<>> =>
    \A bn \in 0 .. Total(msize[k]) - 1 :
      LET j == DevOf(mmap[k], bn)
      IN Offset(msize[k], j) <= bn /\ bn < Offset(msize[k], j) + msize[k][j]

(***************************************************************************)
(* When md_t2_mdt_write returns 0 every T2 device has the table of memory, *)
(* under its own index, and the check of a mount accepts it, also the one  *)
(* that md_t2_mdt_read gives, for whatever device (md_zus.c:364).          *)
(***************************************************************************)
MdWriteReachesAll ==
  mret = "ok" => \A j \in DOMAIN mdisk : /\ MdtCheck(mdisk[j], mtab, NT1 + NT2)
                                         /\ MdtCheck(MdtRead(mdisk, j), mtab, NT1 + NT2)
                                         /\ mdisk[j].id = NT1 + j - 1

(***************************************************************************)
(* After a write that failed or was cut short, a copy on any T2 device     *)
(* that the check accepts was written whole, lists the devices as the main *)
(* table does and names the device it is on (md_zus.c:247): old, new and   *)
(* torn copies are told apart.                                             *)
(***************************************************************************)
MdAccepted ==
  \A j \in DOMAIN mdisk :
    MdtCheck(mdisk[j], mtab, NT1 + NT2)
      => /\ mdisk[j] # Torn /\ mdisk[j].id = NT1 + j - 1
         /\ [mdisk[j] EXCEPT !.id = mtab.id, !.sum = mtab.sum] = mtab

(***************************************************************************)
(* A table that passes has the index of a device of its list, although the *)
(* comparison with the number of devices lets one more through             *)
(* (md_zus.c:300): the entry behind the list has no blocks.                *)
(***************************************************************************)
MdIndexListed ==
  \A rmem \in 0 .. MaxRmem : \A id \in 0 .. NT1 + NT2 + rmem + 1 :
    IndexOk(NT1 + NT2, rmem, id) => id < NT1 + NT2 + rmem

(***************************************************************************)
(* Mounts and writes of the device table agree, through I/O errors and a   *)
(* crash in the middle of a write (md_t2_mdt_write, md_mdt_check).         *)
(***************************************************************************)
MdTablesRight == MdTypeOK /\ MdWriteReachesAll /\ MdAccepted /\ MdIndexListed

(***************************************************************************)
(* The map of the devices and the tables on them are right (_map_setup,    *)
(* md_t2_mdt_write, md_mdt_check).                                         *)
(***************************************************************************)
MdRight == MdMapExact /\ MdTablesRight
=============================================================================
