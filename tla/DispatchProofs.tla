--------------------------- MODULE DispatchProofs ---------------------------
(***************************************************************************)
(* Proofs about Dispatch, for any inodes, any number of ZTs, any vectors   *)
(* of operations that have the required ones and any bounds on the gets    *)
(* and the handles.                                                        *)
(***************************************************************************)
EXTENDS Dispatch, FiniteSetTheorems, TLAPS

Creating == {"new_inode", "tmpfile", "lookup"}
Last == {"evict", "free_inode"}
Using == Plain \cup {"get", "put", "gotblk", "add_dentry", "remove_dentry"}
Puts == [Zis -> 0 .. MaxGets]
Ops == {"none"} \cup Creating \cup Carrying \cup Using

(* A command is nothing at all, or an operation of an inode.               *)
Cmds == [op : Ops, z : Zis \cup {0}, pigy : Puts]

Typed ==
  /\ CmdTypeOK
  /\ vec \in Vectors
  /\ chan \in [Chans -> Cmds]
  /\ \A c \in Chans : chan[c].z \in Zis <=> chan[c].op # "none"

(* The kernel has a handle of the inodes of its commands, its gets and its *)
(* puts, but for the puts that ride on the eviction of the last one.       *)
Known ==
  /\ \A c \in Chans : chan[c].op \in Using => kin[chan[c].z] > 0
  /\ \A c \in Chans, z \in Zis :
       chan[c].pigy[z] > 0 => kin[z] > 0 \/ (chan[c].op \in Last /\ chan[c].z = z)
  /\ \A z \in Zis : kout[z] > 0 \/ kputs[z] > 0 => kin[z] > 0

(* The inductive invariant.                                                *)
IInv == Typed /\ Known /\ bad \subseteq {"null_free"} /\ CmdGetsBalanced /\ CmdInodesMatch

(* What one command counts for in the blocks and handles on their way.     *)
RideW(cmd, y) == cmd.pigy[y] + (IF cmd.op \in {"put", "gotblk"} /\ cmd.z = y THEN 1 ELSE 0)
CarryW(cmd, y) == IF cmd.op \in Carrying /\ cmd.z = y THEN 1 ELSE 0

Balanced == {"evict", "free_inode"} \subseteq vec
-----------------------------------------------------------------------------
(* The operations that a handler looks for.                                *)
LEMMA MissingOps ==
  /\ DOMAIN Missing = {"rename", "readdir", "clone", "pre_read", "fallocate", "seek",
                       "getxattr", "setxattr", "listxattr", "statfs", "fiemap", "ioctl",
                       "get_put_multy", "mmap_close", "setattr", "sync", "show_options",
                       "evict", "free_inode"}
  /\ \A op \in DOMAIN Missing : Missing[op] \in {"ENOTSUP", "ENOTTY", "EIO", "ok"}
  BY DEF Missing

(* The kinds of commands do not meet.                                      *)
LEMMA OpKinds ==
  /\ "none" \notin Creating \cup Carrying \cup Using
  /\ Creating \cap Carrying = {} /\ Creating \cap Using = {} /\ Carrying \cap Using = {}
  /\ Last \subseteq Carrying
  /\ Plain \cap {"get", "put", "gotblk", "add_dentry", "remove_dentry"} = {}
  BY MissingOps DEF Creating, Carrying, Using, Plain, Last

(* No call of an operation that a command stands for is one of NULL.       *)
LEMMA CallsSafe ==
  ASSUME Typed
  PROVE  /\ \A op \in Plain \cup {"get_put_multy", "evict", "free_inode"} :
              "null" \notin Call(op)
         /\ \A op \in {"new_inode", "lookup", "iget", "add_dentry", "remove_dentry"} :
              "null" \notin CallNow(op)
  <1>1. Required \subseteq vec
    BY CmdAssumption DEF Typed
  <1>2. \A op \in vec : "null" \notin CallNow(op) /\ "null" \notin Call(op)
    BY DEF CallNow, Call
  <1>3. \A op \in DOMAIN Missing : "null" \notin Call(op)
    BY <1>2, MissingOps DEF Call
  <1>4. Plain \cup {"get_put_multy", "evict", "free_inode"} \subseteq vec \cup DOMAIN Missing
    BY <1>1, MissingOps DEF Plain, Required
  <1>5. QED
    BY <1>1, <1>2, <1>3, <1>4 DEF Required

(* The sets of blocks and handles on their way are finite.                 *)
LEMMA RidingFinite ==
  ASSUME NEW z \in Zis
  PROVE  /\ IsFiniteSet(Riding(z)) /\ Cardinality(Riding(z)) \in Nat
         /\ IsFiniteSet(Carriers(z)) /\ Cardinality(Carriers(z)) \in Nat
  <1>1. IsFiniteSet(0 .. MaxGets)
    BY FS_Interval, CmdAssumption
  <1>2. IsFiniteSet(Chans \X (0 .. MaxGets))
    BY <1>1, FS_Product, CmdAssumption
  <1>3. IsFiniteSet(Riding(z))
    BY <1>2, FS_Subset DEF Riding
  <1>4. IsFiniteSet(Carriers(z))
    BY CmdAssumption, FS_Subset DEF Carriers
  <1>5. QED
    BY <1>3, <1>4, FS_CardinalityType

(* The blocks of one inode that are on their way with one command.         *)
LEMMA RidersSize ==
  ASSUME NEW c, NEW n \in Nat, NEW b \in BOOLEAN
  PROVE  LET T == ({c} \X (1 .. n)) \cup (IF b THEN {<<c, 0>>} ELSE {})
         IN  IsFiniteSet(T) /\ Cardinality(T) = n + (IF b THEN 1 ELSE 0)
  <1> DEFINE S == {c} \X (1 .. n)
  <1>1. IsFiniteSet({c}) /\ Cardinality({c}) = 1
    BY FS_Singleton
  <1>2. IsFiniteSet(1 .. n) /\ Cardinality(1 .. n) = n
    BY FS_Interval
  <1>3. IsFiniteSet(S) /\ Cardinality(S) = Cardinality({c}) * Cardinality(1 .. n)
    BY <1>1, <1>2, FS_Product
  <1>4. IsFiniteSet(S) /\ Cardinality(S) = n
    BY <1>1, <1>2, <1>3
  <1>5. <<c, 0>> \notin S
    OBVIOUS
  <1> HIDE DEF S
  <1>6. CASE b
    <2>1. IsFiniteSet(S \cup {<<c, 0>>}) /\ Cardinality(S \cup {<<c, 0>>}) = Cardinality(S) + 1
      BY <1>4, <1>5, FS_AddElement
    <2>2. QED
      BY <1>4, <1>6, <2>1 DEF S
  <1>7. CASE ~b
    <2>1. S \cup {} = S /\ n + 0 = n
      OBVIOUS
    <2>2. QED
      BY <1>4, <1>7, <2>1 DEF S
  <1>8. QED
    BY <1>6, <1>7

(* What a change of one command adds to the blocks on their way.           *)
LEMMA RidingChange ==
  ASSUME Typed, NEW c \in Chans, NEW cmd \in Cmds, chan' = [chan EXCEPT ![c] = cmd],
         NEW y \in Zis
  PROVE  Cardinality(Riding(y)') = Cardinality(Riding(y)) + RideW(cmd, y) - RideW(chan[c], y)
  <1> DEFINE On(k) == k.op \in {"put", "gotblk"} /\ k.z = y
             Of(k) == ({c} \X (1 .. k.pigy[y])) \cup (IF On(k) THEN {<<c, 0>>} ELSE {})
             Rest == {p \in Riding(y) : p[1] # c}
  <1>1. chan[c] \in Cmds /\ \A d \in Chans : chan'[d] = IF d = c THEN cmd ELSE chan[d]
    BY DEF Typed
  <1>2. ASSUME NEW k \in Cmds
        PROVE  /\ IsFiniteSet(Of(k)) /\ Cardinality(Of(k)) = RideW(k, y)
               /\ RideW(k, y) \in Nat
               /\ \A p \in Chans \X (0 .. MaxGets) :
                    p \in Of(k) <=> p[1] = c /\ IF p[2] > 0 THEN p[2] <= k.pigy[y] ELSE On(k)
               /\ Of(k) \subseteq Chans \X (0 .. MaxGets)
    <2>1. k.pigy[y] \in 0 .. MaxGets /\ k.pigy[y] \in Nat /\ On(k) \in BOOLEAN
      BY CmdAssumption DEF Cmds, Puts
    <2>2. IsFiniteSet(Of(k)) /\ Cardinality(Of(k)) = k.pigy[y] + (IF On(k) THEN 1 ELSE 0)
      BY <2>1, RidersSize
    <2>3. RideW(k, y) = k.pigy[y] + (IF On(k) THEN 1 ELSE 0) /\ RideW(k, y) \in Nat
      BY <2>1 DEF RideW
    <2> HIDE DEF On
    <2>4. ASSUME NEW p \in Chans \X (0 .. MaxGets)
          PROVE  p \in Of(k) <=> p[1] = c /\ IF p[2] > 0 THEN p[2] <= k.pigy[y] ELSE On(k)
      <3>1. p = <<p[1], p[2]>> /\ p[2] \in Nat
        BY CmdAssumption
      <3>2. p \in {c} \X (1 .. k.pigy[y]) <=> p[1] = c /\ p[2] > 0 /\ p[2] <= k.pigy[y]
        BY <2>1, <3>1
      <3>3. p = <<c, 0>> <=> p[1] = c /\ p[2] = 0
        BY <3>1
      <3>4. QED
        BY <3>1, <3>2, <3>3
    <2>5. Of(k) \subseteq Chans \X (0 .. MaxGets)
      <3>1. {c} \X (1 .. k.pigy[y]) \subseteq Chans \X (0 .. MaxGets)
        BY <2>1, CmdAssumption
      <3>2. <<c, 0>> \in Chans \X (0 .. MaxGets)
        BY CmdAssumption
      <3>3. QED
        BY <3>1, <3>2
    <2>6. QED
      BY <2>2, <2>3, <2>4, <2>5
  <1>3. \A p \in Chans \X (0 .. MaxGets) :
          /\ p \in Riding(y) <=> IF p[2] > 0 THEN p[2] <= chan[p[1]].pigy[y] ELSE On(chan[p[1]])
          /\ p \in Riding(y)' <=>
               IF p[2] > 0 THEN p[2] <= chan'[p[1]].pigy[y] ELSE On(chan'[p[1]])
          /\ p[1] \in Chans
    BY DEF Riding
  <1>4. Riding(y) \subseteq Chans \X (0 .. MaxGets) /\ Riding(y)' \subseteq Chans \X (0 .. MaxGets)
    BY DEF Riding
  <1> HIDE DEF On, Of
  <1>5. Riding(y) = Rest \cup Of(chan[c])
    BY <1>1, <1>2, <1>3, <1>4
  <1>6. Riding(y)' = Rest \cup Of(cmd)
    BY <1>1, <1>2, <1>3, <1>4
  <1>7. Rest \cap Of(chan[c]) = {} /\ Rest \cap Of(cmd) = {}
    BY <1>1, <1>2, <1>4
  <1>8. IsFiniteSet(Rest) /\ Cardinality(Rest) \in Nat
    BY RidingFinite, FS_Subset, FS_CardinalityType
  <1> HIDE DEF Rest
  <1>9. ASSUME NEW k \in Cmds, Rest \cap Of(k) = {}
        PROVE  Cardinality(Rest \cup Of(k)) = Cardinality(Rest) + RideW(k, y)
    <2>1. Cardinality(Rest \cup Of(k)) = Cardinality(Rest) + Cardinality(Of(k)) - Cardinality({})
      BY <1>2, <1>8, <1>9, FS_Union
    <2>2. QED
      BY <1>2, <1>8, <2>1, FS_EmptySet
  <1>10. RideW(cmd, y) \in Nat /\ RideW(chan[c], y) \in Nat
    BY <1>1, <1>2
  <1>11. QED
    BY <1>1, <1>5, <1>6, <1>7, <1>8, <1>9, <1>10

(* And to the handles.                                                     *)
LEMMA CarriersChange ==
  ASSUME Typed, NEW c \in Chans, NEW cmd \in Cmds, chan' = [chan EXCEPT ![c] = cmd],
         NEW y \in Zis
  PROVE  Cardinality(Carriers(y)') =
           Cardinality(Carriers(y)) + CarryW(cmd, y) - CarryW(chan[c], y)
  <1> DEFINE Rest == Carriers(y) \ {c}
  <1>1. \A d \in Chans : chan'[d] = IF d = c THEN cmd ELSE chan[d]
    BY DEF Typed
  <1>2. /\ Carriers(y) = IF CarryW(chan[c], y) = 1 THEN Rest \cup {c} ELSE Rest
        /\ Carriers(y)' = IF CarryW(cmd, y) = 1 THEN Rest \cup {c} ELSE Rest
    BY <1>1 DEF Carriers, CarryW
  <1>3. IsFiniteSet(Rest) /\ Cardinality(Rest) \in Nat /\ c \notin Rest
    BY RidingFinite, FS_Subset, FS_CardinalityType
  <1> HIDE DEF Rest
  <1>4. Cardinality(Rest \cup {c}) = Cardinality(Rest) + 1
    BY <1>3, FS_AddElement
  <1>5. CarryW(cmd, y) \in {0, 1} /\ CarryW(chan[c], y) \in {0, 1}
    BY DEF CarryW
  <1>6. QED
    BY <1>2, <1>3, <1>4, <1>5

(* An inode the kernel has a handle of, or that a command carries, can be  *)
(* used.                                                                   *)
LEMMA InUse ==
  ASSUME IInv, NEW z \in Zis,
         kin[z] > 0 \/ \E c \in Chans : chan[c].op \in Carrying /\ chan[c].z = z
  PROVE  zii[z] > 0
  <1>1. Cardinality(Carriers(z)) \in Nat /\ IsFiniteSet(Carriers(z)) /\ kin[z] \in Nat
        /\ zii[z] \in Nat
    BY RidingFinite DEF IInv, Typed, CmdTypeOK
  <1>2. zii[z] >= kin[z] + Cardinality(Carriers(z))
    BY DEF IInv, CmdInodesMatch, Handles
  <1>3. CASE kin[z] > 0
    BY <1>1, <1>2, <1>3
  <1>4. ASSUME NEW c \in Chans, chan[c].op \in Carrying /\ chan[c].z = z
        PROVE  zii[z] > 0
    <2>1. Carriers(z) # {}
      BY <1>4 DEF Carriers
    <2>2. Cardinality(Carriers(z)) # 0
      BY <1>1, <2>1, FS_EmptySet
    <2>3. QED
      BY <1>1, <1>2, <2>2
  <1>5. QED
    BY <1>3, <1>4

(* So that a call for it adds nothing to what is wrong.                    *)
LEMMA TouchesNothing ==
  ASSUME IInv, NEW z \in Zis, NEW results, "null" \notin results,
         kin[z] > 0 \/ \E c \in Chans : chan[c].op \in Carrying /\ chan[c].z = z
  PROVE  Touch(z, results) = {}
  BY InUse DEF Touch
-----------------------------------------------------------------------------
(* A step of one command keeps the invariant if the counts at both ends    *)
(* change as what is on its way does.                                      *)
LEMMA StepPreserves ==
  ASSUME IInv, NEW c \in Chans, NEW cmd \in Cmds, chan' = [chan EXCEPT ![c] = cmd],
         cmd.z \in Zis <=> cmd.op # "none",
         vec' = vec, disk' \subseteq Zis, bad' \subseteq {"null_free"},
         zii' \in [Zis -> Nat], kin' \in [Zis -> Nat], gets' \in [Zis -> Int],
         kout' \in [Zis -> Nat], kputs' \in [Zis -> Nat],
         \A y \in Zis :
           gets'[y] - gets[y] = (kout'[y] - kout[y]) + (kputs'[y] - kputs[y])
                                  + RideW(cmd, y) - RideW(chan[c], y),
         \A y \in Zis :
           /\ zii'[y] - zii[y] >= (kin'[y] - kin[y]) + CarryW(cmd, y) - CarryW(chan[c], y)
           /\ Balanced =>
                zii'[y] - zii[y] = (kin'[y] - kin[y]) + CarryW(cmd, y) - CarryW(chan[c], y),
         Known'
  PROVE  IInv'
  <1>1. \A d \in Chans : chan'[d] = IF d = c THEN cmd ELSE chan[d]
    BY DEF IInv, Typed
  <1>2. Typed'
    <2>1. chan' \in [Chans -> Cmds]
      BY DEF IInv, Typed
    <2>2. \A d \in Chans : chan'[d].pigy \in [Zis -> 0 .. MaxGets]
      BY <2>1 DEF Cmds, Puts
    <2>3. \A d \in Chans : chan'[d].z \in Zis <=> chan'[d].op # "none"
      BY <1>1 DEF IInv, Typed
    <2>4. QED
      BY <2>1, <2>2, <2>3 DEF IInv, Typed, CmdTypeOK
  <1>3. ASSUME NEW y \in Zis
        PROVE  gets'[y] = kout'[y] + kputs'[y] + Cardinality(Riding(y)')
    <2>1. Cardinality(Riding(y)') = Cardinality(Riding(y)) + RideW(cmd, y) - RideW(chan[c], y)
      BY RidingChange DEF IInv
    <2>2. gets[y] = kout[y] + kputs[y] + Cardinality(Riding(y))
      BY DEF IInv, CmdGetsBalanced
    <2>3. /\ gets[y] \in Int /\ kout[y] \in Int /\ kputs[y] \in Int
          /\ gets'[y] \in Int /\ kout'[y] \in Int /\ kputs'[y] \in Int
          /\ Cardinality(Riding(y)) \in Int
      BY RidingFinite DEF IInv, Typed, CmdTypeOK
    <2>4. chan[c] \in Cmds
      BY DEF IInv, Typed
    <2>5. RideW(cmd, y) \in Int /\ RideW(chan[c], y) \in Int
      BY <2>4, CmdAssumption DEF RideW, Cmds, Puts
    <2>6. gets'[y] - gets[y] = (kout'[y] - kout[y]) + (kputs'[y] - kputs[y])
                                  + RideW(cmd, y) - RideW(chan[c], y)
      OBVIOUS
    <2>7. QED
      BY <2>1, <2>2, <2>3, <2>5, <2>6
  <1>4. ASSUME NEW y \in Zis
        PROVE  /\ zii'[y] >= kin'[y] + Cardinality(Carriers(y)')
               /\ Balanced => zii'[y] = kin'[y] + Cardinality(Carriers(y)')
    <2>1. Cardinality(Carriers(y)') =
            Cardinality(Carriers(y)) + CarryW(cmd, y) - CarryW(chan[c], y)
      BY CarriersChange DEF IInv
    <2>2. /\ zii[y] >= kin[y] + Cardinality(Carriers(y))
          /\ Balanced => zii[y] = kin[y] + Cardinality(Carriers(y))
      BY DEF IInv, CmdInodesMatch, Handles, Balanced
    <2>3. /\ zii[y] \in Int /\ kin[y] \in Int /\ zii'[y] \in Int /\ kin'[y] \in Int
          /\ Cardinality(Carriers(y)) \in Int
      BY RidingFinite DEF IInv, Typed, CmdTypeOK
    <2>4. CarryW(cmd, y) \in Int /\ CarryW(chan[c], y) \in Int
      BY DEF CarryW
    <2>5. /\ zii'[y] - zii[y] >= (kin'[y] - kin[y]) + CarryW(cmd, y) - CarryW(chan[c], y)
          /\ Balanced =>
               zii'[y] - zii[y] = (kin'[y] - kin[y]) + CarryW(cmd, y) - CarryW(chan[c], y)
      OBVIOUS
    <2>6. QED
      BY <2>1, <2>2, <2>3, <2>4, <2>5
  <1>5. CmdGetsBalanced' /\ CmdInodesMatch'
    BY <1>3, <1>4 DEF CmdGetsBalanced, CmdInodesMatch, Handles, Balanced
  <1>6. QED
    BY <1>2, <1>5 DEF IInv

(* The kernel sends a command with some of its puts.                       *)
LEMMA SendPreserves ==
  ASSUME IInv, NEW c \in Chans, NEW z \in Zis, NEW must,
         NEW op \in Creating \cup Last \cup {"race_evict"} \cup (Using \ {"put", "gotblk"}),
         KSend(c, op, z, must),
         kin' = IF op \in Last \cup {"race_evict"} THEN [kin EXCEPT ![z] = @ - 1] ELSE kin,
         op \in Using => kin[z] > 0,
         op = "race_evict" => kin[z] > 1,
         op \in Last => /\ kin[z] = 1 /\ kout[z] = 0 /\ z \in must
                        /\ \A d \in Chans : ~Uses(d, z)
  PROVE  IInv'
  <1>1. PICK f \in Riders(must) :
          /\ chan' = [chan EXCEPT ![c] = Cmd(op, z, f)]
          /\ kputs' = [y \in Zis |-> kputs[y] - f[y]]
    BY DEF KSend
  <1> DEFINE cmd == Cmd(op, z, f)
  <1>2. UNCHANGED <<vec, zii, disk, gets, kout, bad>> /\ chan[c] = NoCmd
    BY DEF KSend
  <1>3. /\ f \in Puts /\ kputs \in [Zis -> Nat] /\ kin \in [Zis -> Nat]
        /\ \A y \in Zis : f[y] \in Nat /\ f[y] <= kputs[y] /\ (y \in must => f[y] = kputs[y])
    BY CmdAssumption DEF Riders, Puts, IInv, Typed, CmdTypeOK
  <1>4. /\ cmd \in Cmds /\ cmd.op = op /\ cmd.z = z /\ cmd.pigy = f
        /\ op # "none" /\ op # "put" /\ op # "gotblk"
    BY <1>3, OpKinds DEF Cmd, Cmds, Ops, Creating, Last, Carrying
  <1>5. \A y \in Zis : kputs'[y] = kputs[y] - f[y] /\ kputs'[y] \in Nat
    BY <1>1, <1>3
  <1>6. kputs' \in [Zis -> Nat]
    BY <1>1, <1>5
  <1> DEFINE w(y) == IF op \in Last \cup {"race_evict"} /\ y = z THEN 1 ELSE 0
  <1>7. \A y \in Zis : kin'[y] = kin[y] - w(y) /\ kin'[y] \in Nat
    <2>1. op \in Last \cup {"race_evict"} => kin[z] > 0
      BY <1>3
    <2>2. QED
      BY <1>3, <2>1
  <1>8. kin' \in [Zis -> Nat]
    BY <1>3, <1>7
  <1>9. \A y \in Zis : kin[y] > 0 => kin'[y] > 0 \/ (op \in Last /\ y = z)
    BY <1>3, <1>7
  <1>10. \A y \in Zis : CarryW(cmd, y) = w(y) /\ CarryW(chan[c], y) = 0
    <2>1. op \in Carrying <=> op \in Last \cup {"race_evict"}
      BY OpKinds DEF Carrying, Last, Creating
    <2>2. chan[c].op \notin Carrying
      BY <1>2, OpKinds DEF NoCmd, Cmd
    <2>3. QED
      BY <1>4, <2>1, <2>2 DEF CarryW
  <1>11. \A y \in Zis : RideW(cmd, y) = f[y] /\ RideW(chan[c], y) = 0
    BY <1>2, <1>3, <1>4 DEF RideW, NoCmd, NoPuts, Cmd
  <1> HIDE DEF cmd
  <1>12. \A d \in Chans : chan'[d] = IF d = c THEN cmd ELSE chan[d]
    BY <1>1 DEF IInv, Typed, cmd
  <1>13. Known'
    <2>1. ASSUME NEW d \in Chans, chan'[d].op \in Using
          PROVE  kin'[chan'[d].z] > 0
      <3>1. CASE d = c
        <4>1. op \in Using /\ op \notin Last /\ kin[z] > 0
          BY <1>4, <1>12, <2>1, <3>1, OpKinds
        <4>2. QED
          BY <1>4, <1>9, <1>12, <3>1, <4>1
      <3>2. CASE d # c
        <4>1. chan[d].op \in Using /\ chan'[d] = chan[d]
          BY <1>12, <2>1, <3>2
        <4>2. PICK y \in Zis : y = chan[d].z
          BY <4>1, OpKinds DEF IInv, Typed
        <4>3. kin[y] > 0 /\ Uses(d, y)
          BY <4>1, <4>2 DEF IInv, Known, Uses
        <4>4. QED
          BY <1>9, <4>1, <4>2, <4>3
      <3>3. QED
        BY <3>1, <3>2
    <2>2. ASSUME NEW d \in Chans, NEW y \in Zis, chan'[d].pigy[y] > 0
          PROVE  kin'[y] > 0 \/ (chan'[d].op \in Last /\ chan'[d].z = y)
      <3>1. CASE d = c
        <4>1. f[y] > 0
          BY <1>4, <1>12, <2>2, <3>1
        <4>2. kputs[y] > 0
          BY <1>3, <4>1
        <4>3. kin[y] > 0
          BY <4>2 DEF IInv, Known
        <4>4. QED
          BY <1>4, <1>9, <1>12, <3>1, <4>3
      <3>2. CASE d # c
        <4>1. chan'[d] = chan[d] /\ Uses(d, y)
          BY <1>12, <2>2, <3>2 DEF Uses
        <4>2. kin[y] > 0 \/ (chan[d].op \in Last /\ chan[d].z = y)
          BY <2>2, <4>1 DEF IInv, Known
        <4>3. QED
          BY <1>9, <4>1, <4>2
      <3>3. QED
        BY <3>1, <3>2
    <2>3. ASSUME NEW y \in Zis, kout'[y] > 0 \/ kputs'[y] > 0
          PROVE  kin'[y] > 0
      <3>1. kputs'[y] > 0 => kputs[y] > 0 /\ f[y] # kputs[y]
        BY <1>3, <1>5
      <3>2. kout[y] > 0 \/ kputs[y] > 0
        BY <1>2, <2>3, <3>1
      <3>3. kin[y] > 0
        BY <3>2 DEF IInv, Known
      <3>4. ~(op \in Last /\ y = z)
        <4>1. SUFFICES ASSUME op \in Last, y = z PROVE FALSE
          OBVIOUS
        <4>2. kout'[y] = 0 /\ kputs'[y] = 0
          BY <1>2, <1>3, <1>5, <4>1
        <4>3. QED
          BY <2>3, <4>2
      <3>5. QED
        BY <1>9, <3>3, <3>4
    <2>4. QED
      BY <2>1, <2>2, <2>3 DEF Known
  <1>14. /\ disk' \subseteq Zis /\ bad' \subseteq {"null_free"}
         /\ zii' \in [Zis -> Nat] /\ gets' \in [Zis -> Int] /\ kout' \in [Zis -> Nat]
    BY <1>2 DEF IInv, Typed, CmdTypeOK
  <1>15. \A y \in Zis :
           gets'[y] - gets[y] = (kout'[y] - kout[y]) + (kputs'[y] - kputs[y])
                                  + RideW(cmd, y) - RideW(chan[c], y)
    BY <1>2, <1>3, <1>5, <1>11, <1>14
  <1>16. \A y \in Zis : zii'[y] - zii[y]
           = (kin'[y] - kin[y]) + CarryW(cmd, y) - CarryW(chan[c], y)
    BY <1>2, <1>3, <1>7, <1>10, <1>14
  <1>17. \A y \in Zis :
           /\ zii'[y] - zii[y] >= (kin'[y] - kin[y]) + CarryW(cmd, y) - CarryW(chan[c], y)
           /\ Balanced =>
                zii'[y] - zii[y] = (kin'[y] - kin[y]) + CarryW(cmd, y) - CarryW(chan[c], y)
    BY <1>3, <1>8, <1>14, <1>16 DEF CarryW
  <1>18. cmd.z \in Zis <=> cmd.op # "none"
    BY <1>4
  <1>19. chan' = [chan EXCEPT ![c] = cmd]
    BY <1>1 DEF cmd
  <1>20. QED
    BY <1>2, <1>4, <1>6, <1>8, <1>13, <1>14, <1>15, <1>17, <1>18, <1>19, StepPreserves

(* What the kernel sends for the inodes it knows and those it does not.    *)
LEMMA KernelPreserves ==
  ASSUME IInv, NEW c \in Chans, NEW z \in Zis,
         KNew(c, z) \/ KLookup(c, z) \/ KUse(c, z) \/ KRace(c, z) \/ KLeave(c, z)
  PROVE  IInv'
  <1>1. CASE KNew(c, z)
    <2>1. PICK op \in {"new_inode", "tmpfile"} : KSend(c, op, z, {})
      BY <1>1 DEF KNew
    <2>2. op \in Creating /\ op \notin Last \cup {"race_evict"} /\ op \notin Using /\ kin' = kin
      BY <1>1, OpKinds DEF Creating, Last, KNew
    <2>3. QED
      BY <2>1, <2>2, SendPreserves
  <1>2. CASE KLookup(c, z)
    <2>1. /\ "lookup" \in Creating /\ "lookup" \notin Last \cup {"race_evict"}
          /\ "lookup" \notin Using
      BY OpKinds DEF Creating, Last
    <2>2. KSend(c, "lookup", z, {}) /\ kin' = kin
      BY <1>2 DEF KLookup
    <2>3. QED
      BY <2>1, <2>2, SendPreserves
  <1>3. CASE KUse(c, z)
    <2>1. PICK op \in Sent \cup {"get", "add_dentry", "remove_dentry"} : KSend(c, op, z, {})
      BY <1>3 DEF KUse
    <2>2. op \in Using \ {"put", "gotblk"} /\ op \notin Last \cup {"race_evict"}
      BY CmdAssumption, OpKinds DEF Using, Carrying, Last
    <2>3. kin[z] > 0 /\ kin' = kin
      BY <1>3 DEF KUse
    <2>4. QED
      BY <2>1, <2>2, <2>3, SendPreserves
  <1>4. CASE KRace(c, z)
    <2>1. /\ KSend(c, "race_evict", z, {}) /\ kin' = [kin EXCEPT ![z] = @ - 1]
          /\ kin[z] > 1
      BY <1>4 DEF KRace
    <2>2. "race_evict" \notin Last /\ "race_evict" \notin Using
      BY OpKinds DEF Last, Carrying
    <2>3. QED
      BY <2>1, <2>2, SendPreserves
  <1>5. CASE KLeave(c, z)
    <2> DEFINE op == IF z \in disk THEN "evict" ELSE "free_inode"
    <2>1. /\ KSend(c, op, z, {z}) /\ kin[z] = 1 /\ kout[z] = 0
          /\ kin' = [kin EXCEPT ![z] = @ - 1]
          /\ \A d \in Chans : ~Uses(d, z)
      BY <1>5 DEF KLeave
    <2>2. op \in Last /\ op \notin Using /\ op # "race_evict"
      BY OpKinds DEF Last, Carrying
    <2> HIDE DEF op
    <2>3. QED
      BY <2>1, <2>2, SendPreserves
  <1>6. QED
    BY <1>1, <1>2, <1>3, <1>4, <1>5

(* The kernel is done with a get.                                          *)
LEMMA PutPreserves ==
  ASSUME IInv, NEW z \in Zis, KPut(z)
  PROVE  IInv'
  <1>1. /\ kout' = [kout EXCEPT ![z] = @ - 1] /\ kputs' = [kputs EXCEPT ![z] = @ + 1]
        /\ kout[z] > 0 /\ UNCHANGED <<vec, zii, disk, gets, kin, chan, bad>>
    BY DEF KPut
  <1>2. /\ kout \in [Zis -> Nat] /\ kputs \in [Zis -> Nat] /\ gets \in [Zis -> Int]
    BY DEF IInv, Typed, CmdTypeOK
  <1>3. \A y \in Zis : /\ kout'[y] = IF y = z THEN kout[y] - 1 ELSE kout[y]
                       /\ kputs'[y] = IF y = z THEN kputs[y] + 1 ELSE kputs[y]
    BY <1>1, <1>2
  <1>4. kout' \in [Zis -> Nat] /\ kputs' \in [Zis -> Nat]
    BY <1>1, <1>2
  <1>5. Typed'
    BY <1>1, <1>4 DEF IInv, Typed, CmdTypeOK
  <1>6. Known'
    BY <1>1, <1>2, <1>3 DEF IInv, Known
  <1>7. CmdGetsBalanced'
    <2>1. ASSUME NEW y \in Zis
          PROVE  gets'[y] = kout'[y] + kputs'[y] + Cardinality(Riding(y)')
      <3>1. Riding(y)' = Riding(y)
        BY <1>1 DEF Riding
      <3>2. gets[y] = kout[y] + kputs[y] + Cardinality(Riding(y))
        BY DEF IInv, CmdGetsBalanced
      <3>3. Cardinality(Riding(y)) \in Nat
        BY RidingFinite
      <3>4. QED
        BY <1>1, <1>2, <1>3, <3>1, <3>2, <3>3
    <2>2. QED
      BY <2>1 DEF CmdGetsBalanced
  <1>8. CmdInodesMatch'
    BY <1>1 DEF IInv, CmdInodesMatch, Handles, Carriers
  <1>9. QED
    BY <1>1, <1>5, <1>6, <1>7, <1>8 DEF IInv

(* A put goes out as a command.                                            *)
LEMMA PutCmdPreserves ==
  ASSUME IInv, NEW c \in Chans, NEW z \in Zis, KPutCmd(c, z)
  PROVE  IInv'
  <1> DEFINE cmd == Cmd("put", z, NoPuts)
  <1>1. /\ chan' = [chan EXCEPT ![c] = cmd]
        /\ kputs' = [kputs EXCEPT ![z] = @ - 1] /\ kputs[z] > 0 /\ chan[c] = NoCmd
        /\ UNCHANGED <<vec, zii, disk, gets, kin, kout, bad>>
    BY DEF KPutCmd
  <1>2. /\ kout \in [Zis -> Nat] /\ kputs \in [Zis -> Nat] /\ gets \in [Zis -> Int]
        /\ zii \in [Zis -> Nat] /\ kin \in [Zis -> Nat]
    BY DEF IInv, Typed, CmdTypeOK
  <1>3. \A y \in Zis : kputs'[y] = IF y = z THEN kputs[y] - 1 ELSE kputs[y]
    BY <1>1, <1>2
  <1>4. cmd \in Cmds /\ cmd.op = "put" /\ cmd.z = z /\ cmd.pigy = NoPuts
    BY CmdAssumption DEF Cmd, Cmds, NoPuts, Puts, Using, Ops
  <1>5. \A y \in Zis : RideW(cmd, y) = (IF y = z THEN 1 ELSE 0) /\ RideW(chan[c], y) = 0
    BY <1>1, <1>4 DEF RideW, NoCmd, NoPuts, Cmd
  <1>6. \A y \in Zis : CarryW(cmd, y) = 0 /\ CarryW(chan[c], y) = 0
    BY <1>1, <1>4 DEF CarryW, Carrying, NoCmd, Cmd
  <1> HIDE DEF cmd
  <1>7. \A d \in Chans : chan'[d] = IF d = c THEN cmd ELSE chan[d]
    BY <1>1 DEF IInv, Typed
  <1>8. Known'
    <2>1. kin[z] > 0
      BY <1>1 DEF IInv, Known
    <2>2. \A d \in Chans : chan'[d].op \in Using => kin'[chan'[d].z] > 0
      BY <1>1, <1>4, <1>7, <2>1 DEF IInv, Known
    <2>3. \A d \in Chans, y \in Zis : chan'[d].pigy[y] > 0 =>
            kin'[y] > 0 \/ (chan'[d].op \in Last /\ chan'[d].z = y)
      BY <1>1, <1>4, <1>7 DEF IInv, Known, NoPuts
    <2>4. \A y \in Zis : kout'[y] > 0 \/ kputs'[y] > 0 => kin'[y] > 0
      BY <1>1, <1>2, <1>3 DEF IInv, Known
    <2>5. QED
      BY <2>2, <2>3, <2>4 DEF Known
  <1>9. kputs' \in [Zis -> Nat]
    BY <1>1, <1>2
  <1>10. \A y \in Zis :
           gets'[y] - gets[y] = (kout'[y] - kout[y]) + (kputs'[y] - kputs[y])
                                  + RideW(cmd, y) - RideW(chan[c], y)
    BY <1>1, <1>2, <1>3, <1>5
  <1>11. \A y \in Zis :
           /\ zii'[y] - zii[y] >= (kin'[y] - kin[y]) + CarryW(cmd, y) - CarryW(chan[c], y)
           /\ Balanced =>
                zii'[y] - zii[y] = (kin'[y] - kin[y]) + CarryW(cmd, y) - CarryW(chan[c], y)
    BY <1>1, <1>2, <1>6
  <1>12. disk' \subseteq Zis /\ bad' \subseteq {"null_free"} /\ (cmd.z \in Zis <=> cmd.op # "none")
    BY <1>1, <1>4 DEF IInv, Typed, CmdTypeOK
  <1>13. QED
    BY <1>1, <1>2, <1>4, <1>8, <1>9, <1>10, <1>11, <1>12, StepPreserves

(* A put that rides on a command.                                          *)
LEMMA PigyPreserves ==
  ASSUME IInv, NEW c \in Chans, NEW z \in Zis, PigyPut(c, z)
  PROVE  IInv'
  <1> DEFINE n == chan[c].pigy[z]
             f == [chan[c].pigy EXCEPT ![z] = @ - 1]
             cmd == Cmd(chan[c].op, chan[c].z, f)
  <1>1. /\ n > 0 /\ chan' = [chan EXCEPT ![c] = cmd]
        /\ gets' = [gets EXCEPT ![z] = @ - 1]
        /\ UNCHANGED <<vec, zii, disk, kin, kout, kputs>>
        /\ bad' = bad \cup Touch(z, Call("get_put_multy"))
    BY DEF PigyPut, kernVars
  <1>2. /\ chan[c] \in Cmds /\ chan[c].pigy \in Puts /\ n \in 0 .. MaxGets
        /\ (chan[c].z \in Zis <=> chan[c].op # "none")
    BY DEF IInv, Typed, Cmds, Puts
  <1>3. /\ kout \in [Zis -> Nat] /\ kputs \in [Zis -> Nat] /\ gets \in [Zis -> Int]
        /\ zii \in [Zis -> Nat] /\ kin \in [Zis -> Nat]
    BY DEF IInv, Typed, CmdTypeOK
  <1>4. f \in Puts /\ \A y \in Zis : f[y] = IF y = z THEN n - 1 ELSE chan[c].pigy[y]
    BY <1>1, <1>2, CmdAssumption DEF Puts
  <1> HIDE DEF f
  <1>5. cmd \in Cmds /\ cmd.op = chan[c].op /\ cmd.z = chan[c].z /\ cmd.pigy = f
    BY <1>2, <1>4 DEF Cmd, Cmds
  <1> HIDE DEF cmd
  <1>6. \A y \in Zis : /\ CarryW(cmd, y) = CarryW(chan[c], y) /\ CarryW(cmd, y) \in Int
                       /\ RideW(cmd, y) = RideW(chan[c], y) - (IF y = z THEN 1 ELSE 0)
                       /\ RideW(chan[c], y) \in Int
    BY <1>2, <1>4, <1>5, CmdAssumption DEF CarryW, RideW, Puts
  <1>7. \A d \in Chans : chan'[d] = IF d = c THEN cmd ELSE chan[d]
    BY <1>1 DEF IInv, Typed
  <1>8. bad' \subseteq {"null_free"}
    <2>1. kin[z] > 0 \/ \E d \in Chans : chan[d].op \in Carrying /\ chan[d].z = z
      BY <1>1, OpKinds DEF IInv, Known
    <2>2. Touch(z, Call("get_put_multy")) = {}
      BY <2>1, CallsSafe, TouchesNothing DEF IInv
    <2>3. QED
      BY <1>1, <2>2 DEF IInv
  <1>9. Known'
    <2>1. \A d \in Chans : chan'[d].op = chan[d].op /\ chan'[d].z = chan[d].z
      BY <1>5, <1>7
    <2>2. \A d \in Chans, y \in Zis : chan'[d].pigy[y] > 0 => chan[d].pigy[y] > 0
      BY <1>1, <1>2, <1>4, <1>5, <1>7
    <2>3. QED
      BY <1>1, <2>1, <2>2 DEF IInv, Known
  <1>10. \A y \in Zis :
           gets'[y] - gets[y] = (kout'[y] - kout[y]) + (kputs'[y] - kputs[y])
                                  + RideW(cmd, y) - RideW(chan[c], y)
    BY <1>1, <1>3, <1>6
  <1>11. \A y \in Zis :
           /\ zii'[y] - zii[y] >= (kin'[y] - kin[y]) + CarryW(cmd, y) - CarryW(chan[c], y)
           /\ Balanced =>
                zii'[y] - zii[y] = (kin'[y] - kin[y]) + CarryW(cmd, y) - CarryW(chan[c], y)
    BY <1>1, <1>3, <1>6
  <1>12. disk' \subseteq Zis /\ (cmd.z \in Zis <=> cmd.op # "none")
    BY <1>1, <1>2, <1>5 DEF IInv, Typed, CmdTypeOK
  <1>13. gets' \in [Zis -> Int]
    BY <1>1, <1>3
  <1>14. QED
    BY <1>1, <1>3, <1>5, <1>8, <1>9, <1>10, <1>11, <1>12, <1>13, StepPreserves
-----------------------------------------------------------------------------
(* A handler, or the kernel that takes an answer, changes the counts of    *)
(* the one inode of its command.                                           *)
LEMMA MovePreserves ==
  ASSUME IInv, NEW c \in Chans, NEW op \in Ops, NEW x,
         chan[c].op # "none",
         x = (IF op = "none" THEN 0 ELSE chan[c].z),
         chan' = [chan EXCEPT ![c] = Cmd(op, x, chan[c].pigy)],
         chan[c].op \in Last => chan[c].pigy = NoPuts,
         vec' = vec, kputs' = kputs, disk' \subseteq Zis, bad' \subseteq {"null_free"},
         zii' \in [Zis -> Nat], kin' \in [Zis -> Nat], gets' \in [Zis -> Int],
         kout' \in [Zis -> Nat],
         NEW z \in Zis, z = chan[c].z,
         \A y \in Zis \ {z} : /\ zii'[y] = zii[y] /\ kin'[y] = kin[y]
                              /\ gets'[y] = gets[y] /\ kout'[y] = kout[y],
         gets'[z] - gets[z] = (kout'[z] - kout[z])
           + (IF op \in {"put", "gotblk"} THEN 1 ELSE 0)
           - (IF chan[c].op \in {"put", "gotblk"} THEN 1 ELSE 0),
         zii'[z] - zii[z] >= (kin'[z] - kin[z])
           + (IF op \in Carrying THEN 1 ELSE 0) - (IF chan[c].op \in Carrying THEN 1 ELSE 0),
         Balanced => zii'[z] - zii[z] = (kin'[z] - kin[z])
           + (IF op \in Carrying THEN 1 ELSE 0) - (IF chan[c].op \in Carrying THEN 1 ELSE 0),
         kin'[z] >= kin[z],
         op \in Using => kin'[z] > 0,
         kout'[z] > kout[z] => kin'[z] > 0
  PROVE  IInv'
  <1> DEFINE cmd == Cmd(op, x, chan[c].pigy)
  <1>1. /\ chan[c] \in Cmds /\ chan[c].pigy \in Puts
        /\ \A y \in Zis : chan[c].pigy[y] \in Nat
    BY CmdAssumption DEF IInv, Typed, Cmds, Puts
  <1>2. /\ kout \in [Zis -> Nat] /\ kputs \in [Zis -> Nat] /\ gets \in [Zis -> Int]
        /\ zii \in [Zis -> Nat] /\ kin \in [Zis -> Nat]
    BY DEF IInv, Typed, CmdTypeOK
  <1>3. /\ cmd \in Cmds /\ cmd.op = op /\ cmd.z = x /\ cmd.pigy = chan[c].pigy
        /\ (cmd.z \in Zis <=> cmd.op # "none")
    BY <1>1, CmdAssumption DEF Cmd, Cmds
  <1>4. chan' = [chan EXCEPT ![c] = cmd]
    OBVIOUS
  <1> HIDE DEF cmd
  <1>5. \A d \in Chans : chan'[d] = IF d = c THEN cmd ELSE chan[d]
    BY <1>4 DEF IInv, Typed
  <1>6. op = "none" => op \notin Carrying /\ op \notin {"put", "gotblk"}
    BY OpKinds
  <1>7. ASSUME NEW y \in Zis
        PROVE  gets'[y] - gets[y] = (kout'[y] - kout[y]) + (kputs'[y] - kputs[y])
                                      + RideW(cmd, y) - RideW(chan[c], y)
    <2>4. /\ gets[y] \in Int /\ kout[y] \in Int /\ kputs[y] \in Int /\ chan[c].pigy[y] \in Int
          /\ gets'[y] \in Int /\ kout'[y] \in Int /\ kputs'[y] = kputs[y]
      BY <1>1, <1>2
    <2>1. CASE y = z
      <3>1. RideW(cmd, y) = chan[c].pigy[y] + (IF op \in {"put", "gotblk"} THEN 1 ELSE 0)
        BY <1>3, <1>6, <2>1 DEF RideW
      <3>2. RideW(chan[c], y) =
              chan[c].pigy[y] + (IF chan[c].op \in {"put", "gotblk"} THEN 1 ELSE 0)
        BY <2>1 DEF RideW
      <3>3. gets'[y] - gets[y] = (kout'[y] - kout[y])
              + (IF op \in {"put", "gotblk"} THEN 1 ELSE 0)
              - (IF chan[c].op \in {"put", "gotblk"} THEN 1 ELSE 0)
        BY <2>1
      <3>4. QED
        BY <2>4, <3>1, <3>2, <3>3
    <2>2. CASE y # z
      <3>1. RideW(cmd, y) = chan[c].pigy[y] /\ RideW(chan[c], y) = chan[c].pigy[y]
        BY <1>1, <1>3, <1>6, <2>2 DEF RideW
      <3>2. gets'[y] = gets[y] /\ kout'[y] = kout[y]
        BY <2>2
      <3>3. QED
        BY <2>4, <3>1, <3>2
    <2>3. QED
      BY <2>1, <2>2
  <1>8. ASSUME NEW y \in Zis
        PROVE  /\ zii'[y] - zii[y] >= (kin'[y] - kin[y]) + CarryW(cmd, y) - CarryW(chan[c], y)
               /\ Balanced =>
                    zii'[y] - zii[y] = (kin'[y] - kin[y]) + CarryW(cmd, y) - CarryW(chan[c], y)
    <2>1. CASE y = z
      <3>1. /\ CarryW(cmd, y) = (IF op \in Carrying THEN 1 ELSE 0)
            /\ CarryW(chan[c], y) = (IF chan[c].op \in Carrying THEN 1 ELSE 0)
        BY <1>3, <1>6, <2>1 DEF CarryW
      <3>2. QED
        BY <2>1, <3>1
    <2>2. CASE y # z
      <3>1. CarryW(cmd, y) = 0 /\ CarryW(chan[c], y) = 0
        BY <1>3, <1>6, <2>2 DEF CarryW
      <3>2. QED
        BY <1>2, <2>2, <3>1
    <2>3. QED
      BY <2>1, <2>2
  <1>9. \A y \in Zis : kin[y] > 0 => kin'[y] > 0
    BY <1>2
  <1>10. Known'
    <2>1. ASSUME NEW d \in Chans, chan'[d].op \in Using
          PROVE  kin'[chan'[d].z] > 0
      <3>1. CASE d = c
        BY <1>3, <1>5, <2>1, <3>1, OpKinds
      <3>2. CASE d # c
        <4>1. chan'[d] = chan[d] /\ chan[d].op \in Using
          BY <1>5, <2>1, <3>2
        <4>2. chan[d].z \in Zis /\ kin[chan[d].z] > 0
          BY <4>1, OpKinds DEF IInv, Typed, Known
        <4>3. QED
          BY <1>9, <4>1, <4>2
      <3>3. QED
        BY <3>1, <3>2
    <2>2. ASSUME NEW d \in Chans, NEW y \in Zis, chan'[d].pigy[y] > 0
          PROVE  kin'[y] > 0 \/ (chan'[d].op \in Last /\ chan'[d].z = y)
      <3>1. chan'[d].pigy = chan[d].pigy
        BY <1>3, <1>5
      <3>2. kin[y] > 0 \/ (chan[d].op \in Last /\ chan[d].z = y)
        BY <2>2, <3>1 DEF IInv, Known
      <3>3. CASE d = c
        <4>1. chan[c].op \notin Last
          BY <2>2, <3>1, <3>3 DEF NoPuts
        <4>2. QED
          BY <1>9, <3>2, <3>3, <4>1
      <3>4. CASE d # c
        BY <1>5, <1>9, <3>2, <3>4
      <3>5. QED
        BY <3>3, <3>4
    <2>3. ASSUME NEW y \in Zis, kout'[y] > 0 \/ kputs'[y] > 0
          PROVE  kin'[y] > 0
      <3>1. \/ kout[y] > 0 \/ kputs[y] > 0
            \/ (y = z /\ kout'[z] > kout[z])
        BY <1>2, <2>3
      <3>2. QED
        BY <1>9, <3>1 DEF IInv, Known
    <2>4. QED
      BY <2>1, <2>2, <2>3 DEF Known
  <1>11. kputs' \in [Zis -> Nat]
    BY <1>2
  <1>12. QED
    BY <1>3, <1>4, <1>7, <1>8, <1>10, <1>11, StepPreserves

(* A handler runs for an inode once its puts are done.                     *)
LEMMA AtOpFacts ==
  ASSUME IInv, NEW c \in Chans, NEW ops, "none" \notin ops, AtOp(c, ops)
  PROVE  /\ chan[c].z \in Zis /\ chan[c].op \in ops /\ chan[c].op # "none"
         /\ chan[c].pigy = NoPuts
         /\ chan[c].op \in Using => kin[chan[c].z] > 0
  BY DEF IInv, Typed, Known, AtOp

(* The handlers of a creation.                                             *)
LEMMA CreatePreserves ==
  ASSUME IInv, NEW c \in Chans, NewInode(c) \/ NameNew(c) \/ FreeUnnamed(c) \/ Lookup(c)
  PROVE  IInv'
  <1>1. /\ kout \in [Zis -> Nat] /\ kputs \in [Zis -> Nat] /\ gets \in [Zis -> Int]
        /\ zii \in [Zis -> Nat] /\ kin \in [Zis -> Nat] /\ disk \subseteq Zis
        /\ bad \subseteq {"null_free"}
    BY DEF IInv, Typed, CmdTypeOK
  <1>2. "none" \in Ops /\ "got" \in Ops /\ "name" \in Ops /\ "unname" \in Ops
    BY DEF Ops, Carrying
  <1>3. CASE NewInode(c) \/ Lookup(c)
    <2> DEFINE ops == {"new_inode", "tmpfile", "lookup"}
    <2>1. AtOp(c, ops) /\ "none" \notin ops
      BY <1>3 DEF NewInode, Lookup, AtOp
    <2>2. PICK z \in Zis : z = chan[c].z
      BY <2>1, AtOpFacts
    <2>3. /\ chan[c].op # "none" /\ chan[c].op \notin Carrying
          /\ chan[c].op \notin {"put", "gotblk"} /\ chan[c].op \notin Last
      BY <2>1, AtOpFacts, OpKinds DEF Carrying, Last
    <2>4. UNCHANGED <<vec, disk, gets, kin, kout, kputs>>
      BY <1>3 DEF NewInode, Lookup, kernVars
    <2>5. bad' \subseteq {"null_free"}
      <3>1. "null" \notin CallNow("new_inode") \cup CallNow("lookup") \cup CallNow("iget")
        BY CallsSafe DEF IInv
      <3>2. QED
        BY <1>1, <1>3, <3>1 DEF NewInode, Lookup
    <2>6. \/ Answer(c) /\ zii' = zii
          \/ \E op \in {"got", "name"} : Then(c, op) /\ zii' = [zii EXCEPT ![z] = @ + 1]
      BY <1>3, <2>2 DEF NewInode, Lookup
    <2>7. CASE Answer(c) /\ zii' = zii
      <3>1. chan' = [chan EXCEPT ![c] = Cmd("none", 0, chan[c].pigy)]
        BY <2>7 DEF Answer
      <3>2. "none" \notin Carrying /\ "none" \notin Using
        BY OpKinds
      <3>3. /\ gets'[z] - gets[z] = (kout'[z] - kout[z]) + 0 - 0
            /\ zii'[z] - zii[z] = (kin'[z] - kin[z]) + 0 - 0
            /\ zii'[z] - zii[z] >= (kin'[z] - kin[z]) + 0 - 0
            /\ kin'[z] >= kin[z] /\ ~(kout'[z] > kout[z])
        BY <1>1, <2>4, <2>7
      <3>4. QED
        BY <1>1, <1>2, <2>2, <2>3, <2>4, <2>5, <2>7, <3>1, <3>2, <3>3, MovePreserves
    <2>8. ASSUME NEW op \in {"got", "name"}, Then(c, op), zii' = [zii EXCEPT ![z] = @ + 1]
          PROVE  IInv'
      <3>1. chan' = [chan EXCEPT ![c] = Cmd(op, chan[c].z, chan[c].pigy)]
        BY <2>8 DEF Then
      <3>2. op \in Carrying /\ op \notin Using /\ op # "none" /\ op \in Ops
            /\ op \notin {"put", "gotblk"}
        BY <1>2, OpKinds DEF Carrying
      <3>3. /\ gets'[z] - gets[z] = (kout'[z] - kout[z]) + 0 - 0
            /\ zii'[z] - zii[z] = (kin'[z] - kin[z]) + 1 - 0
            /\ zii'[z] - zii[z] >= (kin'[z] - kin[z]) + 1 - 0
            /\ kin'[z] >= kin[z] /\ ~(kout'[z] > kout[z])
        BY <1>1, <2>4, <2>8
      <3>4. zii' \in [Zis -> Nat] /\ \A y \in Zis \ {z} : zii'[y] = zii[y]
        BY <1>1, <2>8
      <3>5. QED
        BY <1>1, <2>2, <2>3, <2>4, <2>5, <3>1, <3>2, <3>3, <3>4, MovePreserves
    <2>9. QED
      BY <2>6, <2>7, <2>8
  <1>4. CASE NameNew(c)
    <2>1. AtOp(c, {"name"}) /\ chan[c].op = "name"
      BY <1>4 DEF NameNew, AtOp
    <2>2. PICK z \in Zis : z = chan[c].z
      BY <2>1, AtOpFacts
    <2>3. /\ chan[c].op # "none" /\ chan[c].op \in Carrying
          /\ chan[c].op \notin {"put", "gotblk"} /\ chan[c].op \notin Last
      BY <2>1 DEF Carrying, Last
    <2>4. UNCHANGED <<vec, zii, gets, kin, kout, kputs>>
      BY <1>4 DEF NameNew, kernVars
    <2>5. bad' \subseteq {"null_free"}
      <3>1. Touch(z, CallNow("add_dentry")) = {}
        BY <2>2, <2>3, CallsSafe, TouchesNothing DEF IInv
      <3>2. QED
        BY <1>1, <1>4, <2>2, <3>1 DEF NameNew
    <2>6. PICK op \in {"got", "unname"} : Then(c, op)
      BY <1>4 DEF NameNew
    <2>7. disk' \subseteq Zis
      BY <1>1, <1>4, <2>2 DEF NameNew
    <2>8. chan' = [chan EXCEPT ![c] = Cmd(op, chan[c].z, chan[c].pigy)]
      BY <2>6 DEF Then
    <2>9. op \in Carrying /\ op \notin Using /\ op # "none" /\ op \in Ops
          /\ op \notin {"put", "gotblk"}
      BY <1>2, OpKinds DEF Carrying
    <2>10. /\ gets'[z] - gets[z] = (kout'[z] - kout[z]) + 0 - 0
           /\ zii'[z] - zii[z] = (kin'[z] - kin[z]) + 1 - 1
           /\ zii'[z] - zii[z] >= (kin'[z] - kin[z]) + 1 - 1
           /\ kin'[z] >= kin[z] /\ ~(kout'[z] > kout[z])
      BY <1>1, <2>4
    <2>11. QED
      BY <1>1, <2>2, <2>3, <2>4, <2>5, <2>7, <2>8, <2>9, <2>10, MovePreserves
  <1>5. CASE FreeUnnamed(c)
    <2>1. AtOp(c, {"unname"}) /\ chan[c].op = "unname"
      BY <1>5 DEF FreeUnnamed, AtOp
    <2>2. PICK z \in Zis : z = chan[c].z
      BY <2>1, AtOpFacts
    <2>3. /\ chan[c].op # "none" /\ chan[c].op \in Carrying
          /\ chan[c].op \notin {"put", "gotblk"} /\ chan[c].op \notin Last
      BY <2>1 DEF Carrying, Last
    <2>4. UNCHANGED <<vec, disk, gets, kin, kout, kputs>>
      BY <1>5 DEF FreeUnnamed, kernVars
    <2>5. bad' \subseteq {"null_free"}
      <3>1. Touch(z, {}) = {}
        BY <2>2, <2>3, TouchesNothing
      <3>2. QED
        BY <1>1, <1>5, <2>2, <3>1 DEF FreeUnnamed
    <2>6. chan' = [chan EXCEPT ![c] = Cmd("none", 0, chan[c].pigy)]
      BY <1>5 DEF FreeUnnamed, Answer
    <2>7. "none" \notin Carrying /\ "none" \notin Using
      BY OpKinds
    <2>8. zii[z] > 0
      BY <2>2, <2>3, InUse
    <2>9. zii' = IF "free_inode" \in vec THEN [zii EXCEPT ![z] = @ - 1] ELSE zii
      BY <1>5, <2>2 DEF FreeUnnamed, Dropped
    <2>10. /\ gets'[z] - gets[z] = (kout'[z] - kout[z]) + 0 - 0
           /\ zii'[z] - zii[z] >= (kin'[z] - kin[z]) + 0 - 1
           /\ Balanced => zii'[z] - zii[z] = (kin'[z] - kin[z]) + 0 - 1
           /\ kin'[z] >= kin[z] /\ ~(kout'[z] > kout[z])
      BY <1>1, <2>4, <2>9 DEF Balanced
    <2>11. zii' \in [Zis -> Nat] /\ \A y \in Zis \ {z} : zii'[y] = zii[y]
      BY <1>1, <2>8, <2>9
    <2>12. QED
      BY <1>1, <1>2, <2>2, <2>3, <2>4, <2>5, <2>6, <2>7, <2>10, <2>11, MovePreserves
  <1>6. QED
    BY <1>3, <1>4, <1>5

(* A handle goes back.                                                     *)
LEMMA EvictPreserves ==
  ASSUME IInv, NEW c \in Chans, Evict(c)
  PROVE  IInv'
  <1> DEFINE ops == {"evict", "free_inode", "race_evict"}
             op == IF chan[c].op = "free_inode" THEN "free_inode" ELSE "evict"
  <1>1. /\ kout \in [Zis -> Nat] /\ kputs \in [Zis -> Nat] /\ gets \in [Zis -> Int]
        /\ zii \in [Zis -> Nat] /\ kin \in [Zis -> Nat] /\ disk \subseteq Zis
        /\ bad \subseteq {"null_free"}
    BY DEF IInv, Typed, CmdTypeOK
  <1>2. AtOp(c, ops) /\ "none" \notin ops /\ "none" \in Ops
    BY DEF Evict, Ops
  <1>3. PICK z \in Zis : z = chan[c].z
    BY <1>2, AtOpFacts
  <1>4. /\ chan[c].op \in ops /\ chan[c].op # "none" /\ chan[c].op \in Carrying
        /\ chan[c].op \notin {"put", "gotblk"} /\ chan[c].pigy = NoPuts
    BY <1>2, AtOpFacts DEF Carrying
  <1>5. UNCHANGED <<vec, disk, gets, kin, kout, kputs>>
    BY DEF Evict, kernVars
  <1>6. bad' \subseteq {"null_free"}
    <2>1. "null" \notin Call(op)
      BY CallsSafe DEF IInv
    <2>2. Touch(z, Call(op)) = {}
      BY <1>3, <1>4, <2>1, TouchesNothing
    <2>3. QED
      BY <1>1, <1>3, <2>2 DEF Evict
  <1>7. chan' = [chan EXCEPT ![c] = Cmd("none", 0, chan[c].pigy)]
    BY DEF Evict, Answer
  <1>8. "none" \notin Carrying /\ "none" \notin Using
    BY OpKinds
  <1>9. zii[z] > 0
    BY <1>3, <1>4, InUse
  <1>10. zii' = IF op \in vec THEN [zii EXCEPT ![z] = @ - 1] ELSE zii
    BY <1>3 DEF Evict, Dropped
  <1>11. Balanced => op \in vec
    BY DEF Balanced
  <1> HIDE DEF ops, op
  <1>12. /\ gets'[z] - gets[z] = (kout'[z] - kout[z]) + 0 - 0
         /\ zii'[z] - zii[z] >= (kin'[z] - kin[z]) + 0 - 1
         /\ Balanced => zii'[z] - zii[z] = (kin'[z] - kin[z]) + 0 - 1
         /\ kin'[z] >= kin[z] /\ ~(kout'[z] > kout[z])
    BY <1>1, <1>5, <1>10, <1>11
  <1>13. zii' \in [Zis -> Nat] /\ \A y \in Zis \ {z} : zii'[y] = zii[y]
    BY <1>1, <1>9, <1>10
  <1>14. QED
    BY <1>1, <1>2, <1>3, <1>4, <1>5, <1>6, <1>7, <1>8, <1>12, <1>13, MovePreserves

(* Gets, puts, names and the operations that change nothing here.          *)
LEMMA UsePreserves ==
  ASSUME IInv, NEW c \in Chans, GetPut(c) \/ Dentry(c) \/ PlainOp(c)
  PROVE  IInv'
  <1> DEFINE ops == {"get", "put", "add_dentry", "remove_dentry"} \cup Plain
             w(o) == IF o \in {"put", "gotblk"} THEN 1 ELSE 0
  <1>1. /\ kout \in [Zis -> Nat] /\ kputs \in [Zis -> Nat] /\ gets \in [Zis -> Int]
        /\ zii \in [Zis -> Nat] /\ kin \in [Zis -> Nat] /\ disk \subseteq Zis
        /\ bad \subseteq {"null_free"}
    BY DEF IInv, Typed, CmdTypeOK
  <1>2. AtOp(c, ops) /\ "none" \notin ops /\ "none" \in Ops /\ "gotblk" \in Ops
        /\ ops \subseteq Using
    BY OpKinds DEF GetPut, Dentry, PlainOp, AtOp, Ops, Using
  <1>3. PICK z \in Zis : z = chan[c].z
    BY <1>2, AtOpFacts
  <1>4. /\ chan[c].op # "none" /\ chan[c].op \notin Carrying /\ chan[c].op \notin Last
        /\ kin[z] > 0
    BY <1>2, <1>3, AtOpFacts, OpKinds
  <1>5. UNCHANGED <<vec, zii, kin, kout, kputs>>
    BY DEF GetPut, Dentry, PlainOp, kernVars
  <1>6. bad' \subseteq {"null_free"}
    <2>1. CASE GetPut(c)
      <3>1. Touch(z, Call("get_put_multy")) = {}
        BY <1>4, CallsSafe, TouchesNothing DEF IInv
      <3>2. QED
        BY <1>1, <1>3, <2>1, <3>1 DEF GetPut
    <2>2. CASE Dentry(c)
      <3>1. Touch(z, CallNow(chan[c].op)) = {}
        BY <1>4, <2>2, CallsSafe, TouchesNothing DEF IInv, Dentry, AtOp
      <3>2. QED
        BY <1>1, <1>3, <2>2, <3>1 DEF Dentry
    <2>3. CASE PlainOp(c)
      <3>1. Touch(z, Call(chan[c].op)) = {}
        BY <1>4, <2>3, CallsSafe, TouchesNothing DEF IInv, PlainOp, AtOp
      <3>2. QED
        BY <1>1, <1>3, <2>3, <3>1 DEF PlainOp
    <2>4. QED
      BY <2>1, <2>2, <2>3
  <1>7. disk' \subseteq Zis
    BY <1>1, <1>3 DEF GetPut, Dentry, PlainOp
  <1>8. PICK op \in {"none", "gotblk"} :
          /\ chan' = [chan EXCEPT ![c] = Cmd(op, IF op = "none" THEN 0 ELSE z, chan[c].pigy)]
          /\ gets' \in [Zis -> Int]
          /\ gets'[z] - gets[z] = w(op) - w(chan[c].op)
          /\ \A y \in Zis \ {z} : gets'[y] = gets[y]
    <2>1. CASE GetPut(c)
      <3>1. chan[c].op \in {"get", "put"}
        BY <2>1 DEF GetPut, AtOp
      <3>2. \/ chan[c].op = "get" /\ gets' = [gets EXCEPT ![z] = @ + 1] /\ Then(c, "gotblk")
            \/ chan[c].op = "get" /\ gets' = gets /\ Answer(c)
            \/ chan[c].op = "put" /\ gets' = [gets EXCEPT ![z] = @ - 1] /\ Answer(c)
        BY <1>3, <2>1 DEF GetPut
      <3>3. CASE chan[c].op = "get" /\ gets' = [gets EXCEPT ![z] = @ + 1] /\ Then(c, "gotblk")
        <4>1. chan' = [chan EXCEPT ![c] = Cmd("gotblk", z, chan[c].pigy)]
          BY <1>3, <3>3 DEF Then
        <4>2. /\ gets' \in [Zis -> Int] /\ gets'[z] - gets[z] = w("gotblk") - w(chan[c].op)
              /\ \A y \in Zis \ {z} : gets'[y] = gets[y]
          BY <1>1, <3>3
        <4>3. QED
          BY <4>1, <4>2
      <3>4. CASE chan[c].op = "get" /\ gets' = gets /\ Answer(c)
        <4>1. chan' = [chan EXCEPT ![c] = Cmd("none", 0, chan[c].pigy)]
          BY <3>4 DEF Answer
        <4>2. /\ gets' \in [Zis -> Int] /\ gets'[z] - gets[z] = w("none") - w(chan[c].op)
              /\ \A y \in Zis \ {z} : gets'[y] = gets[y]
          BY <1>1, <3>4
        <4>3. QED
          BY <4>1, <4>2
      <3>5. CASE chan[c].op = "put" /\ gets' = [gets EXCEPT ![z] = @ - 1] /\ Answer(c)
        <4>1. chan' = [chan EXCEPT ![c] = Cmd("none", 0, chan[c].pigy)]
          BY <3>5 DEF Answer
        <4>2. /\ gets' \in [Zis -> Int] /\ gets'[z] - gets[z] = w("none") - w(chan[c].op)
              /\ \A y \in Zis \ {z} : gets'[y] = gets[y]
          BY <1>1, <3>5
        <4>3. QED
          BY <4>1, <4>2
      <3>6. QED
        BY <3>2, <3>3, <3>4, <3>5
    <2>2. CASE Dentry(c) \/ PlainOp(c)
      <3>1. chan[c].op \notin {"put", "gotblk"} /\ gets' = gets /\ Answer(c)
        BY <2>2, OpKinds DEF Dentry, PlainOp, AtOp
      <3>2. chan' = [chan EXCEPT ![c] = Cmd("none", 0, chan[c].pigy)]
        BY <3>1 DEF Answer
      <3>3. /\ gets' \in [Zis -> Int] /\ gets'[z] - gets[z] = w("none") - w(chan[c].op)
            /\ \A y \in Zis \ {z} : gets'[y] = gets[y]
        BY <1>1, <3>1
      <3>4. QED
        BY <3>2, <3>3
    <2>3. QED
      BY <2>1, <2>2
  <1>9. op \notin Carrying /\ op \in Ops
    BY <1>2, OpKinds DEF Carrying
  <1>10. /\ gets'[z] - gets[z] = (kout'[z] - kout[z]) + w(op) - w(chan[c].op)
         /\ zii'[z] - zii[z] = (kin'[z] - kin[z]) + 0 - 0
         /\ zii'[z] - zii[z] >= (kin'[z] - kin[z]) + 0 - 0
         /\ kin'[z] >= kin[z] /\ ~(kout'[z] > kout[z]) /\ kin'[z] > 0
    BY <1>1, <1>4, <1>5, <1>8
  <1> DEFINE x == IF op = "none" THEN 0 ELSE chan[c].z
  <1>11. chan' = [chan EXCEPT ![c] = Cmd(op, x, chan[c].pigy)]
    BY <1>3, <1>8
  <1>12. QED
    BY <1>1, <1>3, <1>4, <1>5, <1>6, <1>7, <1>8, <1>9, <1>10, <1>11, MovePreserves

(* The kernel takes an answer.                                             *)
LEMMA TakePreserves ==
  ASSUME IInv, NEW c \in Chans, KTake(c)
  PROVE  IInv'
  <1>1. /\ kout \in [Zis -> Nat] /\ kputs \in [Zis -> Nat] /\ gets \in [Zis -> Int]
        /\ zii \in [Zis -> Nat] /\ kin \in [Zis -> Nat] /\ disk \subseteq Zis
        /\ bad \subseteq {"null_free"}
    BY DEF IInv, Typed, CmdTypeOK
  <1>2. /\ chan[c].op \in {"got", "gotblk"} /\ chan[c].op # "none" /\ chan[c].op \notin Last
        /\ chan[c].op = "gotblk" => chan[c].op \in Using /\ chan[c].op \notin Carrying
        /\ chan[c].op = "got" => chan[c].op \in Carrying
    BY OpKinds DEF KTake, Last, Using, Carrying
  <1>3. PICK z \in Zis : z = chan[c].z
    BY <1>2 DEF IInv, Typed
  <1>4. /\ UNCHANGED <<vec, zii, disk, gets, kputs, bad>>
        /\ chan' = [chan EXCEPT ![c] = Cmd("none", 0, chan[c].pigy)]
    BY DEF KTake
  <1>5. "none" \notin Carrying /\ "none" \notin Using /\ "none" \in Ops
    BY OpKinds DEF Ops
  <1>6. CASE chan[c].op = "got"
    <2>1. kin' = [kin EXCEPT ![z] = @ + 1] /\ kout' = kout
      BY <1>3, <1>6 DEF KTake
    <2>2. /\ kin' \in [Zis -> Nat] /\ \A y \in Zis \ {z} : kin'[y] = kin[y]
          /\ gets'[z] - gets[z] = (kout'[z] - kout[z]) + 0 - 0
          /\ zii'[z] - zii[z] = (kin'[z] - kin[z]) + 0 - 1
          /\ zii'[z] - zii[z] >= (kin'[z] - kin[z]) + 0 - 1
          /\ kin'[z] >= kin[z] /\ ~(kout'[z] > kout[z])
      BY <1>1, <1>4, <2>1
    <2>3. QED
      BY <1>1, <1>2, <1>3, <1>4, <1>5, <1>6, <2>1, <2>2, MovePreserves
  <1>7. CASE chan[c].op = "gotblk"
    <2>1. kout' = [kout EXCEPT ![z] = @ + 1] /\ kin' = kin
      BY <1>3, <1>7 DEF KTake
    <2>2. kin[z] > 0
      BY <1>2, <1>3, <1>7 DEF IInv, Known
    <2>3. /\ kout' \in [Zis -> Nat] /\ \A y \in Zis \ {z} : kout'[y] = kout[y]
          /\ gets'[z] - gets[z] = (kout'[z] - kout[z]) + 0 - 1
          /\ zii'[z] - zii[z] = (kin'[z] - kin[z]) + 0 - 0
          /\ zii'[z] - zii[z] >= (kin'[z] - kin[z]) + 0 - 0
          /\ kin'[z] >= kin[z] /\ kin'[z] > 0
      BY <1>1, <1>4, <2>1, <2>2
    <2>4. QED
      BY <1>1, <1>2, <1>3, <1>4, <1>5, <1>7, <2>1, <2>3, MovePreserves
  <1>8. QED
    BY <1>2, <1>6, <1>7
-----------------------------------------------------------------------------
(* The file system is mounted and the kernel knows nothing of it yet.      *)
LEMMA InitIInv == CmdInit => IInv
  <1> SUFFICES ASSUME CmdInit PROVE IInv
    OBVIOUS
  <1>1. NoCmd \in Cmds /\ NoCmd.op = "none" /\ NoCmd.z \notin Zis /\ NoCmd.pigy = NoPuts
    BY CmdAssumption DEF NoCmd, Cmd, Cmds, NoPuts, Puts, Ops
  <1>2. chan \in [Chans -> Cmds] /\ \A c \in Chans : chan[c] = NoCmd
    BY <1>1 DEF CmdInit
  <1>3. Typed
    <2>1. \A c \in Chans : chan[c].pigy \in [Zis -> 0 .. MaxGets]
      BY <1>2 DEF Cmds, Puts
    <2>2. /\ kout \in [Zis -> Nat] /\ kputs \in [Zis -> Nat] /\ gets \in [Zis -> Int]
          /\ zii \in [Zis -> Nat] /\ kin \in [Zis -> Nat]
      BY DEF CmdInit, NoPuts
    <2>3. QED
      BY <1>1, <1>2, <2>1, <2>2 DEF CmdInit, Typed, CmdTypeOK
  <1>4. Known
    BY <1>1, <1>2, OpKinds DEF CmdInit, Known, NoPuts
  <1>5. CmdGetsBalanced
    <2>1. ASSUME NEW z \in Zis PROVE Riding(z) = {}
      <3>1. \A p \in Chans \X (0 .. MaxGets) : p[1] \in Chans /\ p[2] \in Nat
        BY CmdAssumption
      <3>2. QED
        BY <1>1, <1>2, <3>1 DEF Riding, NoPuts
    <2>2. QED
      BY <2>1, FS_EmptySet DEF CmdInit, CmdGetsBalanced, NoPuts
  <1>6. CmdInodesMatch
    <2>1. ASSUME NEW z \in Zis PROVE Carriers(z) = {}
      BY <1>1, <1>2, OpKinds DEF Carriers
    <2>2. QED
      BY <2>1, FS_EmptySet DEF CmdInit, CmdInodesMatch, Handles
  <1>7. QED
    BY <1>3, <1>4, <1>5, <1>6 DEF IInv, CmdInit

(* The inductive invariant holds whatever the kernel sends and in whatever *)
(* order the ZTs come to it.                                               *)
THEOREM DispatchInductive == CmdSpec => []IInv
  <1>1. IInv /\ [CmdNext]_cmdVars => IInv'
    <2> SUFFICES ASSUME IInv, [CmdNext]_cmdVars PROVE IInv'
      OBVIOUS
    <2>1. ASSUME NEW c \in Chans, NEW z \in Zis,
                 \/ KNew(c, z) \/ KLookup(c, z) \/ KUse(c, z) \/ KPutCmd(c, z)
                 \/ KRace(c, z) \/ KLeave(c, z) \/ PigyPut(c, z)
          PROVE  IInv'
      BY <2>1, KernelPreserves, PutCmdPreserves, PigyPreserves
    <2>2. ASSUME NEW z \in Zis, KPut(z)
          PROVE  IInv'
      BY <2>2, PutPreserves
    <2>3. ASSUME NEW c \in Chans,
                 \/ KTake(c) \/ NewInode(c) \/ NameNew(c) \/ FreeUnnamed(c) \/ Lookup(c)
                 \/ Evict(c) \/ GetPut(c) \/ Dentry(c) \/ PlainOp(c)
          PROVE  IInv'
      BY <2>3, TakePreserves, CreatePreserves, EvictPreserves, UsePreserves
    <2>4. CASE UNCHANGED cmdVars
      <3>1. UNCHANGED <<vec, zii, disk, gets, kin, kout, kputs, chan, bad>>
        BY <2>4 DEF cmdVars, kernVars
      <3>2. Typed' /\ Known'
        BY <3>1 DEF IInv, Typed, CmdTypeOK, Known
      <3>3. CmdGetsBalanced' /\ CmdInodesMatch'
        BY <3>1 DEF IInv, CmdGetsBalanced, CmdInodesMatch, Riding, Handles, Carriers
      <3>4. QED
        BY <3>1, <3>2, <3>3 DEF IInv
    <2>5. QED
      BY <2>1, <2>2, <2>3, <2>4 DEF CmdNext
  <1>2. QED
    BY <1>1, InitIInv, PTL DEF CmdSpec

(* No operation is called for an inode whose last handle went back, on any *)
(* number of ZTs (zus_do_command, _evict).                                 *)
THEOREM DispatchUsesLive == CmdSpec => []CmdNoUseAfterEvict
  <1>1. IInv => CmdNoUseAfterEvict
    BY DEF IInv, Typed, CmdNoUseAfterEvict
  <1>2. QED
    BY <1>1, DispatchInductive, PTL

(* No operation is called that the vector does not have, but for the       *)
(* free_inode of a creation that got no name (_new_inode).                 *)
THEOREM DispatchCallsPresent == CmdSpec => []CmdNoNullCall
  <1>1. IInv => CmdNoNullCall
    BY DEF IInv, CmdNoNullCall
  <1>2. QED
    BY <1>1, DispatchInductive, PTL

(* Every get is put once, whichever way its put travels (_some_pigy_put,   *)
(* _get_put_multy).                                                        *)
THEOREM DispatchGetsBalanced == CmdSpec => []CmdGetsBalanced
  <1>1. IInv => CmdGetsBalanced
    BY DEF IInv
  <1>2. QED
    BY <1>1, DispatchInductive, PTL

(* Handles are given and taken back in step, also when lookups race        *)
(* (_lookup, _new_inode, _evict).                                          *)
THEOREM DispatchHandlesMatch == CmdSpec => []CmdInodesMatch
  <1>1. IInv => CmdInodesMatch
    BY DEF IInv
  <1>2. QED
    BY <1>1, DispatchInductive, PTL

(* Every call of a handler finds its operation and its inode, but for the  *)
(* free_inode of _new_inode (zus_do_command).                              *)
THEOREM DispatchCallsSafe == CmdSpec => []CmdCallsSafe
  BY DispatchUsesLive, DispatchCallsPresent, PTL DEF CmdCallsSafe
=============================================================================
