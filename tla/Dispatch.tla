------------------------------ MODULE Dispatch ------------------------------
(***************************************************************************)
(* The commands of the kernel (zus_do_command of zus-vfs.c and its         *)
(* handlers): the puts that ride on a command and the command itself, on   *)
(* several ZTs at once, with the operations a file system may leave out of *)
(* its vectors.                                                            *)
(*                                                                         *)
(* Abstractions.  A file system counts the handles (zus_inode_info) of an  *)
(* inode it has given out and not taken back, and the gets of its blocks;  *)
(* every operation it has may fail.  A handler is one step, but for the    *)
(* three calls of a creation, and so is each put that rides on its         *)
(* command; the order of these puts is left open.  Names: one for each     *)
(* inode that is on disk.  After a call of a missing operation, which ends *)
(* the process, the model goes on.                                         *)
(* External: the kernel.  It has a handle once it took the answer of a     *)
(* lookup or of a creation; lookups of one inode may run side by side, and *)
(* a handle too many goes back with an eviction of its own.  The last one  *)
(* goes when nothing else uses the inode and its gets are put, or will be  *)
(* by the puts that ride on the eviction.  Only puts ride.                 *)
(***************************************************************************)
EXTENDS Integers, FiniteSets

CONSTANTS
  Zis,        \* inodes
  Chans,      \* ZTs
  Vectors,    \* the sets of operations that file systems have
  MaxGets,    \* bound: gets of one inode
  MaxHandles, \* bound: with so many handles of an inode given, iget fails
  Sent        \* bound: the plain operations that are sent

(* The operations a handler looks for before it calls them, with its       *)
(* answer when there is none.                                              *)
Missing ==
  [rename |-> "ENOTSUP", readdir |-> "ENOTSUP", clone |-> "ENOTSUP",
   pre_read |-> "ENOTSUP", fallocate |-> "ENOTSUP", seek |-> "ENOTSUP",
   getxattr |-> "ENOTSUP", setxattr |-> "ENOTSUP", listxattr |-> "ENOTSUP",
   statfs |-> "ENOTSUP", fiemap |-> "ENOTSUP", ioctl |-> "ENOTTY",
   get_put_multy |-> "EIO",
   mmap_close |-> "ok", setattr |-> "ok", sync |-> "ok", show_options |-> "ok",
   evict |-> "ok", free_inode |-> "ok"]

(* The operations every file system has.                                   *)
Required == {"new_inode", "add_dentry", "remove_dentry", "lookup", "iget", "read", "write"}

(* Operations of an inode in use that leave alone what is modelled.        *)
Plain == (DOMAIN Missing \ {"get_put_multy", "evict", "free_inode"}) \cup {"read", "write"}

(* Commands with a handle that is on its way to the kernel or from it.     *)
Carrying == {"name", "unname", "got", "evict", "free_inode", "race_evict"}

ASSUME CmdAssumption ==
  /\ \A v \in Vectors : Required \subseteq v
  /\ MaxGets \in Nat \ {0} /\ MaxHandles \in Nat
  /\ Sent \subseteq Plain
  /\ 0 \notin Zis
  /\ IsFiniteSet(Chans)

VARIABLES
  vec,      \* the operations of the mounted file system
  zii,      \* zii[z]: the handles of z it has given and not taken back
  disk,     \* the inodes that have a name
  gets,     \* gets[z]: gets of blocks of z it has counted
  kin,      \* external: kin[z]: the handles of z the kernel has
  kout,     \* external: kout[z]: the gets of z it holds
  kputs,    \* external: kputs[z]: the puts of z that wait for a command
  chan,     \* chan[c]: the command on ZT c, or its answer, and the puts that ride on it
  bad       \* uses of a freed inode and calls of a missing operation, that of free_inode
            \* for an inode without a name apart

kernVars == <<kin, kout, kputs>>
cmdVars == <<vec, zii, disk, gets, kernVars, chan, bad>>

NoPuts == [z \in Zis |-> 0]
Cmd(op, z, puts) == [op |-> op, z |-> z, pigy |-> puts]
NoCmd == Cmd("none", 0, NoPuts)

CmdTypeOK ==
  /\ zii \in [Zis -> Nat] /\ disk \subseteq Zis
  /\ gets \in [Zis -> Int]
  /\ kin \in [Zis -> Nat] /\ kout \in [Zis -> Nat] /\ kputs \in [Zis -> Nat]
  /\ \A c \in Chans : chan[c].pigy \in [Zis -> 0 .. MaxGets]
  /\ bad \subseteq {"freed", "null", "null_free"}

CmdInit ==
  /\ vec \in Vectors
  /\ zii = [z \in Zis |-> 0] /\ disk = {}
  /\ gets = [z \in Zis |-> 0]
  /\ kin = [z \in Zis |-> 0] /\ kout = [z \in Zis |-> 0] /\ kputs = NoPuts
  /\ chan = [c \in Chans |-> NoCmd]
  /\ bad = {}
-----------------------------------------------------------------------------
(* External: the kernel.                                                   *)

Uses(c, z) == chan[c].z = z \/ chan[c].pigy[z] > 0

(* Some of the puts that wait ride on a command, all of z's on its last    *)
(* eviction.                                                               *)
Riders(must) ==
  {f \in [Zis -> 0 .. MaxGets] :
     \A z \in Zis : f[z] <= kputs[z] /\ (z \in must => f[z] = kputs[z])}

KSend(c, op, z, must) ==
  /\ chan[c] = NoCmd
  /\ \E f \in Riders(must) :
       /\ chan' = [chan EXCEPT ![c] = Cmd(op, z, f)]
       /\ kputs' = [y \in Zis |-> kputs[y] - f[y]]
  /\ UNCHANGED <<vec, zii, disk, gets, kout, bad>>

(* The file system gives a new file an inode that is not in use.           *)
KNew(c, z) ==
  /\ zii[z] = 0 /\ kin[z] = 0 /\ z \notin disk
  /\ \A d \in Chans : ~Uses(d, z)
  /\ \E op \in {"new_inode", "tmpfile"} : KSend(c, op, z, {})
  /\ kin' = kin

KLookup(c, z) ==
  /\ KSend(c, "lookup", z, {})
  /\ kin' = kin

(* A get, or another operation of an inode the kernel has.                 *)
KUse(c, z) ==
  /\ kin[z] > 0
  /\ \E op \in Sent \cup {"get", "add_dentry", "remove_dentry"} :
       /\ op = "get" => gets[z] < MaxGets
       /\ op = "remove_dentry" => z \in disk
       /\ op \in {"add_dentry", "remove_dentry"} =>
            \A d \in Chans : chan[d].op \in {"add_dentry", "remove_dentry"} => chan[d].z # z
       /\ KSend(c, op, z, {})
  /\ kin' = kin

(* A lookup that found the inode in the kernel's cache after all.          *)
KRace(c, z) ==
  /\ kin[z] > 1
  /\ KSend(c, "race_evict", z, {})
  /\ kin' = [kin EXCEPT ![z] = @ - 1]

KLeave(c, z) ==
  /\ kin[z] = 1 /\ kout[z] = 0
  /\ \A d \in Chans : ~Uses(d, z)
  /\ KSend(c, IF z \in disk THEN "evict" ELSE "free_inode", z, {z})
  /\ kin' = [kin EXCEPT ![z] = @ - 1]

(* The kernel is done with a get.  The put waits for a command to ride on. *)
KPut(z) ==
  /\ kout[z] > 0
  /\ kout' = [kout EXCEPT ![z] = @ - 1]
  /\ kputs' = [kputs EXCEPT ![z] = @ + 1]
  /\ UNCHANGED <<vec, zii, disk, gets, kin, chan, bad>>

(* Or goes out as a command of its own.                                    *)
KPutCmd(c, z) ==
  /\ chan[c] = NoCmd /\ kputs[z] > 0
  /\ chan' = [chan EXCEPT ![c] = Cmd("put", z, NoPuts)]
  /\ kputs' = [kputs EXCEPT ![z] = @ - 1]
  /\ UNCHANGED <<vec, zii, disk, gets, kin, kout, bad>>

(* The kernel takes the answer: a handle, or a block.                      *)
KTake(c) ==
  LET z == chan[c].z
  IN /\ \/ /\ chan[c].op = "got"
           /\ kin' = [kin EXCEPT ![z] = @ + 1] /\ kout' = kout
        \/ /\ chan[c].op = "gotblk"
           /\ kout' = [kout EXCEPT ![z] = @ + 1] /\ kin' = kin
     /\ chan' = [chan EXCEPT ![c] = Cmd("none", 0, chan[c].pigy)]
     /\ UNCHANGED <<vec, zii, disk, gets, kputs, bad>>
-----------------------------------------------------------------------------
(* zus_do_command.                                                         *)

(* The outcomes of a call through a vector of operations, by a handler     *)
(* that does not look for the operation, and by one that does.             *)
CallNow(op) == IF op \in vec THEN {"ok", "fail"} ELSE {"null"}
Call(op) == IF op \in DOMAIN Missing \ vec THEN {Missing[op]} ELSE CallNow(op)

Touch(z, results) ==
  (IF zii[z] > 0 THEN {} ELSE {"freed"}) \cup (results \cap {"null"})

(* A handle goes back, if the file system has the operation.               *)
Dropped(op, z) == IF op \in vec THEN [zii EXCEPT ![z] = @ - 1] ELSE zii

PigyPutMut(c, z) ==
  /\ chan[c].pigy[z] > 0
  /\ bad' = bad \cup Touch(z, Call("get_put_multy"))
  /\ gets' = [gets EXCEPT ![z] = @ - 1]
  /\ chan' = [chan EXCEPT ![c] = Cmd(chan[c].op, chan[c].z, NoPuts)]
  /\ UNCHANGED <<vec, zii, disk, kernVars>>

(* _some_pigy_put: the puts first.  A put of a block that was got does not *)
(* fail (external), and nothing would look at it.                          *)
PigyPut(c, z) ==
  /\ chan[c].pigy[z] > 0
  /\ bad' = bad \cup Touch(z, Call("get_put_multy"))
  /\ gets' = [gets EXCEPT ![z] = @ - 1]
  /\ chan' = [chan EXCEPT ![c] = Cmd(chan[c].op, chan[c].z, [chan[c].pigy EXCEPT ![z] = @ - 1])]
  /\ UNCHANGED <<vec, zii, disk, kernVars>>

AtOpMut(c, ops) == chan[c].op \in ops

AtOp(c, ops) == chan[c].op \in ops /\ chan[c].pigy = NoPuts
Answer(c) == chan' = [chan EXCEPT ![c] = Cmd("none", 0, chan[c].pigy)]
Then(c, op) == chan' = [chan EXCEPT ![c] = Cmd(op, chan[c].z, chan[c].pigy)]

(* _new_inode: the file system makes the inode; no name for a temporary    *)
(* file.                                                                   *)
NewInode(c) ==
  /\ AtOp(c, {"new_inode", "tmpfile"})
  /\ bad' = bad \cup (CallNow("new_inode") \cap {"null"})
  /\ \/ Answer(c) /\ zii' = zii
     \/ /\ zii' = [zii EXCEPT ![chan[c].z] = @ + 1]
        /\ Then(c, IF chan[c].op = "tmpfile" THEN "got" ELSE "name")
  /\ UNCHANGED <<vec, disk, gets, kernVars>>

(* Its name.                                                               *)
NameNew(c) ==
  LET z == chan[c].z
  IN /\ AtOp(c, {"name"})
     /\ bad' = bad \cup Touch(z, CallNow("add_dentry"))
     /\ \/ disk' = disk \cup {z} /\ Then(c, "got")
        \/ disk' = disk /\ Then(c, "unname")
     /\ UNCHANGED <<vec, zii, gets, kernVars>>

FreeUnnamedMut(c) ==
  /\ AtOp(c, {"unname"})
  /\ Answer(c)
  /\ UNCHANGED <<vec, zii, disk, gets, kernVars, bad>>

(* An inode that got no name is freed.                                     *)
FreeUnnamed(c) ==
  LET z == chan[c].z
  IN /\ AtOp(c, {"unname"})
     /\ bad' = bad \cup Touch(z, {}) \cup (IF "free_inode" \in vec THEN {} ELSE {"null_free"})
     /\ zii' = Dropped("free_inode", z)
     /\ Answer(c)
     /\ UNCHANGED <<vec, disk, gets, kernVars>>

(* _lookup and zus_iget                                                    *)
Lookup(c) ==
  LET z == chan[c].z
  IN /\ AtOp(c, {"lookup"})
     /\ bad' = bad \cup ((CallNow("lookup") \cup CallNow("iget")) \cap {"null"})
     /\ \/ Answer(c) /\ zii' = zii
        \/ /\ z \in disk /\ zii[z] < MaxHandles
           /\ zii' = [zii EXCEPT ![z] = @ + 1] /\ Then(c, "got")
     /\ UNCHANGED <<vec, disk, gets, kernVars>>

EvictMut(c) ==
  LET z == chan[c].z
      op == IF chan[c].op = "free_inode" THEN "free_inode" ELSE "evict"
  IN /\ AtOp(c, {"evict", "free_inode", "race_evict"})
     /\ bad' = bad \cup Touch(z, Call(op))
     /\ zii' = IF chan[c].op = "race_evict" THEN zii ELSE Dropped(op, z)
     /\ Answer(c)
     /\ UNCHANGED <<vec, disk, gets, kernVars>>

(* _evict: a handle is evicted, whether it is the last one or one too many *)
(* of a lookup that raced, or is freed with its inode.                     *)
Evict(c) ==
  LET z == chan[c].z
      op == IF chan[c].op = "free_inode" THEN "free_inode" ELSE "evict"
  IN /\ AtOp(c, {"evict", "free_inode", "race_evict"})
     /\ bad' = bad \cup Touch(z, Call(op))
     /\ zii' = Dropped(op, z)
     /\ Answer(c)
     /\ UNCHANGED <<vec, disk, gets, kernVars>>

(* _get_put_multy                                                          *)
GetPut(c) ==
  LET z == chan[c].z
  IN /\ AtOp(c, {"get", "put"})
     /\ bad' = bad \cup Touch(z, Call("get_put_multy"))
     /\ \/ /\ chan[c].op = "get" /\ "ok" \in Call("get_put_multy")
           /\ gets' = [gets EXCEPT ![z] = @ + 1] /\ Then(c, "gotblk")
        \/ chan[c].op = "get" /\ gets' = gets /\ Answer(c)
        \/ chan[c].op = "put" /\ gets' = [gets EXCEPT ![z] = @ - 1] /\ Answer(c)
     /\ UNCHANGED <<vec, zii, disk, kernVars>>

(* _dentry: a name is added or taken away, or is not.                      *)
Dentry(c) ==
  LET z == chan[c].z
  IN /\ AtOp(c, {"add_dentry", "remove_dentry"})
     /\ bad' = bad \cup Touch(z, CallNow(chan[c].op))
     /\ disk' \in {disk, IF chan[c].op = "add_dentry" THEN disk \cup {z} ELSE disk \ {z}}
     /\ Answer(c)
     /\ UNCHANGED <<vec, zii, gets, kernVars>>

PlainOpMut(c) ==
  /\ AtOp(c, Plain)
  /\ bad' = bad \cup Touch(chan[c].z, CallNow(chan[c].op))
  /\ Answer(c)
  /\ UNCHANGED <<vec, zii, disk, gets, kernVars>>

(* The other handlers.                                                     *)
PlainOp(c) ==
  /\ AtOp(c, Plain)
  /\ bad' = bad \cup Touch(chan[c].z, Call(chan[c].op))
  /\ Answer(c)
  /\ UNCHANGED <<vec, zii, disk, gets, kernVars>>

CmdNext ==
  \/ \E c \in Chans, z \in Zis :
       \/ KNew(c, z) \/ KLookup(c, z) \/ KUse(c, z) \/ KPutCmd(c, z) \/ KRace(c, z)
       \/ KLeave(c, z)
       \/ PigyPut(c, z)
  \/ \E z \in Zis : KPut(z)
  \/ \E c \in Chans :
       \/ KTake(c)
       \/ NewInode(c)
       \/ NameNew(c)
       \/ FreeUnnamed(c)
       \/ Lookup(c)
       \/ Evict(c)
       \/ GetPut(c)
       \/ Dentry(c)
       \/ PlainOp(c)

CmdSpec == CmdInit /\ [][CmdNext]_cmdVars
-----------------------------------------------------------------------------
(***************************************************************************)
(* No operation is called for an inode whose last handle went back, and no *)
(* put either that rides on the command that takes it (zus-vfs.c:731): the *)
(* puts come first, and the handle of a lookup that raced another          *)
(* (zus-vfs.c:397) goes without the inode.                                 *)
(***************************************************************************)
CmdNoUseAfterEvict == CmdTypeOK /\ "freed" \notin bad

(***************************************************************************)
(* With any vector that has what every file system must have, no handler   *)
(* calls an operation that is missing (zus-vfs.c:463): each one that may   *)
(* be missing is looked for.  The one exception in the code is kept apart, *)
(* as "null_free": free_inode, which _evict looks for (zus-vfs.c:394), is  *)
(* called by _new_inode as it is once the inode got no name                *)
(* (zus-vfs.c:379).                                                        *)
(***************************************************************************)
CmdNoNullCall == "null" \notin bad

(***************************************************************************)
(* Every call of a handler finds its operation and its inode: what it calls *)
(* is in the vector, but for the free_inode of _new_inode, and no use of an *)
(* inode comes after its last handle went back, riding puts included       *)
(* (zus-vfs.c:463, zus-vfs.c:731).                                         *)
(***************************************************************************)
CmdCallsSafe == CmdNoUseAfterEvict /\ CmdNoNullCall

(* Blocks on their way: each put rides on a command or is one, and a get   *)
(* may be answered and not yet taken.                                      *)
Riding(z) ==
  {p \in Chans \X (0 .. MaxGets) :
     LET cmd == chan[p[1]]
     IN IF p[2] > 0 THEN p[2] <= cmd.pigy[z] ELSE cmd.op \in {"put", "gotblk"} /\ cmd.z = z}

(***************************************************************************)
(* The file system has counted as many gets of an inode as the kernel      *)
(* holds, has yet to put or is about to be told of: each get is put once,  *)
(* whether the put rides on a command, with others, or is a command of its *)
(* own (zus-vfs.c:708).                                                    *)
(***************************************************************************)
CmdGetsBalanced ==
  \A z \in Zis : gets[z] = kout[z] + kputs[z] + Cardinality(Riding(z))

(* The handles of z that the kernel has or that are on their way.          *)
Carriers(z) == {c \in Chans : chan[c].op \in Carrying /\ chan[c].z = z}
Handles(z) == kin[z] + Cardinality(Carriers(z))

(***************************************************************************)
(* The file system has given out every handle the kernel has, and, if it   *)
(* has evict and free_inode, it has taken back every other one: also those *)
(* of lookups that raced each other or an eviction (zus-vfs.c:397) and of  *)
(* creations that got no name (zus-vfs.c:377).                             *)
(***************************************************************************)
CmdInodesMatch ==
  \A z \in Zis :
    /\ zii[z] >= Handles(z)
    /\ {"evict", "free_inode"} \subseteq vec => zii[z] = Handles(z)
=============================================================================
