------------------------------- MODULE ZtPool -------------------------------
(***************************************************************************)
(* The pool of dispatcher threads, the ZTs (zus-core.c, wtz.h).            *)
(*                                                                         *)
(* The first mount starts one ZT per channel and online cpu and waits on a *)
(* wait-til-zero object until all of them are initialised; a failure, or   *)
(* the end of the daemon, stops them: every ZT gets a stop flag, the       *)
(* kernel is told to break all waits, and the threads are joined.          *)
(*                                                                         *)
(* Abstractions.  One control thread, the mount thread or the thread that  *)
(* runs zus_mount_thread_stop, starts and stops the pool; that a signal    *)
(* stops the daemon while the mount thread is starting the pool is not     *)
(* modelled.  An operation is its dispatch, its content is left out.  The  *)
(* kernel side is external: a break reaches every ZT that is registered    *)
(* (zuf_zt_init) and ends its current or its next wait, provided it is     *)
(* issued on an open file of the zuf root.                                 *)
(***************************************************************************)
EXTENDS Integers, FiniteSets

CONSTANTS
  NChans,       \* zim->zmi.num_channels of the mount
  NCpus,        \* zus_num_possible_cpus()
  Online,       \* zus_cpu_online_mask
  FailPoints    \* the steps of starting a ZT that may fail

Chans == 0 .. NChans - 1
Cpus == 0 .. NCpus - 1
Zts == Chans \X Cpus

\* The initialisation of a ZT and what follows each step of it.
AfterInit == [open |-> "zinit", zinit |-> "mmap", mmap |-> "buff", buff |-> "ready"]

ASSUME ConstantsAssumption ==
  /\ NChans \in Nat \ {0}
  /\ NCpus \in Nat \ {0}
  /\ Online \subseteq Cpus /\ Online # {}
  /\ FailPoints \subseteq DOMAIN AfterInit \cup {"calloc", "create"}

VARIABLES
  ctl,      \* where the control thread is
  ci, zi,   \* its loop variables: channel and cpu
  num,      \* g_ztp.num_zts # 0
  zts,      \* the channels c with g_ztp.zts[c] allocated
  acnt,     \* g_ztp.wtz.acnt
  sem,      \* value of g_ztp.wtz.sem
  zpc,      \* where each ZT is
  thread,   \* the ZTs with zbt.thread # 0
  fd,       \* fd[z]: the file of a ZT
  err,      \* the ZTs with zbt.err # 0
  stop,     \* the ZTs with zt->stop set
  reg,      \* external: ZTs registered with the kernel
  brk       \* external: ZTs with a break pending

ctlVars == <<ctl, ci, zi, num>>
wtzVars == <<acnt, sem>>
kernVars == <<reg, brk>>
vars == <<ctlVars, zts, wtzVars, zpc, thread, fd, err, stop, kernVars>>

ZPCs == DOMAIN AfterInit \cup
        {"none", "ready", "fail", "check", "wait", "op", "close", "gone"}

TypeOK ==
  /\ ctl \in {"recv", "chan", "create", "wait", "verify", "stop", "flag", "join"}
  /\ ci \in 0 .. NChans
  /\ zi \in 0 .. NCpus
  /\ num \in BOOLEAN
  /\ zts \subseteq Chans
  /\ acnt \in Nat
  /\ sem \in Nat
  /\ zpc \in [Zts -> ZPCs]
  /\ thread \subseteq Zts
  /\ fd \in [Zts -> {"unset", "open", "bad"}]
  /\ err \subseteq Zts
  /\ stop \subseteq Zts
  /\ reg \subseteq Zts
  /\ brk \subseteq Zts

Init ==
  /\ ctl = "recv" /\ ci = 0 /\ zi = 0
  /\ num = FALSE
  /\ zts = {}
  /\ acnt = 0 /\ sem = 0
  /\ zpc = [z \in Zts |-> "none"]
  /\ thread = {}
  /\ fd = [z \in Zts |-> "unset"]
  /\ err = {}
  /\ stop = {}
  /\ reg = {} /\ brk = {}

OfChan(c) == {z \in Zts : z[1] = c}
-----------------------------------------------------------------------------
(* The control thread: zus_start_all_threads.                              *)

(* A mount arrives and there is no pool yet (zus_mount_thread).            *)
StartAll ==
  /\ ctl = "recv" /\ ~num
  /\ num' = TRUE
  /\ acnt' = 0 /\ sem' = 0
  /\ ctl' = "chan" /\ ci' = 0 /\ zi' = 0
  /\ UNCHANGED <<zts, zpc, thread, fd, err, stop, kernVars>>

ArmMut == acnt' = acnt + Cardinality(Online) - 1

(* wtz_arm                                                                 *)
Arm == acnt' = acnt + Cardinality(Online)

(* _zus_start_chan_threads: zeroed memory for the channel's ZTs.           *)
StartChan ==
  /\ ctl = "chan" /\ ci < NChans
  /\ zts' = zts \cup {ci}
  /\ Arm
  /\ zpc' = [z \in Zts |-> IF z[1] = ci THEN "none" ELSE zpc[z]]
  /\ fd' = [z \in Zts |-> IF z[1] = ci THEN "unset" ELSE fd[z]]
  /\ thread' = thread \ OfChan(ci)
  /\ err' = err \ OfChan(ci)
  /\ stop' = stop \ OfChan(ci)
  /\ ctl' = "create" /\ zi' = 0
  /\ UNCHANGED <<ci, num, sem, kernVars>>

StartChanFail ==
  /\ ctl = "chan" /\ ci < NChans
  /\ "calloc" \in FailPoints
  /\ ctl' = "stop" /\ ci' = 0
  /\ UNCHANGED <<zi, num, zts, wtzVars, zpc, thread, fd, err, stop, kernVars>>

(* All channels are started: wait for the ZTs.                             *)
ChansStarted ==
  /\ ctl = "chan" /\ ci = NChans
  /\ ctl' = "wait"
  /\ UNCHANGED <<ci, zi, num, zts, wtzVars, zpc, thread, fd, err, stop, kernVars>>

CreateZt ==
  /\ ctl = "create" /\ zi \in Online
  /\ zpc' = [zpc EXCEPT ![<<ci, zi>>] = "open"]
  /\ thread' = thread \cup {<<ci, zi>>}
  /\ zi' = zi + 1
  /\ UNCHANGED <<ctl, ci, num, zts, wtzVars, fd, err, stop, kernVars>>

(* __zus_thread_create fails: no thread, an error and the way out.         *)
CreateFail ==
  /\ ctl = "create" /\ zi \in Online
  /\ "create" \in FailPoints
  /\ err' = err \cup {<<ci, zi>>}
  /\ ctl' = "stop" /\ ci' = 0
  /\ UNCHANGED <<zi, num, zts, wtzVars, zpc, thread, fd, stop, kernVars>>

(* Offline cpus are skipped; after the last cpu comes the next channel.    *)
CreateSkip ==
  /\ ctl = "create" /\ zi \notin Online
  /\ IF zi < NCpus
     THEN zi' = zi + 1 /\ UNCHANGED <<ctl, ci>>
     ELSE ctl' = "chan" /\ ci' = ci + 1 /\ UNCHANGED zi
  /\ UNCHANGED <<num, zts, wtzVars, zpc, thread, fd, err, stop, kernVars>>

(* wtz_wait                                                                *)
WtzWait ==
  /\ ctl = "wait"
  /\ sem > 0
  /\ sem' = sem - 1
  /\ ctl' = "verify" /\ ci' = 0 /\ zi' = 0
  /\ UNCHANGED <<num, zts, acnt, zpc, thread, fd, err, stop, kernVars>>

VerifyMut ==
  /\ ctl = "verify"
  /\ IF ci = NChans
     THEN ctl' = "recv" /\ UNCHANGED <<ci, zi>>
     ELSE IF <<ci, zi>> \in err
     THEN ctl' = "stop" /\ ci' = 0 /\ UNCHANGED zi
     ELSE /\ UNCHANGED ctl
          /\ IF zi + 1 = Cardinality(Online)
             THEN zi' = 0 /\ ci' = ci + 1
             ELSE zi' = zi + 1 /\ ci' = ci
  /\ UNCHANGED <<num, zts, wtzVars, zpc, thread, fd, err, stop, kernVars>>

(* The loop that verifies zbt.err of every ZT, one ZT at a time.           *)
Verify ==
  /\ ctl = "verify"
  /\ IF ci = NChans
     THEN ctl' = "recv" /\ UNCHANGED <<ci, zi>>
     ELSE IF <<ci, zi>> \in err
     THEN ctl' = "stop" /\ ci' = 0 /\ UNCHANGED zi
     ELSE /\ UNCHANGED ctl
          /\ IF zi + 1 = NCpus
             THEN zi' = 0 /\ ci' = ci + 1
             ELSE zi' = zi + 1 /\ ci' = ci
  /\ UNCHANGED <<num, zts, wtzVars, zpc, thread, fd, err, stop, kernVars>>
-----------------------------------------------------------------------------
(* The control thread: zus_stop_all_threads.                               *)

(* zus_mount_thread_stop while the pool is up.                             *)
StopAll ==
  /\ ctl = "recv" /\ num
  /\ ctl' = "stop" /\ ci' = 0
  /\ UNCHANGED <<zi, num, zts, wtzVars, zpc, thread, fd, err, stop, kernVars>>

(* External: zuf_break_all on the file of the channel's first ZT.          *)
BreakAll(c) == brk' = IF fd[<<c, 0>>] = "open" THEN brk \cup reg ELSE brk

(* _zus_stop_chan_threads                                                  *)
StopChan ==
  /\ ctl = "stop" /\ ci \in zts
  /\ ctl' = "flag" /\ zi' = 0
  /\ UNCHANGED <<ci, num, zts, wtzVars, zpc, thread, fd, err, stop, kernVars>>

SetStop ==
  /\ ctl = "flag" /\ zi < NCpus
  /\ stop' = stop \cup {<<ci, zi>>}
  /\ zi' = zi + 1
  /\ UNCHANGED <<ctl, ci, num, zts, wtzVars, zpc, thread, fd, err, kernVars>>

BreakWaits ==
  /\ ctl = "flag" /\ zi = NCpus
  /\ BreakAll(ci)
  /\ ctl' = "join" /\ zi' = 0
  /\ UNCHANGED <<ci, num, zts, wtzVars, zpc, thread, fd, err, stop, reg>>

(* A channel that was never allocated.                                     *)
StopSkip ==
  /\ ctl = "stop" /\ ci < NChans /\ ci \notin zts
  /\ ci' = ci + 1
  /\ UNCHANGED <<ctl, zi, num, zts, wtzVars, zpc, thread, fd, err, stop, kernVars>>

JoinMut ==
  /\ ctl = "join" /\ zi < NCpus
  /\ <<ci, zi>> \in thread \ err => zpc[<<ci, zi>>] = "gone"
  /\ thread' = thread \ {<<ci, zi>>}
  /\ zi' = zi + 1
  /\ UNCHANGED <<ctl, ci, num, zts, wtzVars, zpc, fd, err, stop, kernVars>>

(* pthread_join of the ZTs that have a thread.                             *)
Join ==
  /\ ctl = "join" /\ zi < NCpus
  /\ <<ci, zi>> \in thread => zpc[<<ci, zi>>] = "gone"
  /\ thread' = thread \ {<<ci, zi>>}
  /\ zi' = zi + 1
  /\ UNCHANGED <<ctl, ci, num, zts, wtzVars, zpc, fd, err, stop, kernVars>>

(* The memory of the channel's ZTs is freed; the file of one that failed   *)
(* after its open stays open.                                              *)
FreeChan ==
  /\ ctl = "join" /\ zi = NCpus
  /\ zts' = zts \ {ci}
  /\ ctl' = "stop" /\ ci' = ci + 1
  /\ UNCHANGED <<zi, num, wtzVars, zpc, thread, fd, err, stop, kernVars>>

(* memset of g_ztp                                                         *)
Stopped ==
  /\ ctl = "stop" /\ ci = NChans
  /\ num' = FALSE /\ acnt' = 0 /\ sem' = 0
  /\ ctl' = "recv"
  /\ UNCHANGED <<ci, zi, zts, zpc, thread, fd, err, stop, kernVars>>
-----------------------------------------------------------------------------
(* A ZT: _zu_thread.                                                       *)

ZtGoto(z, label) == zpc' = [zpc EXCEPT ![z] = label]

InitOk(z) ==
  /\ zpc[z] \in DOMAIN AfterInit
  /\ ZtGoto(z, AfterInit[zpc[z]])
  /\ fd' = IF zpc[z] = "open" THEN [fd EXCEPT ![z] = "open"] ELSE fd
  /\ reg' = IF zpc[z] = "zinit" THEN reg \cup {z} ELSE reg
  /\ err' = err \ {z}
  /\ UNCHANGED <<ctlVars, zts, wtzVars, thread, stop, brk>>

InitFail(z) ==
  /\ zpc[z] \in DOMAIN AfterInit \cap FailPoints
  /\ ZtGoto(z, "fail")
  /\ fd' = IF zpc[z] = "open" THEN [fd EXCEPT ![z] = "bad"] ELSE fd
  /\ err' = err \cup {z}
  /\ UNCHANGED <<ctlVars, zts, wtzVars, thread, stop, kernVars>>

WtzReleaseMut(z) ==
  /\ acnt' = acnt - 1
  /\ sem' = IF acnt = 2 THEN sem + 1 ELSE sem

(* wtz_release                                                             *)
WtzRelease(z) ==
  /\ acnt' = acnt - 1
  /\ sem' = IF acnt = 1 THEN sem + 1 ELSE sem

ZtReleaseMut(z) ==
  /\ zpc[z] \in {"ready", "fail"}
  /\ IF zpc[z] = "fail" THEN WtzRelease(z) ELSE UNCHANGED wtzVars
  /\ ZtGoto(z, IF zpc[z] = "ready" THEN "check" ELSE "gone")
  /\ UNCHANGED <<ctlVars, zts, thread, fd, err, stop, kernVars>>

(* The ZT is initialised, or gave up and ends.                             *)
ZtRelease(z) ==
  /\ zpc[z] \in {"ready", "fail"}
  /\ WtzRelease(z)
  /\ ZtGoto(z, IF zpc[z] = "ready" THEN "check" ELSE "gone")
  /\ UNCHANGED <<ctlVars, zts, thread, fd, err, stop, kernVars>>

CheckStopMut(z) ==
  /\ zpc[z] = "check"
  /\ ZtGoto(z, IF z \in stop /\ z \notin err THEN "close" ELSE "wait")
  /\ UNCHANGED <<ctlVars, zts, wtzVars, thread, fd, err, stop, kernVars>>

CheckStop(z) ==
  /\ zpc[z] = "check"
  /\ ZtGoto(z, IF z \in stop THEN "close" ELSE "wait")
  /\ UNCHANGED <<ctlVars, zts, wtzVars, thread, fd, err, stop, kernVars>>

(* zuf_wait_opt returns an operation.                                      *)
WaitOp(z) ==
  /\ zpc[z] = "wait" /\ z \notin brk
  /\ err' = err \ {z}
  /\ ZtGoto(z, "op")
  /\ UNCHANGED <<ctlVars, zts, wtzVars, thread, fd, stop, kernVars>>

(* zuf_wait_opt fails: an application was killed ...                       *)
WaitIntr(z) ==
  /\ zpc[z] = "wait"
  /\ err' = err \cup {z}
  /\ ZtGoto(z, "op")
  /\ UNCHANGED <<ctlVars, zts, wtzVars, thread, fd, stop, kernVars>>

(* ... or the wait was broken.                                             *)
WaitBroken(z) ==
  /\ zpc[z] = "wait" /\ z \in brk
  /\ brk' = brk \ {z}
  /\ err' = err \cup {z}
  /\ ZtGoto(z, "op")
  /\ UNCHANGED <<ctlVars, zts, wtzVars, thread, fd, stop, reg>>

(* _do_op runs whatever zuf_wait_opt returned.                             *)
DoOp(z) ==
  /\ zpc[z] = "op"
  /\ ZtGoto(z, "check")
  /\ UNCHANGED <<ctlVars, zts, wtzVars, thread, fd, err, stop, kernVars>>

(* The mappings go, the file is closed and leaves the kernel.              *)
Close(z) ==
  /\ zpc[z] = "close"
  /\ fd' = [fd EXCEPT ![z] = "bad"]
  /\ reg' = reg \ {z} /\ brk' = brk \ {z}
  /\ ZtGoto(z, "gone")
  /\ UNCHANGED <<ctlVars, zts, wtzVars, thread, err, stop>>
-----------------------------------------------------------------------------
Start ==
  \/ StartChan \/ StartChanFail \/ ChansStarted \/ CreateZt \/ CreateFail
  \/ CreateSkip \/ WtzWait \/ Verify

Stop == StopChan \/ SetStop \/ BreakWaits \/ StopSkip \/ Join \/ FreeChan \/ Stopped

ZtRuns(z) ==
  \/ InitOk(z) \/ InitFail(z) \/ ZtRelease(z) \/ CheckStop(z)
  \/ WaitBroken(z) \/ DoOp(z) \/ Close(z)

Next ==
  \/ StartAll \/ Start
  \/ StopAll \/ Stop
  \/ \E z \in Zts : ZtRuns(z) \/ WaitOp(z) \/ WaitIntr(z)

Spec == Init /\ [][Next]_vars

(***************************************************************************)
(* The control thread and the ZTs keep running; a wait of a ZT ends only   *)
(* if the kernel breaks it.  No mount, no operation and no stop need ever  *)
(* come.                                                                   *)
(***************************************************************************)
FairSpec ==
  /\ Spec
  /\ WF_vars(Start \/ Stop)
  /\ \A z \in Zts : WF_vars(ZtRuns(z))
-----------------------------------------------------------------------------
Initialising == DOMAIN AfterInit \cup {"none", "ready", "fail"}

(***************************************************************************)
(* "Wait all arms are released" (wtz.h): when wtz_wait returned, every ZT  *)
(* that was started is through its initialisation.                         *)
(***************************************************************************)
WaitsForAll ==
  ctl = "verify" => \A z \in thread : zpc[z] \notin Initialising

(***************************************************************************)
(* When zus_start_all_threads returned success, every online cpu has a ZT  *)
(* on every channel that serves operations.                                *)
(***************************************************************************)
UpMeansServing ==
  ctl = "recv" /\ num =>
    \A c \in Chans, i \in Online : zpc[<<c, i>>] \in {"check", "wait", "op"}

(***************************************************************************)
(* The memory of a ZT is freed only once its thread has ended, also when   *)
(* the start failed half way (_zus_stop_chan_threads, zus_stop_all_threads *)
(* clearing g_ztp).                                                        *)
(***************************************************************************)
NoUseAfterFree ==
  \A z \in Zts : zpc[z] \notin {"none", "gone"} => z[1] \in zts /\ num

(***************************************************************************)
(* The join of a ZT that stays in its wait for good: its stop flag came    *)
(* after it looked (CheckStop), and the break of _zus_stop_chan_threads    *)
(* reached nobody because the first ZT's file was not open when it was     *)
(* issued: that ZT was never started, failed to open it, or had already    *)
(* seen its own stop flag and closed it.                                   *)
(***************************************************************************)
Stuck ==
  /\ ctl = "join" /\ zi \in Cpus /\ <<ci, zi>> \in thread
  /\ zpc[<<ci, zi>>] = "wait" /\ <<ci, zi>> \notin brk
  /\ fd[<<ci, 0>>] # "open"

(***************************************************************************)
(* zus_start_all_threads, with the stop it runs when it fails, and         *)
(* zus_stop_all_threads return, except that they may stay for ever in the  *)
(* one join that Stuck describes.  In particular wtz_wait never waits for  *)
(* a ZT that failed (_zu_thread, label fail), and no join waits for a ZT   *)
(* that is late, failed, in an operation or broken out of its wait.        *)
(***************************************************************************)
CallsEnd == ctl # "recv" ~> (ctl = "recv" \/ []Stuck)

(***************************************************************************)
(* "It's OK to leak here, stop function will cleanup" (_zu_thread, label   *)
(* fail): a stop comes to an end, with no ZT left and all files closed.    *)
(***************************************************************************)
StopCleansUp ==
  ctl = "stop" ~> (ctl = "recv" /\ \A z \in Zts : z \notin thread /\ fd[z] # "open")

(***************************************************************************)
(* The pool's state is well formed and no ZT runs on freed memory.         *)
(***************************************************************************)
MemorySafe == TypeOK /\ NoUseAfterFree
=============================================================================
