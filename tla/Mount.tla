------------------------------- MODULE Mount --------------------------------
(***************************************************************************)
(* The life of the daemon (main.c, signals.c, the mount thread of          *)
(* zus-core.c) and of its super blocks (the mount part of zus-vfs.c), with *)
(* the file system libraries (fs-loader.c): the mount thread serves the    *)
(* kernel's mounts, main waits for it, and a signal stops the daemon       *)
(* whatever the two are doing.                                             *)
(*                                                                         *)
(* Abstractions.  The ZTs are a pool that starts, fails to, or stops in    *)
(* one step; ZtPool has the steps, and shows when its joins end, which is  *)
(* taken for granted here.  One signal arrives.  Undefined behaviour (two  *)
(* threads at g_ztp, a join of a thread that was joined, a call into an    *)
(* unloaded library) is a choice between a crash and the ways on.          *)
(* External: a request per receive, whose answer goes out with the next    *)
(* one; a break of the pool wakes the mount thread only while it waits.    *)
(***************************************************************************)
EXTENDS Integers, Sequences

CONSTANTS
  Sbs,         \* super blocks
  NLibs,       \* libraries in the list of the environment
  WantPages,   \* zfi->user_page_size # 0
  Hosts        \* the threads a signal may interrupt, of {"main", "mounter", "zt"}

ASSUME MountAssumption ==
  /\ NLibs \in Nat
  /\ WantPages \in BOOLEAN
  /\ Hosts \subseteq {"main", "mounter", "zt"}

VARIABLES
  proc,      \* the process: "run", "exited" or "crashed"
  main,      \* where main is
  mpc,       \* where the mount thread is
  has,       \* has[s]: what super block s holds
  req,       \* the request the mount thread works on
  pool,      \* the ZTs: "down", "starting" or "up"
  brk,       \* external: a break wakes the waiting mount thread
  stopF,     \* g_mount.stop
  thread,    \* g_mount.zbt.thread # 0
  join,      \* who joins the mount thread, or "done"
  spc,       \* zus_mount_thread_stop as run by main and by a signal handler
  host,      \* the thread the handler interrupts
  libs,      \* g_dl_list: libraries loaded
  closed,    \* how often the list was closed
  priv       \* zus_private_mount: its step, what it holds and what it left behind

mtVars == <<mpc, has, req>>
stopVars == <<brk, stopF, thread, join, spc, host, closed>>
vars == <<proc, main, mtVars, pool, stopVars, libs, priv>>

NoReq == [k |-> "none", s |-> 0, err |-> FALSE]
Stoppers == {"main", "sig"}

(* What _pmem_grab takes, in its order.                                    *)
GrabSteps == <<"fd", "pmem", "map", "devmap">> \o IF WantPages THEN <<"pages">> ELSE <<>>
MountSteps == <<"sbi">> \o GrabSteps \o <<"init">>
PrivSteps == <<"zip", "rootfd", "numa", "zbt", "sbi", "kmount">> \o GrabSteps \o <<"init">>

Held(steps) == {steps[j] : j \in DOMAIN steps} \ {"numa"}

TypeOK ==
  /\ proc \in {"run", "exited", "crashed"}
  /\ main \in {"create", "zjoin", "joining", "stop", "tool"}
  /\ mpc \in {"none", "alloc", "open", "numa", "load", "recv", "got", "start", "serve",
              "next", "close", "free", "gone", "stuck"}
  /\ \A s \in Sbs : has[s] \subseteq Held(MountSteps)
  /\ pool \in {"down", "starting", "up"}
  /\ {brk, stopF, thread} \subseteq BOOLEAN
  /\ join \in {"none", "main", "sig", "done"}
  /\ spc \in [Stoppers -> {"idle", "pool", "flag", "join", "wait", "unreg", "exit"}]
  /\ host \in {"none", "main", "mounter", "zt"}
  /\ libs \in 0 .. NLibs /\ closed \in Nat
  /\ priv.at \in 0 .. Len(PrivSteps)
  /\ priv.has \cup priv.left \subseteq Held(PrivSteps)

(* The daemon, or a tool that mounts for itself (zus_private_mount).       *)
Init ==
  /\ proc = "run" /\ main \in {"create", "tool"}
  /\ mpc = "none"
  /\ has = [s \in Sbs |-> {}]
  /\ req = NoReq
  /\ pool = "down"
  /\ brk = FALSE /\ stopF = FALSE /\ thread = FALSE /\ join = "none"
  /\ spc = [x \in Stoppers |-> "idle"]
  /\ host = "none"
  /\ libs = 0 /\ closed = 0
  /\ priv = [at |-> 0, has |-> {}, left |-> {}]
-----------------------------------------------------------------------------
(* The mount thread: zus_mount_thread.                                     *)

MtRuns(at) == proc = "run" /\ host # "mounter" /\ mpc = at
MtGoto(at) == mpc' = at

AfterInit == [alloc |-> "open", open |-> "numa", numa |-> "load"]

(* An error leaves the thread, and from "numa" on its file open.           *)
MtInit ==
  \E at \in DOMAIN AfterInit :
    /\ MtRuns(at)
    /\ \/ MtGoto(AfterInit[at])
       \/ MtGoto(IF at = "alloc" THEN "gone" ELSE "free")
    /\ UNCHANGED <<proc, main, has, req, pool, stopVars, libs, priv>>

(* _load_libfs: a library that loads and registers enters the list, one    *)
(* that does not is closed and ends the thread.                            *)
LoadOne ==
  /\ MtRuns("load") /\ libs < NLibs
  /\ libs' = libs + 1
  /\ UNCHANGED <<proc, main, mtVars, pool, stopVars, priv>>

LoadFail ==
  /\ MtRuns("load") /\ libs < NLibs
  /\ MtGoto("free")
  /\ UNCHANGED <<proc, main, has, req, pool, stopVars, libs, priv>>

Loaded ==
  /\ MtRuns("load") /\ libs = NLibs
  /\ MtGoto("next")
  /\ UNCHANGED <<proc, main, has, req, pool, stopVars, libs, priv>>

(* The test of the loop; the wait that follows hands out the answer.       *)
Loop ==
  /\ MtRuns("next")
  /\ MtGoto(IF stopF THEN "close" ELSE "recv")
  /\ req' = IF stopF THEN req ELSE NoReq
  /\ UNCHANGED <<proc, main, has, pool, stopVars, libs, priv>>

(* zuf_recieve_mount returns a request, of the kernel's choice.            *)
Mounted(s) == has[s] # {}

Recv(k, s) ==
  /\ MtRuns("recv") /\ ~brk
  /\ k = "mount" => ~Mounted(s)
  /\ k \in {"umount", "remount"} => Mounted(s)
  /\ req' = [NoReq EXCEPT !.k = k, !.s = s]
  /\ MtGoto(IF stopF THEN "close" ELSE "got")
  /\ UNCHANGED <<proc, main, has, pool, stopVars, libs, priv>>

(* It fails, or is broken.                                                 *)
RecvErr ==
  /\ MtRuns("recv")
  /\ MtGoto("close")
  /\ UNCHANGED <<proc, main, has, req, pool, stopVars, libs, priv>>

(* The first mount starts the pool.                                        *)
StartPool ==
  /\ MtRuns("got") /\ req.k = "mount" /\ pool = "down"
  /\ pool' = "starting"
  /\ MtGoto("start")
  /\ UNCHANGED <<proc, main, has, req, stopVars, libs, priv>>

PoolUp ==
  /\ MtRuns("start")
  /\ pool' = "up"
  /\ MtGoto("serve")
  /\ UNCHANGED <<proc, main, has, req, stopVars, libs, priv>>

PoolFailMut ==
  /\ MtRuns("start")
  /\ pool' = "down"
  /\ req' = [req EXCEPT !.err = TRUE]
  /\ MtGoto("serve")
  /\ UNCHANGED <<proc, main, has, stopVars, libs, priv>>

PoolFailRetryMut ==
  /\ MtRuns("start")
  /\ pool' = "down"
  /\ MtGoto("got")
  /\ UNCHANGED <<proc, main, has, req, stopVars, libs, priv>>

(* The request is answered with the error, the pool is down again.         *)
PoolFail ==
  /\ MtRuns("start")
  /\ pool' = "down"
  /\ req' = [req EXCEPT !.err = TRUE]
  /\ MtGoto("next")
  /\ UNCHANGED <<proc, main, has, stopVars, libs, priv>>

NoPoolNeeded ==
  /\ MtRuns("got") /\ ~(req.k = "mount" /\ pool = "down")
  /\ MtGoto("serve")
  /\ UNCHANGED <<proc, main, has, req, pool, stopVars, libs, priv>>
-----------------------------------------------------------------------------
(* The requests, as the mount thread serves them: zus_mount, zus_umount.   *)

NextStep(steps, h) ==
  LET Open == {j \in DOMAIN steps : steps[j] \notin h}
  IN  steps[CHOOSE j \in Open : \A k \in Open : j <= k]

MountStep ==
  /\ MtRuns("serve") /\ req.k = "mount"
  /\ has[req.s] # Held(MountSteps)
  /\ has' = [has EXCEPT ![req.s] = @ \cup {NextStep(MountSteps, @)}]
  /\ UNCHANGED <<proc, main, mpc, req, pool, stopVars, libs, priv>>

SbiFiniMut == {"sbi", "fd", "pmem", "map", "devmap", "init"}

(* _zus_sbi_fini with _pmem_ungrab: what it releases.                      *)
SbiFini == {"sbi", "fd", "pmem", "map", "devmap", "pages", "init"}

(* A step fails.  Once there is an sbi the whole of it is released.        *)
MountFail ==
  /\ MtRuns("serve") /\ req.k = "mount"
  /\ has[req.s] # Held(MountSteps)
  /\ has' = [has EXCEPT ![req.s] = @ \ SbiFini]
  /\ req' = [req EXCEPT !.err = TRUE]
  /\ MtGoto("next")
  /\ UNCHANGED <<proc, main, pool, stopVars, libs, priv>>

MountDone ==
  /\ MtRuns("serve") /\ req.k = "mount"
  /\ has[req.s] = Held(MountSteps)
  /\ MtGoto("next")
  /\ UNCHANGED <<proc, main, has, req, pool, stopVars, libs, priv>>

Umount ==
  /\ MtRuns("serve") /\ req.k = "umount"
  /\ has' = [has EXCEPT ![req.s] = @ \ SbiFini]
  /\ MtGoto("next")
  /\ UNCHANGED <<proc, main, req, pool, stopVars, libs, priv>>

(* zus_remount, the dynamic debug requests and the unknown ones.           *)
OtherReq ==
  /\ MtRuns("serve") /\ req.k \in {"remount", "ddbg", "unknown"}
  /\ \E e \in BOOLEAN : req' = [req EXCEPT !.err = e]
  /\ MtGoto("next")
  /\ UNCHANGED <<proc, main, has, pool, stopVars, libs, priv>>

(* zuf_root_close and fba_free; the kernel drops what is not answered.     *)
MtExit ==
  \/ /\ MtRuns("close")
     /\ MtGoto("free")
     /\ UNCHANGED <<proc, main, has, req, pool, stopVars, libs, priv>>
  \/ /\ MtRuns("free")
     /\ MtGoto("gone")
     /\ req' = NoReq
     /\ UNCHANGED <<proc, main, has, pool, stopVars, libs, priv>>
-----------------------------------------------------------------------------
(* main                                                                    *)

MainRuns(at) == proc = "run" /\ host # "main" /\ main = at

(* zus_mount_thread_start                                                  *)
CreateMounter ==
  /\ MainRuns("create")
  /\ mpc' = "alloc" /\ thread' = TRUE
  /\ main' = "zjoin"
  /\ UNCHANGED <<proc, has, req, pool, brk, stopF, join, spc, host, closed, libs, priv>>

CreateFail ==
  /\ MainRuns("create")
  /\ main' = "stop" /\ spc' = [spc EXCEPT !["main"] = "pool"]
  /\ UNCHANGED <<proc, mtVars, pool, brk, stopF, thread, join, host, closed, libs, priv>>

ZusJoinMut ==
  /\ MainRuns("zjoin") /\ thread /\ join \in {"none", "sig"}
  /\ main' = "stop" /\ spc' = [spc EXCEPT !["main"] = "pool"]
  /\ UNCHANGED <<proc, mtVars, pool, brk, stopF, thread, join, host, closed, libs, priv>>

(* zus_join: it comes back at once if another thread joins already.        *)
ZusJoin ==
  /\ MainRuns("zjoin") /\ thread /\ join \in {"none", "sig"}
  /\ IF join = "none"
     THEN join' = "main" /\ main' = "joining" /\ UNCHANGED spc
     ELSE main' = "stop" /\ spc' = [spc EXCEPT !["main"] = "pool"] /\ UNCHANGED join
  /\ UNCHANGED <<proc, mtVars, pool, brk, stopF, thread, host, closed, libs, priv>>

(* The handler was faster: the thread is joined already, or forgotten.     *)
ZusJoinLate ==
  /\ MainRuns("zjoin") /\ (thread => join = "done")
  /\ \/ proc' = "crashed" /\ UNCHANGED <<main, spc>>
     \/ main' = "stop" /\ spc' = [spc EXCEPT !["main"] = "pool"] /\ UNCHANGED proc
  /\ UNCHANGED <<mtVars, pool, brk, stopF, thread, join, host, closed, libs, priv>>

ZusJoinedMut ==
  /\ MainRuns("joining") /\ mpc = "gone" /\ stopF
  /\ join' = "done"
  /\ main' = "stop" /\ spc' = [spc EXCEPT !["main"] = "pool"]
  /\ UNCHANGED <<proc, mtVars, pool, brk, stopF, thread, host, closed, libs, priv>>

ZusJoined ==
  /\ MainRuns("joining") /\ mpc = "gone"
  /\ join' = "done"
  /\ main' = "stop" /\ spc' = [spc EXCEPT !["main"] = "pool"]
  /\ UNCHANGED <<proc, mtVars, pool, brk, stopF, thread, host, closed, libs, priv>>
-----------------------------------------------------------------------------
(* zus_mount_thread_stop, by main at its end or by the handler of a signal *)
(* (_sigaction_exit_handler) on top of whatever its thread was doing.      *)

Signal(h) ==
  /\ proc = "run" /\ host = "none" /\ main # "tool"
  /\ h = "mounter" => mpc \notin {"none", "gone"}
  /\ h = "zt" => pool # "down"
  /\ host' = h
  /\ spc' = [spc EXCEPT !["sig"] = "pool"]
  /\ UNCHANGED <<proc, main, mtVars, pool, brk, stopF, thread, join, closed, libs, priv>>

Stops(x, at) == /\ proc = "run" /\ spc[x] = at
                /\ x = "main" => host # "main"
StopGoto(x, at) == spc' = [spc EXCEPT ![x] = at]

(* zus_stop_all_threads; the break of the pool reaches a waiting mounter.  *)
StopPool(x) ==
  /\ Stops(x, "pool") /\ pool # "starting"
  /\ pool' = "down"
  /\ brk' = (brk \/ (pool = "up" /\ mpc = "recv"))
  /\ StopGoto(x, "flag")
  /\ UNCHANGED <<proc, main, mtVars, stopF, thread, join, host, closed, libs, priv>>

(* g_ztp is cleared under the thread that fills it: a crash, a mount       *)
(* thread that waits on a semaphore nobody posts, or no harm.              *)
StopPoolRaces(x) ==
  /\ Stops(x, "pool") /\ pool = "starting"
  /\ \/ proc' = "crashed" /\ UNCHANGED <<mpc, spc>>
     \/ mpc' \in {"start", "stuck"} /\ StopGoto(x, "flag") /\ UNCHANGED proc
  /\ UNCHANGED <<main, has, req, pool, brk, stopF, thread, join, host, closed, libs, priv>>

SetStop(x) ==
  /\ Stops(x, "flag")
  /\ stopF' = TRUE
  /\ StopGoto(x, "join")
  /\ UNCHANGED <<proc, main, mtVars, pool, brk, thread, join, host, closed, libs, priv>>

StopJoinMut(x) ==
  /\ Stops(x, "join") /\ (thread => join # "done")
  /\ IF thread
     THEN StopGoto(x, "wait") /\ join' = x
     ELSE StopGoto(x, "unreg") /\ UNCHANGED join
  /\ UNCHANGED <<proc, main, mtVars, pool, brk, stopF, thread, host, closed, libs, priv>>

(* pthread_join: not of a thread that was never created, nor by the mount  *)
(* thread itself, nor while another join is under way.                     *)
StopJoin(x) ==
  /\ Stops(x, "join") /\ (thread => join # "done")
  /\ IF thread /\ join = "none" /\ ~(x = "sig" /\ host = "mounter")
     THEN StopGoto(x, "wait") /\ join' = x
     ELSE StopGoto(x, "unreg") /\ UNCHANGED join
  /\ UNCHANGED <<proc, main, mtVars, pool, brk, stopF, thread, host, closed, libs, priv>>

(* A second join of a thread that was joined, as always on main's way out. *)
StopJoinTwice(x) ==
  /\ Stops(x, "join") /\ thread /\ join = "done"
  /\ \/ proc' = "crashed" /\ UNCHANGED spc
     \/ StopGoto(x, "unreg") /\ UNCHANGED proc
  /\ UNCHANGED <<main, mtVars, pool, brk, stopF, thread, join, host, closed, libs, priv>>

StopJoined(x) ==
  /\ Stops(x, "wait") /\ mpc = "gone"
  /\ join' = "done"
  /\ StopGoto(x, "unreg")
  /\ UNCHANGED <<proc, main, mtVars, pool, brk, stopF, thread, host, closed, libs, priv>>

UnregisterMut(x) ==
  /\ Stops(x, "unreg")
  /\ thread' = FALSE
  /\ closed' = IF libs = NLibs THEN closed + 1 ELSE closed
  /\ StopGoto(x, "exit")
  /\ UNCHANGED <<proc, main, mtVars, pool, brk, stopF, join, host, libs, priv>>

(* zus_unregister_all closes what is in the list, which it leaves as it is. *)
Unregister(x) ==
  /\ Stops(x, "unreg")
  /\ thread' = FALSE
  /\ closed' = closed + 1
  /\ StopGoto(x, "exit")
  /\ UNCHANGED <<proc, main, mtVars, pool, brk, stopF, join, host, libs, priv>>

Exit(x) ==
  /\ Stops(x, "exit")
  /\ proc' = "exited"
  /\ UNCHANGED <<main, mtVars, pool, stopVars, libs, priv>>

(* The mount thread in the code of a library that was closed under it.     *)
RunsUnloaded ==
  /\ MtRuns("serve") /\ closed > 0 /\ libs > 0
  /\ proc' = "crashed"
  /\ UNCHANGED <<main, mtVars, pool, stopVars, libs, priv>>
-----------------------------------------------------------------------------
(* zus_private_mount and zus_private_umount, of a tool.                   *)

PrivStep ==
  /\ main = "tool" /\ priv.at < Len(PrivSteps)
  /\ LET at == priv.at + 1
     IN  priv' = [priv EXCEPT !.at = at, !.has = @ \cup ({PrivSteps[at]} \ {"numa"})]
  /\ UNCHANGED <<proc, main, mtVars, pool, stopVars, libs>>

UnwindMut(step) ==
  LET fd == {"zip", "rootfd"}
      alloc == fd \cup {"zbt"}
  IN  CASE step = "zip" -> {}
        [] step = "rootfd" -> {"zip"}
        [] step \in {"numa", "zbt"} -> fd
        [] step = "sbi" -> fd
        [] step = "kmount" -> alloc \cup {"sbi"}
        [] step = "init" -> Held(PrivSteps)
        [] OTHER -> alloc \cup {"sbi", "kmount"}

(* What the labels of zus_private_mount release when a step fails: from    *)
(* fail_grab on, nothing of what _pmem_grab took.                          *)
Unwind(step) ==
  LET fd == {"zip", "rootfd"}
      alloc == fd \cup {"zbt"}
  IN  CASE step = "zip" -> {}
        [] step = "rootfd" -> {"zip"}
        [] step \in {"numa", "zbt"} -> fd
        [] step = "sbi" -> alloc
        [] step = "kmount" -> alloc \cup {"sbi"}
        [] step = "init" -> Held(PrivSteps)
        [] OTHER -> alloc \cup {"sbi", "kmount"}

PrivFail ==
  /\ main = "tool" /\ priv.at < Len(PrivSteps)
  /\ priv' = [at |-> 0, has |-> {},
              left |-> priv.left \cup (priv.has \ Unwind(PrivSteps[priv.at + 1]))]
  /\ UNCHANGED <<proc, main, mtVars, pool, stopVars, libs>>

PrivUmount ==
  /\ main = "tool" /\ priv.at = Len(PrivSteps)
  /\ priv' = [priv EXCEPT !.at = 0, !.has = @ \ Held(PrivSteps)]
  /\ UNCHANGED <<proc, main, mtVars, pool, stopVars, libs>>
-----------------------------------------------------------------------------
MtSteps ==
  \/ MtInit \/ LoadOne \/ LoadFail \/ Loaded \/ Loop
  \/ StartPool \/ PoolUp \/ PoolFail \/ NoPoolNeeded
  \/ MountStep \/ MountFail \/ MountDone \/ Umount \/ OtherReq \/ MtExit
  \/ (brk /\ RecvErr)

MainSteps == CreateMounter \/ CreateFail \/ ZusJoin \/ ZusJoinLate \/ ZusJoined

StopSteps(x) ==
  \/ StopPool(x) \/ StopPoolRaces(x) \/ SetStop(x) \/ StopJoin(x) \/ StopJoinTwice(x)
  \/ StopJoined(x) \/ Unregister(x) \/ Exit(x)

Requests == {"mount", "umount", "remount", "ddbg", "unknown"}

Next ==
  \/ MtSteps \/ RecvErr \/ RunsUnloaded
  \/ \E k \in Requests, s \in Sbs : Recv(k, s)
  \/ MainSteps
  \/ \E h \in Hosts : Signal(h)
  \/ \E x \in Stoppers : StopSteps(x)
  \/ PrivStep \/ PrivFail \/ PrivUmount

(* Threads run; the kernel need not send a request, nor anyone a signal.   *)
Spec ==
  /\ Init /\ [][Next]_vars
  /\ WF_vars(MtSteps)
  /\ WF_vars(MainSteps)
  /\ \A x \in Stoppers : WF_vars(StopSteps(x))
-----------------------------------------------------------------------------
Signalled == host # "none"
Ended == proc # "run"
PoolStopped == \E x \in Stoppers : spc[x] \notin {"idle", "pool"}

(* A file system is mounted only while the ZTs that serve it are up, also  *)
(* after starts of the pool that failed (zus_mount_thread, label next): up *)
(* to where the mount thread leaves its loop, or a zus_mount_thread_stop,  *)
(* of main or of a signal, has stopped the pool under the mounts.          *)
MountsWithPool ==
  (\E s \in Sbs : Mounted(s)) =>
    pool = "up" \/ mpc \in {"close", "free", "gone"} \/ PoolStopped

(* Whichever step of zus_mount fails, all that the steps before it took is *)
(* given back, and a mount that succeeds or an umount leaves all or none.  *)
SbBalanced ==
  /\ TypeOK
  /\ \A s \in Sbs :
       ~(mpc = "serve" /\ req.k = "mount" /\ req.s = s) => has[s] \in {{}, Held(MountSteps)}

(* What is mounted is whole and served: a super block that is not being    *)
(* mounted has all the resources of a mount or none, whichever step of     *)
(* zus_mount failed; and those that have them have a pool, but for the end *)
(* of the mount thread and a zus_mount_thread_stop that stopped it.        *)
MountsSafe == MountsWithPool /\ SbBalanced

(* A private mount that fails gives back all it took when the step that    *)
(* fails is its own (also sbi_init, after _pmem_grab); a step of _pmem_grab *)
(* that fails leaves behind exactly what the steps of _pmem_grab before it *)
(* took, and nothing else.  A private umount leaves nothing.               *)
PrivateClean ==
  [][LET grabbing == /\ priv.at < Len(PrivSteps)
                     /\ PrivSteps[priv.at + 1] \in Held(GrabSteps)
     IN  priv'.at = 0 =>
           /\ priv'.has = {}
           /\ priv'.left = priv.left \cup
                (IF grabbing THEN priv.has \cap Held(GrabSteps) ELSE {})]_vars

(* The libraries are closed before the daemon exits: once without a        *)
(* signal, and at most once by main and once by the handler with one.      *)
(* While the mount thread is there they are closed only after a signal, by *)
(* a thread that cannot join it: the mount thread itself, interrupted, or  *)
(* one of main and the handler while the other is in the join.             *)
LibsClosed ==
  /\ closed <= IF Signalled THEN 2 ELSE 1
  /\ proc = "exited" => closed > 0
  /\ closed > 0 /\ mpc \notin {"none", "gone"} =>
       Signalled /\ (host = "mounter" \/ join \in Stoppers)

(* Without a signal the mount thread never waits for a pool that nobody    *)
(* starts, and nothing ends the process but exit or, once the mount thread *)
(* is gone, the join of it in zus_mount_thread_stop, the second one after  *)
(* zus_join.  (With a signal the process may also crash where the handler  *)
(* stops a pool that is being started, where zus_join comes after the      *)
(* handler's join, and in a library closed under the mount thread.)        *)
OnlySignalsHurt ==
  ~Signalled =>
    /\ mpc # "stuck"
    /\ proc = "crashed" => spc["main"] = "join" /\ join = "done" /\ mpc = "gone"

(* What a signal may break, and nothing else does: without one the         *)
(* libraries are closed once, with no mount thread in them, and the daemon *)
(* neither hangs in the start of the pool nor crashes before the second    *)
(* join; with one main and the handler close them at most once each.       *)
SignalsContained == LibsClosed /\ OnlySignalsHurt

(* A request is answered, or the thread that would answer is gone.         *)
Answered ==
  req.k # "none" ~> req.k = "none" \/ mpc \in {"gone", "stuck"} \/ Ended

(* The process ends when its mount thread does, for whatever reason.       *)
DaemonEnds == mpc = "gone" ~> Ended

(* The handler runs on main, before its zus_join, and joins a mount thread *)
(* that waits for a request, with no break on its way, or for ever.        *)
HandlerHangs ==
  /\ host = "main" /\ main = "zjoin" /\ spc["sig"] = "wait"
  /\ mpc = "stuck" \/ (mpc = "recv" /\ ~brk)

(* A signal ends the process, on whatever thread it arrives and whatever   *)
(* main and the mount thread are doing, but for that one hang: the break   *)
(* of zus_stop_all_threads comes only if there is a pool, and only to a    *)
(* mount thread that waits already, so that the join of                    *)
(* zus_mount_thread_stop may wait for a request of the kernel.             *)
SignalEnds == spc["sig"] = "pool" ~> (Ended \/ []HandlerHangs)

(* The process ends, by exit or by a crash, once its mount thread has ended *)
(* or a signal came (zus_join, zus_mount_thread_stop), except for the hang *)
(* that HandlerHangs describes.                                            *)
ProcessEnds == DaemonEnds /\ SignalEnds
=============================================================================
