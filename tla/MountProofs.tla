---------------------------- MODULE MountProofs -----------------------------
(***************************************************************************)
(* Proofs about Mount, for any set of super blocks, any number of          *)
(* libraries, both kinds of file systems and a signal to any thread.  The  *)
(* fairness of Spec is not used.                                           *)
(***************************************************************************)
EXTENDS Mount, SequenceTheorems, WellFoundedInduction, TLAPS

(* What the typing of Mount leaves open: whole functions and records.      *)
Typed ==
  /\ TypeOK
  /\ has \in [Sbs -> SUBSET Held(MountSteps)]
  /\ req \in [k : Requests \cup {"none"}, s : Sbs \cup {NoReq.s}, err : BOOLEAN]
  /\ priv \in [at : 0 .. Len(PrivSteps), has : SUBSET Held(PrivSteps),
               left : SUBSET Held(PrivSteps)]

(* A request in work names a super block.                                  *)
ReqNamed == mpc \in {"got", "start", "stuck", "serve"} => req.s \in Sbs

(* Before the mount thread is created there is nothing.                    *)
Fresh ==
  /\ main \in {"create", "tool"} => mpc = "none"
  /\ mpc = "none" => pool = "down" /\ \A s \in Sbs : ~Mounted(s)

(* The pool is being started by a mount thread that waits for it.          *)
Starting == pool = "starting" <=> mpc \in {"start", "stuck"}

(* The end of main without a signal: first the mount thread goes, then its *)
(* libraries, then the process.                                            *)
QuietEnd ==
  ~Signalled =>
    /\ spc["sig"] = "idle"
    /\ main \in {"create", "zjoin"} => join = "none"
    /\ main = "zjoin" => thread
    /\ spc["main"] # "idle" => mpc \in {"none", "gone"}
    /\ mpc # "stuck"
    /\ proc = "crashed" => spc["main"] = "join" /\ join = "done"

(* The end with or without one: who passed the join did so when there was  *)
(* no mount thread, or is on it, or while the other is in the join.        *)
Ends ==
  /\ main \in {"create", "tool", "zjoin", "joining"} => spc["main"] = "idle"
  /\ main = "create" /\ Signalled => host = "main"
  /\ join = "done" => mpc = "gone"
  /\ ~thread => mpc = "none" \/ \E x \in Stoppers : spc[x] = "exit"
  /\ closed = (IF spc["main"] = "exit" THEN 1 ELSE 0) + (IF spc["sig"] = "exit" THEN 1 ELSE 0)
  /\ proc = "exited" => \E x \in Stoppers : spc[x] = "exit"
  /\ \A x \in Stoppers : spc[x] \in {"unreg", "exit"} =>
       mpc \in {"none", "gone"} \/ host = "mounter" \/ join \in Stoppers

(* Until somebody stops the pool a mount is served with the pool up.       *)
ServedUp == ~PoolStopped /\ mpc = "serve" /\ req.k = "mount" => pool = "up"

(* Every super block but the one being mounted has all or nothing.         *)
SbWhole ==
  \A s \in Sbs :
    ~(mpc = "serve" /\ req.k = "mount" /\ req.s = s) => has[s] \in {{}, Held(MountSteps)}

(* A private mount holds what its steps so far took.                       *)
PrivHeld == priv.has = {PrivSteps[j] : j \in 1 .. priv.at} \ {"numa"}

(* The inductive invariant.                                                *)
IInv ==
  /\ Typed
  /\ ReqNamed
  /\ Fresh
  /\ Starting
  /\ QuietEnd
  /\ Ends
  /\ ServedUp
  /\ MountsWithPool
  /\ SbWhole
  /\ PrivHeld
-----------------------------------------------------------------------------
(* Some step comes first among those that are left.                        *)
LEMMA SmallestNat ==
  ASSUME NEW T \in SUBSET Nat, T # {}
  PROVE  \E j \in T : \A k \in T : j <= k
  <1> DEFINE R == OpToRel(<, Nat)
  <1>1. IsWellFoundedOn(R, Nat)
    BY NatLessThanWellFounded
  <1> HIDE DEF R
  <1>2. PICK j \in T : \A k \in T : ~(<<k, j>> \in R)
    BY <1>1, WFMin
  <1>3. \A k \in T : ~(k < j)
    BY <1>2 DEF R, OpToRel
  <1>4. QED
    BY <1>3

(* What the steps take: each step is one of a few resources.               *)
GrabSet == {"fd", "pmem", "map", "devmap", "pages"}

(* The steps of the grab, in their order.                                  *)
LEMMA GrabStepsFacts ==
  /\ GrabSteps \in Seq(GrabSet)
  /\ Len(GrabSteps) \in {4, 5}
  <1> DEFINE a == <<"fd", "pmem", "map", "devmap">>
             b == IF WantPages THEN <<"pages">> ELSE <<>>
  <1>1. a \in Seq(GrabSet) /\ Len(a) = 4
    BY DEF GrabSet
  <1>2. b \in Seq(GrabSet) /\ Len(b) \in {0, 1}
    <2>1. CASE WantPages
      BY <2>1 DEF GrabSet
    <2>2. CASE ~WantPages
      BY <2>2
    <2>3. QED
      BY <2>1, <2>2
  <1>3. GrabSteps = a \o b
    BY DEF GrabSteps
  <1> HIDE DEF a, b
  <1>a. a \o b \in Seq(GrabSet) /\ Len(a \o b) = Len(a) + Len(b)
    BY <1>1, <1>2, ConcatProperties
  <1>4. GrabSteps \in Seq(GrabSet) /\ Len(GrabSteps) = Len(a) + Len(b)
    BY <1>3, <1>a
  <1>5. Len(GrabSteps) = 4 + Len(b) /\ (Len(b) = 0 \/ Len(b) = 1)
    BY <1>1, <1>2, <1>4
  <1>6. Len(GrabSteps) = 4 \/ Len(GrabSteps) = 5
    <2>1. ASSUME NEW m, NEW n \in {0, 1}, m = 4 + n
          PROVE  m = 4 \/ m = 5
      BY <2>1
    <2>2. QED
      BY <1>5, <2>1
  <1>7. Len(GrabSteps) \in {4, 5}
    BY <1>6
  <1>8. QED
    BY <1>4, <1>7

(* A mount takes nothing that _zus_sbi_fini does not give back.            *)
LEMMA MountStepsFacts ==
  /\ Len(MountSteps) \in Nat /\ DOMAIN MountSteps = 1 .. Len(MountSteps)
  /\ \A j \in DOMAIN MountSteps : MountSteps[j] \in SbiFini
  /\ Held(MountSteps) = {MountSteps[j] : j \in DOMAIN MountSteps}
  /\ Held(MountSteps) \subseteq SbiFini
  <1>1. <<"sbi">> \in Seq(SbiFini) /\ <<"init">> \in Seq(SbiFini)
    BY DEF SbiFini
  <1>2. GrabSteps \in Seq(SbiFini)
    BY GrabStepsFacts DEF GrabSet, SbiFini
  <1>3. <<"sbi">> \o GrabSteps \in Seq(SbiFini)
    BY <1>1, <1>2, ConcatProperties
  <1>4. MountSteps \in Seq(SbiFini)
    BY <1>1, <1>3, ConcatProperties DEF MountSteps
  <1>5. /\ Len(MountSteps) \in Nat
        /\ DOMAIN MountSteps = 1 .. Len(MountSteps)
        /\ \A j \in DOMAIN MountSteps : MountSteps[j] \in SbiFini
    BY <1>4, LenProperties, ElementOfSeq
  <1>6. QED
    BY <1>5 DEF Held, SbiFini

(* NextStep is a step that is left.                                        *)
LEMMA NextStepHeld ==
  ASSUME NEW h \in SUBSET Held(MountSteps), h # Held(MountSteps)
  PROVE  NextStep(MountSteps, h) \in Held(MountSteps)
  <1> DEFINE Open == {j \in DOMAIN MountSteps : MountSteps[j] \notin h}
             j0 == CHOOSE j \in Open : \A k \in Open : j <= k
  <1>1. Open \in SUBSET Nat /\ Open # {}
    BY MountStepsFacts
  <1> HIDE DEF Open
  <1>2. \E j \in Open : \A k \in Open : j <= k
    BY <1>1, SmallestNat
  <1>3. j0 \in Open
    BY <1>2
  <1> HIDE DEF j0
  <1>4. MountSteps[j0] \in Held(MountSteps)
    BY <1>3, MountStepsFacts DEF Open
  <1>5. QED
    BY <1>4 DEF NextStep, j0, Open

(* The steps of a private mount by their place.                            *)
LEMMA PrivStepsFacts ==
  LET G == Len(GrabSteps) IN
  /\ Len(PrivSteps) = G + 7
  /\ DOMAIN PrivSteps = 1 .. G + 7
  /\ PrivSteps[1] = "zip" /\ PrivSteps[2] = "rootfd" /\ PrivSteps[3] = "numa"
  /\ PrivSteps[4] = "zbt" /\ PrivSteps[5] = "sbi" /\ PrivSteps[6] = "kmount"
  /\ \A j \in 7 .. G + 6 : PrivSteps[j] \in GrabSet /\ PrivSteps[j] \in Held(GrabSteps)
  /\ PrivSteps[G + 7] = "init"
  <1> DEFINE G == Len(GrabSteps)
             S == GrabSet \cup {"zip", "rootfd", "numa", "zbt", "sbi", "kmount", "init"}
             a == <<"zip", "rootfd", "numa", "zbt", "sbi", "kmount">>
             b == a \o GrabSteps
             z == <<"init">>
  <1>1. a \in Seq(S) /\ Len(a) = 6 /\ z \in Seq(S) /\ Len(z) = 1 /\ z[1] = "init"
    OBVIOUS
  <1>2. /\ a[1] = "zip" /\ a[2] = "rootfd" /\ a[3] = "numa"
        /\ a[4] = "zbt" /\ a[5] = "sbi" /\ a[6] = "kmount"
    OBVIOUS
  <1>3. GrabSteps \in Seq(S) /\ G \in {4, 5}
    BY GrabStepsFacts
  <1>4. /\ \A j \in 1 .. G : GrabSteps[j] \in GrabSet
        /\ \A j \in 1 .. G : GrabSteps[j] \in Held(GrabSteps)
    <2>1. \A j \in 1 .. G : GrabSteps[j] \in GrabSet /\ j \in DOMAIN GrabSteps
      BY GrabStepsFacts, LenProperties, ElementOfSeq
    <2>2. QED
      BY <2>1 DEF Held, GrabSet
  <1>5. PrivSteps = b \o z
    BY DEF PrivSteps
  <1> HIDE DEF S, a, z, G
  <1>6. /\ b \in Seq(S) /\ Len(b) = 6 + G
        /\ \A j \in 1 .. 6 + G : b[j] = IF j <= 6 THEN a[j] ELSE GrabSteps[j - 6]
    <2>1. /\ a \o GrabSteps \in Seq(S)
          /\ Len(a \o GrabSteps) = Len(a) + Len(GrabSteps)
          /\ \A j \in 1 .. Len(a) + Len(GrabSteps) : (a \o GrabSteps)[j] =
               IF j <= Len(a) THEN a[j] ELSE GrabSteps[j - Len(a)]
      BY <1>1, <1>3, ConcatProperties
    <2>2. QED
      BY <1>1, <2>1 DEF G
  <1> HIDE DEF b
  <1>7. /\ PrivSteps \in Seq(S) /\ Len(PrivSteps) = 6 + G + 1
        /\ \A j \in 1 .. 6 + G + 1 :
             PrivSteps[j] = IF j <= 6 + G THEN b[j] ELSE z[j - (6 + G)]
    <2>1. /\ b \o z \in Seq(S)
          /\ Len(b \o z) = Len(b) + Len(z)
          /\ \A j \in 1 .. Len(b) + Len(z) : (b \o z)[j] =
               IF j <= Len(b) THEN b[j] ELSE z[j - Len(b)]
      BY <1>1, <1>6, ConcatProperties
    <2>2. Len(b) = 6 + G /\ Len(z) = 1
      BY <1>1, <1>6
    <2>3. QED
      BY <1>5, <2>1, <2>2
  <1>8. DOMAIN PrivSteps = 1 .. Len(PrivSteps)
    BY <1>7, LenProperties
  <1>9. G \in Nat /\ 6 + G + 1 = G + 7
    BY <1>3
  <1>10. \A j \in 1 .. G + 6 : PrivSteps[j] = IF j <= 6 THEN a[j] ELSE GrabSteps[j - 6]
    BY <1>6, <1>7, <1>9
  <1>11. PrivSteps[G + 7] = "init"
    <2>1. G + 7 \in 1 .. 6 + G + 1 /\ ~(G + 7 <= 6 + G) /\ (G + 7) - (6 + G) = 1
      BY <1>9
    <2>2. QED
      BY <1>1, <1>7, <2>1
  <1>12. \A j \in 7 .. G + 6 : PrivSteps[j] \in GrabSet /\ PrivSteps[j] \in Held(GrabSteps)
    <2> SUFFICES ASSUME NEW j \in 7 .. G + 6
                 PROVE  PrivSteps[j] \in GrabSet /\ PrivSteps[j] \in Held(GrabSteps)
      OBVIOUS
    <2>1. j - 6 \in 1 .. G /\ j \in 1 .. G + 6 /\ ~(j <= 6)
      BY <1>9
    <2>2. QED
      BY <1>4, <1>10, <2>1
  <1>13. \A j \in 1 .. 6 : PrivSteps[j] = a[j]
    BY <1>9, <1>10
  <1>14. QED
    BY <1>2, <1>7, <1>8, <1>9, <1>11, <1>12, <1>13 DEF G
-----------------------------------------------------------------------------
(* What a step that is not of a private mount leaves alone.                *)
LEMMA PrivSame ==
  ASSUME IInv, UNCHANGED priv
  PROVE  PrivHeld'
  BY DEF IInv, PrivHeld

(* zus_mount_thread before its loop.                                       *)
LEMMA InitPreserves ==
  ASSUME IInv, MtInit \/ LoadOne \/ LoadFail \/ Loaded
  PROVE  IInv'
  <1> USE DEF MtInit, LoadOne, LoadFail, Loaded, MtRuns, MtGoto, AfterInit
  <1>1. Typed'
    <2>1. CASE MtInit
      BY <2>1, MountAssumption DEF IInv, Typed, TypeOK, Stoppers, NoReq, stopVars, mtVars
    <2>2. CASE LoadOne
      BY <2>2, MountAssumption DEF IInv, Typed, TypeOK, Stoppers, NoReq, stopVars, mtVars
    <2>3. CASE LoadFail
      BY <2>3, MountAssumption DEF IInv, Typed, TypeOK, Stoppers, NoReq, stopVars, mtVars
    <2>4. CASE Loaded
      BY <2>4, MountAssumption DEF IInv, Typed, TypeOK, Stoppers, NoReq, stopVars, mtVars
    <2>5. QED
      BY <2>1, <2>2, <2>3, <2>4
  <1>2. ReqNamed' /\ Fresh' /\ Starting'
    BY DEF IInv, Typed, TypeOK, ReqNamed, Fresh, Starting, Mounted, stopVars, mtVars
  <1>3. QuietEnd' /\ Ends'
    BY DEF IInv, Typed, TypeOK, Fresh, QuietEnd, Ends, Signalled, Stoppers, stopVars, mtVars
  <1>4. ServedUp' /\ MountsWithPool'
    BY DEF IInv, Typed, TypeOK, Fresh, Starting, QuietEnd, Ends, ServedUp, MountsWithPool, PoolStopped,
           Signalled, Mounted, stopVars, mtVars
  <1>5. SbWhole'
    BY DEF IInv, Typed, TypeOK, Fresh, Starting, SbWhole, stopVars, mtVars
  <1>6. PrivHeld'
    BY PrivSame
  <1>7. QED
    BY <1>1, <1>2, <1>3, <1>4, <1>5, <1>6 DEF IInv

(* Its loop around the requests.                                           *)
LEMMA LoopPreserves ==
  ASSUME IInv, Loop \/ RecvErr \/ NoPoolNeeded \/ OtherReq \/ MountDone \/ MtExit \/ RunsUnloaded
  PROVE  IInv'
  <1> USE DEF Loop, RecvErr, NoPoolNeeded, OtherReq, MountDone, MtExit, RunsUnloaded, MtRuns,
              MtGoto
  <1>1. Typed'
    <2>1. CASE Loop
      BY <2>1 DEF IInv, Typed, TypeOK, Stoppers, NoReq, stopVars, mtVars
    <2>2. CASE RecvErr
      BY <2>2 DEF IInv, Typed, TypeOK, Stoppers, NoReq, stopVars, mtVars
    <2>3. CASE NoPoolNeeded
      BY <2>3 DEF IInv, Typed, TypeOK, Stoppers, NoReq, stopVars, mtVars
    <2>4. CASE OtherReq
      BY <2>4 DEF IInv, Typed, TypeOK, Stoppers, NoReq, stopVars, mtVars
    <2>5. CASE MountDone
      BY <2>5 DEF IInv, Typed, TypeOK, Stoppers, NoReq, stopVars, mtVars
    <2>6. CASE MtExit
      <3>1. NoReq \in [k : Requests \cup {"none"}, s : Sbs \cup {NoReq.s}, err : BOOLEAN]
        BY DEF NoReq
      <3>2. req' \in {req, NoReq} /\ mpc' \in {"free", "gone"}
        BY <2>6
      <3>3. UNCHANGED <<proc, main, has, pool, stopVars, libs, priv>>
        BY <2>6
      <3>4. QED
        BY <3>1, <3>2, <3>3 DEF IInv, Typed, TypeOK, stopVars
    <2>7. CASE RunsUnloaded
      BY <2>7 DEF IInv, Typed, TypeOK, Stoppers, NoReq, stopVars, mtVars
    <2>8. QED
      BY <2>1, <2>2, <2>3, <2>4, <2>5, <2>6, <2>7
  <1>2. ReqNamed' /\ Fresh' /\ Starting'
    BY DEF IInv, Typed, TypeOK, ReqNamed, Fresh, Starting, Mounted, stopVars, mtVars
  <1>3. QuietEnd' /\ Ends'
    BY DEF IInv, Typed, TypeOK, Fresh, QuietEnd, Ends, Signalled, Stoppers, stopVars, mtVars
  <1>4. ServedUp' /\ MountsWithPool'
    BY DEF IInv, Typed, TypeOK, Fresh, Starting, QuietEnd, Ends, ServedUp, MountsWithPool, PoolStopped,
           Signalled, Mounted, stopVars, mtVars
  <1>5. SbWhole'
    BY DEF IInv, Typed, TypeOK, Fresh, Starting, SbWhole, stopVars, mtVars
  <1>6. PrivHeld'
    BY PrivSame
  <1>7. QED
    BY <1>1, <1>2, <1>3, <1>4, <1>5, <1>6 DEF IInv

(* A request.                                                              *)
LEMMA RecvPreserves ==
  ASSUME IInv, NEW k \in Requests, NEW s \in Sbs, Recv(k, s)
  PROVE  IInv'
  <1> USE DEF Recv, MtRuns, MtGoto, Requests
  <1>1. Typed'
    BY DEF IInv, Typed, TypeOK, Stoppers, NoReq, stopVars, mtVars
  <1>2. ReqNamed' /\ Fresh' /\ Starting'
    BY DEF IInv, Typed, TypeOK, ReqNamed, Fresh, Starting, Mounted, stopVars, mtVars
  <1>3. QuietEnd' /\ Ends'
    BY DEF IInv, Typed, TypeOK, Fresh, QuietEnd, Ends, Signalled, Stoppers, stopVars, mtVars
  <1>4. ServedUp' /\ MountsWithPool'
    BY DEF IInv, Typed, TypeOK, Fresh, Starting, QuietEnd, Ends, ServedUp, MountsWithPool, PoolStopped,
           Signalled, Mounted, stopVars, mtVars
  <1>5. SbWhole'
    BY DEF IInv, Typed, TypeOK, Fresh, Starting, SbWhole, stopVars, mtVars
  <1>6. PrivHeld'
    BY PrivSame
  <1>7. QED
    BY <1>1, <1>2, <1>3, <1>4, <1>5, <1>6 DEF IInv

(* The pool of the first mount.                                            *)
LEMMA PoolPreserves ==
  ASSUME IInv, StartPool \/ PoolUp \/ PoolFail
  PROVE  IInv'
  <1> USE DEF StartPool, PoolUp, PoolFail, MtRuns, MtGoto
  <1>1. Typed'
    BY DEF IInv, Typed, TypeOK, Stoppers, NoReq, stopVars, mtVars
  <1>2. ReqNamed' /\ Fresh' /\ Starting'
    BY DEF IInv, Typed, TypeOK, ReqNamed, Fresh, Starting, Mounted, stopVars, mtVars
  <1>3. QuietEnd' /\ Ends'
    BY DEF IInv, Typed, TypeOK, Fresh, QuietEnd, Ends, Signalled, Stoppers, stopVars, mtVars
  <1>4. ServedUp' /\ MountsWithPool'
    <2>1. CASE StartPool
      BY <2>1 DEF IInv, Typed, TypeOK, Fresh, Starting, QuietEnd, Ends, ServedUp, MountsWithPool, PoolStopped,
             Signalled, Mounted, Stoppers, stopVars, mtVars
    <2>2. CASE PoolUp
      BY <2>2 DEF IInv, Typed, TypeOK, Fresh, Starting, QuietEnd, Ends, ServedUp, MountsWithPool, PoolStopped,
             Signalled, Mounted, Stoppers, stopVars, mtVars
    <2>3. CASE PoolFail
      BY <2>3 DEF IInv, Typed, TypeOK, Fresh, Starting, QuietEnd, Ends, ServedUp, MountsWithPool, PoolStopped,
             Signalled, Mounted, Stoppers, stopVars, mtVars
    <2>4. QED
      BY <2>1, <2>2, <2>3
  <1>5. SbWhole'
    BY DEF IInv, Typed, TypeOK, Fresh, Starting, SbWhole, stopVars, mtVars
  <1>6. PrivHeld'
    BY PrivSame
  <1>7. QED
    BY <1>1, <1>2, <1>3, <1>4, <1>5, <1>6 DEF IInv

(* main.                                                                   *)
LEMMA MainPreserves ==
  ASSUME IInv, CreateMounter \/ CreateFail \/ ZusJoin \/ ZusJoinLate \/ ZusJoined
  PROVE  IInv'
  <1> USE DEF CreateMounter, CreateFail, ZusJoin, ZusJoinLate, ZusJoined, MainRuns
  <1>1. Typed'
    <2>1. CASE CreateMounter
      BY <2>1 DEF IInv, Typed, TypeOK, Stoppers, NoReq, stopVars, mtVars
    <2>2. CASE CreateFail
      BY <2>2 DEF IInv, Typed, TypeOK, Stoppers, NoReq, stopVars, mtVars
    <2>3. CASE ZusJoin
      BY <2>3 DEF IInv, Typed, TypeOK, Stoppers, NoReq, stopVars, mtVars
    <2>4. CASE ZusJoinLate
      BY <2>4 DEF IInv, Typed, TypeOK, Stoppers, NoReq, stopVars, mtVars
    <2>5. CASE ZusJoined
      BY <2>5 DEF IInv, Typed, TypeOK, Stoppers, NoReq, stopVars, mtVars
    <2>6. QED
      BY <2>1, <2>2, <2>3, <2>4, <2>5
  <1>2. ReqNamed' /\ Fresh' /\ Starting'
    BY DEF IInv, Typed, TypeOK, ReqNamed, Fresh, Starting, Mounted, stopVars, mtVars
  <1>3. QuietEnd' /\ Ends'
    <2>1. CASE CreateMounter
      BY <2>1 DEF IInv, Typed, TypeOK, Fresh, Starting, QuietEnd, Ends, Signalled, Stoppers, stopVars,
                  mtVars
    <2>2. CASE CreateFail
      BY <2>2 DEF IInv, Typed, TypeOK, Fresh, Starting, QuietEnd, Ends, Signalled, Stoppers, stopVars,
                  mtVars
    <2>3. CASE ZusJoin
      BY <2>3 DEF IInv, Typed, TypeOK, Fresh, Starting, QuietEnd, Ends, Signalled, Stoppers, stopVars,
                  mtVars
    <2>4. CASE ZusJoinLate
      BY <2>4 DEF IInv, Typed, TypeOK, Fresh, Starting, QuietEnd, Ends, Signalled, Stoppers, stopVars,
                  mtVars
    <2>5. CASE ZusJoined
      BY <2>5 DEF IInv, Typed, TypeOK, Fresh, Starting, QuietEnd, Ends, Signalled, Stoppers, stopVars,
                  mtVars
    <2>6. QED
      BY <2>1, <2>2, <2>3, <2>4, <2>5
  <1>4. ServedUp' /\ MountsWithPool'
    BY DEF IInv, Typed, TypeOK, Fresh, Starting, QuietEnd, Ends, ServedUp, MountsWithPool, PoolStopped,
           Signalled, Mounted, stopVars, mtVars
  <1>5. SbWhole'
    BY DEF IInv, Typed, TypeOK, Fresh, Starting, SbWhole, stopVars, mtVars
  <1>6. PrivHeld'
    BY PrivSame
  <1>7. QED
    BY <1>1, <1>2, <1>3, <1>4, <1>5, <1>6 DEF IInv

(* zus_mount_thread_stop.                                                  *)
LEMMA StopPreserves ==
  ASSUME IInv, NEW x \in Stoppers,
         \/ StopPool(x) \/ StopPoolRaces(x) \/ SetStop(x) \/ StopJoin(x)
         \/ StopJoinTwice(x) \/ StopJoined(x) \/ Unregister(x) \/ Exit(x)
  PROVE  IInv'
  <1> USE DEF StopPool, StopPoolRaces, SetStop, StopJoin, StopJoinTwice, StopJoined, Unregister,
              Exit, Stops, StopGoto
  <1>1. Typed'
    <2>1. CASE StopPool(x)
      BY <2>1 DEF IInv, Typed, TypeOK, Stoppers, NoReq, stopVars, mtVars
    <2>2. CASE StopPoolRaces(x)
      BY <2>2 DEF IInv, Typed, TypeOK, Stoppers, NoReq, stopVars, mtVars
    <2>3. CASE SetStop(x)
      BY <2>3 DEF IInv, Typed, TypeOK, Stoppers, NoReq, stopVars, mtVars
    <2>4. CASE StopJoin(x)
      BY <2>4 DEF IInv, Typed, TypeOK, Stoppers, NoReq, stopVars, mtVars
    <2>5. CASE StopJoinTwice(x)
      BY <2>5 DEF IInv, Typed, TypeOK, Stoppers, NoReq, stopVars, mtVars
    <2>6. CASE StopJoined(x)
      BY <2>6 DEF IInv, Typed, TypeOK, Stoppers, NoReq, stopVars, mtVars
    <2>7. CASE Unregister(x)
      <3>1. closed' \in Nat
        BY <2>7 DEF IInv, Typed, TypeOK
      <3>2. spc' \in [Stoppers -> {"idle", "pool", "flag", "join", "wait", "unreg", "exit"}]
        BY <2>7 DEF IInv, Typed, TypeOK
      <3>3. /\ brk' = brk /\ stopF' = stopF /\ thread' = FALSE
            /\ UNCHANGED <<proc, main, mpc, has, req, pool, join, host, libs, priv>>
        BY <2>7 DEF mtVars
      <3>4. {brk, stopF, thread}' \subseteq BOOLEAN
        BY <3>3 DEF IInv, Typed, TypeOK
      <3> HIDE DEF Unregister
      <3>5. QED
        BY <3>1, <3>2, <3>3, <3>4 DEF IInv, Typed, TypeOK
    <2>8. CASE Exit(x)
      BY <2>8 DEF IInv, Typed, TypeOK, Stoppers, NoReq, stopVars, mtVars
    <2>9. QED
      BY <2>1, <2>2, <2>3, <2>4, <2>5, <2>6, <2>7, <2>8
  <1>2. ReqNamed' /\ Fresh' /\ Starting'
    <2>1. CASE StopPool(x)
      BY <2>1 DEF IInv, Typed, TypeOK, ReqNamed, Fresh, Starting, Mounted, stopVars, mtVars
    <2>2. CASE StopPoolRaces(x)
      BY <2>2 DEF IInv, Typed, TypeOK, ReqNamed, Fresh, Starting, Mounted, stopVars, mtVars
    <2>3. CASE SetStop(x)
      BY <2>3 DEF IInv, Typed, TypeOK, ReqNamed, Fresh, Starting, Mounted, stopVars, mtVars
    <2>4. CASE StopJoin(x)
      BY <2>4 DEF IInv, Typed, TypeOK, ReqNamed, Fresh, Starting, Mounted, stopVars, mtVars
    <2>5. CASE StopJoinTwice(x)
      BY <2>5 DEF IInv, Typed, TypeOK, ReqNamed, Fresh, Starting, Mounted, stopVars, mtVars
    <2>6. CASE StopJoined(x)
      BY <2>6 DEF IInv, Typed, TypeOK, ReqNamed, Fresh, Starting, Mounted, stopVars, mtVars
    <2>7. CASE Unregister(x)
      BY <2>7 DEF IInv, Typed, TypeOK, ReqNamed, Fresh, Starting, Mounted, stopVars, mtVars
    <2>8. CASE Exit(x)
      BY <2>8 DEF IInv, Typed, TypeOK, ReqNamed, Fresh, Starting, Mounted, stopVars, mtVars
    <2>9. QED
      BY <2>1, <2>2, <2>3, <2>4, <2>5, <2>6, <2>7, <2>8
  <1>3. QuietEnd' /\ Ends'
    <2>1. CASE StopPool(x)
      BY <2>1 DEF IInv, Typed, TypeOK, Fresh, Starting, QuietEnd, Ends, Signalled, Stoppers, stopVars,
                  mtVars
    <2>2. CASE StopPoolRaces(x)
      BY <2>2 DEF IInv, Typed, TypeOK, Fresh, Starting, QuietEnd, Ends, Signalled, Stoppers, stopVars,
                  mtVars
    <2>3. CASE SetStop(x)
      BY <2>3 DEF IInv, Typed, TypeOK, Fresh, Starting, QuietEnd, Ends, Signalled, Stoppers, stopVars,
                  mtVars
    <2>4. CASE StopJoin(x)
      BY <2>4 DEF IInv, Typed, TypeOK, Fresh, Starting, QuietEnd, Ends, Signalled, Stoppers, stopVars,
                  mtVars
    <2>5. CASE StopJoinTwice(x)
      BY <2>5 DEF IInv, Typed, TypeOK, Fresh, Starting, QuietEnd, Ends, Signalled, Stoppers, stopVars,
                  mtVars
    <2>6. CASE StopJoined(x)
      BY <2>6 DEF IInv, Typed, TypeOK, Fresh, Starting, QuietEnd, Ends, Signalled, Stoppers, stopVars,
                  mtVars
    <2>7. CASE Unregister(x)
      BY <2>7 DEF IInv, Typed, TypeOK, Fresh, Starting, QuietEnd, Ends, Signalled, Stoppers, stopVars,
                  mtVars
    <2>8. CASE Exit(x)
      BY <2>8 DEF IInv, Typed, TypeOK, Fresh, Starting, QuietEnd, Ends, Signalled, Stoppers, stopVars,
                  mtVars
    <2>9. QED
      BY <2>1, <2>2, <2>3, <2>4, <2>5, <2>6, <2>7, <2>8
  <1>4. ServedUp' /\ MountsWithPool'
    <2>1. CASE StopPool(x)
      BY <2>1 DEF IInv, Typed, TypeOK, Fresh, Starting, QuietEnd, Ends, ServedUp, MountsWithPool, PoolStopped,
             Signalled, Mounted, Stoppers, stopVars, mtVars
    <2>2. CASE StopPoolRaces(x)
      BY <2>2 DEF IInv, Typed, TypeOK, Fresh, Starting, QuietEnd, Ends, ServedUp, MountsWithPool, PoolStopped,
             Signalled, Mounted, Stoppers, stopVars, mtVars
    <2>3. CASE SetStop(x)
      BY <2>3 DEF IInv, Typed, TypeOK, Fresh, Starting, QuietEnd, Ends, ServedUp, MountsWithPool, PoolStopped,
             Signalled, Mounted, Stoppers, stopVars, mtVars
    <2>4. CASE StopJoin(x)
      BY <2>4 DEF IInv, Typed, TypeOK, Fresh, Starting, QuietEnd, Ends, ServedUp, MountsWithPool, PoolStopped,
             Signalled, Mounted, Stoppers, stopVars, mtVars
    <2>5. CASE StopJoinTwice(x)
      BY <2>5 DEF IInv, Typed, TypeOK, Fresh, Starting, QuietEnd, Ends, ServedUp, MountsWithPool, PoolStopped,
             Signalled, Mounted, Stoppers, stopVars, mtVars
    <2>6. CASE StopJoined(x)
      BY <2>6 DEF IInv, Typed, TypeOK, Fresh, Starting, QuietEnd, Ends, ServedUp, MountsWithPool, PoolStopped,
             Signalled, Mounted, Stoppers, stopVars, mtVars
    <2>7. CASE Unregister(x)
      BY <2>7 DEF IInv, Typed, TypeOK, Fresh, Starting, QuietEnd, Ends, ServedUp, MountsWithPool, PoolStopped,
             Signalled, Mounted, Stoppers, stopVars, mtVars
    <2>8. CASE Exit(x)
      BY <2>8 DEF IInv, Typed, TypeOK, Fresh, Starting, QuietEnd, Ends, ServedUp, MountsWithPool, PoolStopped,
             Signalled, Mounted, Stoppers, stopVars, mtVars
    <2>9. QED
      BY <2>1, <2>2, <2>3, <2>4, <2>5, <2>6, <2>7, <2>8
  <1>5. SbWhole'
    BY DEF IInv, Typed, TypeOK, Fresh, Starting, SbWhole, stopVars, mtVars
  <1>6. PrivHeld'
    BY PrivSame
  <1>7. QED
    BY <1>1, <1>2, <1>3, <1>4, <1>5, <1>6 DEF IInv

(* A signal.                                                               *)
LEMMA SignalPreserves ==
  ASSUME IInv, NEW h \in Hosts, Signal(h)
  PROVE  IInv'
  <1> USE DEF Signal
  <1>1. Typed'
    BY MountAssumption DEF IInv, Typed, TypeOK, Stoppers, NoReq, stopVars, mtVars
  <1>2. ReqNamed' /\ Fresh' /\ Starting'
    BY DEF IInv, Typed, TypeOK, ReqNamed, Fresh, Starting, Mounted, stopVars, mtVars
  <1>3. QuietEnd' /\ Ends'
    BY MountAssumption DEF IInv, Typed, TypeOK, Fresh, QuietEnd, Ends, Signalled, Stoppers, stopVars,
                           mtVars
  <1>4. ServedUp' /\ MountsWithPool'
    BY DEF IInv, Typed, TypeOK, Fresh, Starting, QuietEnd, Ends, ServedUp, MountsWithPool, PoolStopped,
           Signalled, Mounted, stopVars, mtVars
  <1>5. SbWhole'
    BY DEF IInv, Typed, TypeOK, Fresh, Starting, SbWhole, stopVars, mtVars
  <1>6. PrivHeld'
    BY PrivSame
  <1>7. QED
    BY <1>1, <1>2, <1>3, <1>4, <1>5, <1>6 DEF IInv

(* zus_mount and zus_umount at the resources of one super block.           *)
LEMMA ServePreserves ==
  ASSUME IInv, MountStep \/ MountFail \/ Umount
  PROVE  IInv'
  <1> DEFINE r == req.s
  <1>1. /\ mpc = "serve" /\ r \in Sbs
        /\ mpc' \in {"serve", "next"}
        /\ UNCHANGED <<proc, main, pool, stopVars, libs, priv>>
        /\ req' = req \/ req' = [req EXCEPT !.err = TRUE]
    BY DEF IInv, ReqNamed, MountStep, MountFail, Umount, MtRuns, MtGoto
  <1>2. has \in [Sbs -> SUBSET Held(MountSteps)]
    BY DEF IInv, Typed
  <1>3. /\ has' \in [Sbs -> SUBSET Held(MountSteps)]
        /\ \A s \in Sbs \ {r} : has'[s] = has[s]
        /\ mpc' = "next" => has'[r] = {}
        /\ mpc' = "serve" => MountStep
    <2>1. CASE MountStep
      <3>1. has[r] \in SUBSET Held(MountSteps) /\ has[r] # Held(MountSteps)
        BY <1>1, <1>2, <2>1 DEF MountStep
      <3>2. NextStep(MountSteps, has[r]) \in Held(MountSteps)
        BY <3>1, NextStepHeld
      <3>3. mpc' = "serve"
        BY <1>1, <2>1 DEF MountStep
      <3>4. has' = [has EXCEPT ![r] = has[r] \cup {NextStep(MountSteps, has[r])}]
        BY <2>1 DEF MountStep
      <3>5. QED
        BY <1>1, <1>2, <2>1, <3>1, <3>2, <3>3, <3>4
    <2>2. CASE MountFail \/ Umount
      <3>1. has' = [has EXCEPT ![r] = has[r] \ SbiFini] /\ mpc' = "next"
        BY <2>2 DEF MountFail, Umount, MtGoto
      <3>2. has[r] \ SbiFini = {}
        BY <1>1, <1>2, MountStepsFacts
      <3>3. QED
        BY <1>1, <1>2, <3>1, <3>2
    <2>3. QED
      BY <2>1, <2>2
  <1>4. /\ req' \in [k : Requests \cup {"none"}, s : Sbs \cup {NoReq.s}, err : BOOLEAN]
        /\ req'.k = req.k /\ req'.s = r
    BY <1>1 DEF IInv, Typed
  <1>5. Typed'
    BY <1>1, <1>3, <1>4 DEF IInv, Typed, TypeOK, stopVars
  <1>6. ReqNamed' /\ Fresh' /\ Starting'
    BY <1>1, <1>4 DEF IInv, ReqNamed, Fresh, Starting
  <1>7. QuietEnd' /\ Ends'
    BY <1>1 DEF IInv, QuietEnd, Ends, Signalled, stopVars
  <1>8. ServedUp' /\ MountsWithPool'
    <2>1. ServedUp'
      BY <1>1, <1>4 DEF IInv, ServedUp, PoolStopped, stopVars
    <2>2. ASSUME ~PoolStopped, NEW s \in Sbs, has'[s] # {}
          PROVE  pool = "up"
      <3>1. CASE mpc' = "serve"
        BY <1>3, <2>2, <3>1 DEF IInv, ServedUp, MountStep, MtRuns
      <3>2. CASE mpc' = "next"
        <4>1. s # r /\ has[s] # {}
          BY <1>3, <2>2, <3>2
        <4>2. QED
          BY <1>1, <2>2, <4>1 DEF IInv, MountsWithPool, Mounted
      <3>3. QED
        BY <1>1, <3>1, <3>2
    <2>3. QED
      BY <1>1, <2>1, <2>2 DEF MountsWithPool, Mounted, PoolStopped, stopVars
  <1>9. SbWhole'
    <2> SUFFICES ASSUME NEW s \in Sbs,
                        ~(mpc' = "serve" /\ req'.k = "mount" /\ req'.s = s)
                 PROVE  has'[s] \in {{}, Held(MountSteps)}
      BY DEF SbWhole
    <2>1. CASE s = r
      <3>1. mpc' # "serve"
        BY <1>3, <1>4, <2>1 DEF MountStep
      <3>2. QED
        BY <1>1, <1>3, <2>1, <3>1
    <2>2. CASE s # r
      BY <1>3, <2>2 DEF IInv, SbWhole
    <2>3. QED
      BY <2>1, <2>2
  <1>10. PrivHeld'
    BY <1>1, PrivSame
  <1>11. QED
    BY <1>5, <1>6, <1>7, <1>8, <1>9, <1>10 DEF IInv

(* A step of _pmem_grab that fails leaves what the steps of _pmem_grab     *)
(* before it took, any other leaves nothing.                               *)
LEMMA UnwindLeaves ==
  ASSUME NEW at \in 0 .. Len(PrivSteps) - 1,
         NEW h, h = {PrivSteps[j] : j \in 1 .. at} \ {"numa"}
  PROVE  h \ Unwind(PrivSteps[at + 1]) =
           IF PrivSteps[at + 1] \in Held(GrabSteps) THEN h \cap Held(GrabSteps) ELSE {}
  <1> DEFINE G == Len(GrabSteps)
             P(j) == PrivSteps[j]
  <1>1. G \in Nat
    BY GrabStepsFacts
  <1>2. /\ Len(PrivSteps) = G + 7
        /\ DOMAIN PrivSteps = 1 .. G + 7
        /\ P(1) = "zip" /\ P(2) = "rootfd" /\ P(3) = "numa"
        /\ P(4) = "zbt" /\ P(5) = "sbi" /\ P(6) = "kmount"
        /\ \A j \in 7 .. G + 6 : P(j) \in GrabSet /\ P(j) \in Held(GrabSteps)
        /\ P(G + 7) = "init"
    BY PrivStepsFacts
  <1>3. at \in 0 .. G + 6
    BY <1>1, <1>2
  <1>4. \A x \in h : x # "numa" /\ \E j \in 1 .. at : x = P(j)
    OBVIOUS
  <1>10. Held(GrabSteps) \subseteq GrabSet
    <2>1. \A j \in DOMAIN GrabSteps : GrabSteps[j] \in GrabSet
      BY GrabStepsFacts, ElementOfSeq, LenProperties
    <2>2. QED
      BY <2>1 DEF Held
  <1>11. \A j \in 1 .. 6 : P(j) \notin Held(GrabSteps)
    BY <1>2, <1>10 DEF GrabSet
  <1> HIDE DEF G
  <1>5. CASE at = 0
    <2>1. h = {}
      BY <1>4, <1>5
    <2>2. QED
      BY <2>1
  <1>6. CASE at \in 1 .. 5
    <2>1. \A x \in h : x \in {"zip", "rootfd", "zbt", "sbi"}
      BY <1>2, <1>4, <1>6
    <2>2. at <= 3 => \A x \in h : x \in {"zip", "rootfd"}
      BY <1>2, <1>4, <1>6
    <2>3. at = 1 => \A x \in h : x = "zip"
      BY <1>2, <1>4, <1>6
    <2>4. at <= 4 => \A x \in h : x \in {"zip", "rootfd", "zbt"}
      BY <1>2, <1>4, <1>6
    <2>5. h \subseteq Unwind(P(at + 1))
      BY <1>2, <1>6, <2>1, <2>2, <2>3, <2>4 DEF Unwind
    <2>6. P(at + 1) \notin Held(GrabSteps)
      BY <1>6, <1>11
    <2>7. QED
      BY <2>5, <2>6
  <1>7. CASE at \in 6 .. G + 5
    <2>1. at + 1 \in 7 .. G + 6
      BY <1>1, <1>7
    <2>2. P(at + 1) \in GrabSet /\ P(at + 1) \in Held(GrabSteps)
      BY <1>2, <2>1
    <2>3. Unwind(P(at + 1)) = {"zip", "rootfd", "zbt", "sbi", "kmount"}
      BY <2>2 DEF Unwind, GrabSet
    <2>4. \A j \in 1 .. at : \/ P(j) \in {"zip", "rootfd", "numa", "zbt", "sbi", "kmount"}
                             \/ P(j) \in Held(GrabSteps)
      <3> SUFFICES ASSUME NEW j \in 1 .. at
                   PROVE  \/ P(j) \in {"zip", "rootfd", "numa", "zbt", "sbi", "kmount"}
                          \/ P(j) \in Held(GrabSteps)
        OBVIOUS
      <3>1. j \in 1 .. 6 \/ j \in 7 .. G + 6
        BY <1>1, <1>7
      <3>2. QED
        BY <1>2, <3>1
    <2>5. \A x \in h : x \in Unwind(P(at + 1)) <=> x \notin Held(GrabSteps)
      BY <1>4, <1>10, <2>3, <2>4 DEF GrabSet
    <2>6. QED
      BY <2>2, <2>5
  <1>8. CASE at = G + 6
    <2>1. P(at + 1) = "init"
      <3>1. at + 1 = G + 7
        BY <1>1, <1>8
      <3>2. QED
        BY <1>2, <3>1
    <2>2. Unwind(P(at + 1)) = Held(PrivSteps)
      BY <2>1 DEF Unwind
    <2>3. \A j \in 1 .. at : j \in DOMAIN PrivSteps
      BY <1>1, <1>2, <1>8
    <2>4. h \subseteq Held(PrivSteps)
      BY <1>4, <2>3 DEF Held
    <2>5. P(at + 1) \notin Held(GrabSteps)
      BY <1>10, <2>1 DEF GrabSet
    <2>6. QED
      BY <2>2, <2>4, <2>5
  <1>9. QED
    BY <1>1, <1>3, <1>5, <1>6, <1>7, <1>8

(* The steps of zus_private_mount and zus_private_umount.                  *)
LEMMA PrivPreserves ==
  ASSUME IInv, PrivStep \/ PrivFail \/ PrivUmount
  PROVE  IInv'
  <1> DEFINE N == Len(PrivSteps)
             R == [at : 0 .. N, has : SUBSET Held(PrivSteps), left : SUBSET Held(PrivSteps)]
  <1>1. N \in Nat /\ DOMAIN PrivSteps = 1 .. N
    BY GrabStepsFacts, PrivStepsFacts
  <1>2. priv \in R /\ PrivHeld
    BY DEF IInv, Typed
  <1>3. UNCHANGED <<proc, main, mtVars, pool, stopVars, libs>>
    BY DEF PrivStep, PrivFail, PrivUmount
  <1>4. priv' \in R /\ PrivHeld'
    <2>1. CASE PrivStep
      <3> DEFINE at == priv.at + 1
      <3>1. priv' = [priv EXCEPT !.at = at, !.has = @ \cup ({PrivSteps[at]} \ {"numa"})]
        BY <2>1 DEF PrivStep
      <3>2. at \in 1 .. N /\ priv.at \in Nat
        BY <1>1, <1>2, <2>1 DEF PrivStep
      <3>3. 1 .. at = (1 .. priv.at) \cup {at}
        BY <3>2
      <3>4. {PrivSteps[at]} \ {"numa"} \subseteq Held(PrivSteps)
        BY <1>1, <3>2 DEF Held
      <3>5. /\ priv'.at = at /\ priv'.left = priv.left
            /\ priv'.has = priv.has \cup ({PrivSteps[at]} \ {"numa"})
        BY <1>2, <3>1
      <3>6. priv' \in R
        <4>1. priv' = [at |-> priv'.at, has |-> priv'.has, left |-> priv'.left]
          BY <1>2, <3>1
        <4>2. /\ priv'.at \in 0 .. N /\ priv'.has \subseteq Held(PrivSteps)
              /\ priv'.left \subseteq Held(PrivSteps)
          BY <1>1, <1>2, <3>2, <3>4, <3>5
        <4>3. QED
          BY <4>1, <4>2
      <3>7. PrivHeld'
        <4>1. {PrivSteps[j] : j \in 1 .. at}
                = {PrivSteps[j] : j \in 1 .. priv.at} \cup {PrivSteps[at]}
          BY <3>3
        <4>2. QED
          BY <1>2, <3>5, <4>1 DEF PrivHeld
      <3>8. QED
        BY <3>6, <3>7
    <2>2. CASE PrivFail
      <3> DEFINE l == priv.has \ Unwind(PrivSteps[priv.at + 1])
      <3>1. priv' = [at |-> 0, has |-> {}, left |-> priv.left \cup l]
        BY <2>2 DEF PrivFail
      <3>2. priv.at \in 0 .. N - 1
        BY <1>1, <1>2, <2>2 DEF PrivFail
      <3>4. priv' \in R
        BY <1>1, <1>2, <3>1
      <3>5. PrivHeld'
        BY <3>1 DEF PrivHeld
      <3>6. QED
        BY <3>4, <3>5
    <2>3. CASE PrivUmount
      <3>1. priv' = [priv EXCEPT !.at = 0, !.has = @ \ Held(PrivSteps)]
        BY <2>3 DEF PrivUmount
      <3>2. priv.has \ Held(PrivSteps) = {}
        BY <1>2
      <3>3. priv'.at = 0 /\ priv'.has = {} /\ priv'.left = priv.left
        BY <1>2, <3>1, <3>2
      <3>4. priv' \in R
        <4>1. priv' = [at |-> priv'.at, has |-> priv'.has, left |-> priv'.left]
          BY <1>2, <3>1
        <4>2. /\ priv'.at \in 0 .. N /\ priv'.has \subseteq Held(PrivSteps)
              /\ priv'.left \subseteq Held(PrivSteps)
          BY <1>1, <1>2, <3>3
        <4>3. QED
          BY <4>1, <4>2
      <3>5. PrivHeld'
        BY <3>3 DEF PrivHeld
      <3>6. QED
        BY <3>4, <3>5
    <2>4. QED
      BY <2>1, <2>2, <2>3
  <1>5. Typed'
    <2>1. /\ priv'.at \in 0 .. Len(PrivSteps)
          /\ priv'.has \cup priv'.left \subseteq Held(PrivSteps)
      BY <1>4
    <2>2. QED
      BY <1>3, <1>4, <2>1 DEF IInv, Typed, TypeOK, mtVars, stopVars
  <1>6. ReqNamed' /\ Fresh' /\ Starting' /\ QuietEnd' /\ Ends'
    BY <1>3 DEF IInv, ReqNamed, Fresh, Starting, QuietEnd, Ends, Mounted, Signalled,
                mtVars, stopVars
  <1>7. ServedUp' /\ MountsWithPool' /\ SbWhole'
    BY <1>3 DEF IInv, ServedUp, MountsWithPool, PoolStopped, SbWhole, Mounted, Signalled,
                mtVars, stopVars
  <1>8. QED
    BY <1>4, <1>5, <1>6, <1>7 DEF IInv
-----------------------------------------------------------------------------
(* The daemon starts with nothing.                                         *)
LEMMA InitIInv == Init => IInv
  <1> SUFFICES ASSUME Init PROVE IInv
    OBVIOUS
  <1>1. Len(PrivSteps) \in Nat
    BY GrabStepsFacts, PrivStepsFacts
  <1>2. Typed
    <2>1. has \in [Sbs -> SUBSET Held(MountSteps)]
      BY DEF Init
    <2>2. req \in [k : Requests \cup {"none"}, s : Sbs \cup {NoReq.s}, err : BOOLEAN]
      BY DEF Init, NoReq
    <2>3. priv = [at |-> 0, has |-> {}, left |-> {}]
      BY DEF Init
    <2>4. priv \in [at : 0 .. Len(PrivSteps), has : SUBSET Held(PrivSteps),
                    left : SUBSET Held(PrivSteps)]
      BY <1>1, <2>3
    <2>5. TypeOK
      <3>1. {brk, stopF, thread} \subseteq BOOLEAN
        BY DEF Init
      <3>2. spc \in [Stoppers -> {"idle", "pool", "flag", "join", "wait", "unreg", "exit"}]
        BY DEF Init
      <3>3. libs \in 0 .. NLibs /\ closed \in Nat
        BY MountAssumption DEF Init
      <3>4. priv.at \in 0 .. Len(PrivSteps) /\ priv.has \cup priv.left \subseteq Held(PrivSteps)
        BY <1>1, <2>3
      <3>5. \A s \in Sbs : has[s] \subseteq Held(MountSteps)
        BY <2>1
      <3>6. QED
        BY <3>1, <3>2, <3>3, <3>4, <3>5 DEF Init, TypeOK
    <2>6. QED
      BY <2>1, <2>2, <2>4, <2>5 DEF Typed
  <1>3. ReqNamed /\ Fresh /\ Starting /\ ServedUp
    BY DEF Init, ReqNamed, Fresh, Starting, ServedUp, Mounted
  <1>4. QuietEnd /\ Ends
    BY DEF Init, QuietEnd, Ends, Signalled, Stoppers
  <1>5. MountsWithPool /\ SbWhole
    BY DEF Init, MountsWithPool, Mounted, SbWhole
  <1>6. PrivHeld
    BY DEF Init, PrivHeld
  <1>7. QED
    BY <1>2, <1>3, <1>4, <1>5, <1>6 DEF IInv

(* The inductive invariant holds on every path of the daemon, whichever    *)
(* thread a signal hits.                                                   *)
THEOREM MountInductive == Spec => []IInv
  <1>1. IInv /\ [Next]_vars => IInv'
    <2> SUFFICES ASSUME IInv, [Next]_vars PROVE IInv'
      OBVIOUS
    <2>1. CASE MtSteps \/ RecvErr \/ RunsUnloaded
      <3>1. CASE MtInit \/ LoadOne \/ LoadFail \/ Loaded
        BY <3>1, InitPreserves
      <3>2. CASE \/ Loop \/ RecvErr \/ NoPoolNeeded \/ OtherReq \/ MountDone \/ MtExit
                 \/ RunsUnloaded
        BY <3>2, LoopPreserves
      <3>3. CASE StartPool \/ PoolUp \/ PoolFail
        BY <3>3, PoolPreserves
      <3>4. CASE MountStep \/ MountFail \/ Umount
        BY <3>4, ServePreserves
      <3>5. QED
        BY <2>1, <3>1, <3>2, <3>3, <3>4 DEF MtSteps
    <2>2. ASSUME NEW k \in Requests, NEW s \in Sbs, Recv(k, s)
          PROVE  IInv'
      BY <2>2, RecvPreserves
    <2>3. CASE MainSteps
      BY <2>3, MainPreserves DEF MainSteps
    <2>4. ASSUME NEW h \in Hosts, Signal(h)
          PROVE  IInv'
      BY <2>4, SignalPreserves
    <2>5. ASSUME NEW x \in Stoppers, StopSteps(x)
          PROVE  IInv'
      BY <2>5, StopPreserves DEF StopSteps
    <2>6. CASE PrivStep \/ PrivFail \/ PrivUmount
      BY <2>6, PrivPreserves
    <2>7. CASE UNCHANGED vars
      <3>1. Typed'
        BY <2>7 DEF IInv, Typed, TypeOK, vars, mtVars, stopVars
      <3>2. ReqNamed' /\ Fresh' /\ Starting' /\ QuietEnd' /\ Ends'
        BY <2>7 DEF IInv, ReqNamed, Fresh, Starting, QuietEnd, Ends, Mounted, Signalled,
                    vars, mtVars, stopVars
      <3>3. ServedUp' /\ MountsWithPool' /\ SbWhole'
        BY <2>7 DEF IInv, ServedUp, MountsWithPool, PoolStopped, SbWhole, Mounted, Signalled,
                    vars, mtVars, stopVars
      <3>4. PrivHeld'
        BY <2>7, PrivSame DEF vars
      <3>5. QED
        BY <3>1, <3>2, <3>3, <3>4 DEF IInv
    <2>8. QED
      BY <2>1, <2>2, <2>3, <2>4, <2>5, <2>6, <2>7 DEF Next
  <1>2. QED
    BY InitIInv, <1>1, PTL DEF Spec

(* A file system is mounted only while the ZTs run, however many starts of *)
(* the pool failed before, until the mount thread leaves its loop or a     *)
(* zus_mount_thread_stop, of main or of a handler, has stopped the pool    *)
(* (zus_mount_thread).                                                     *)
THEOREM MountsServed == Spec => []MountsWithPool
  <1>1. IInv => MountsWithPool
    BY DEF IInv
  <1>2. QED
    BY MountInductive, <1>1, PTL

(* Every failing step of zus_mount gives back what the steps before it     *)
(* took (_zus_sbi_fini): a super block has all of its resources or none.   *)
THEOREM MountBalanced == Spec => []SbBalanced
  <1>1. IInv => SbBalanced
    <2> SUFFICES ASSUME IInv PROVE SbBalanced
      OBVIOUS
    <2>1. TypeOK /\ SbWhole
      BY Zenon DEF IInv, Typed
    <2>2. QED
      BY <2>1, Zenon DEF SbWhole, SbBalanced
  <1>2. QED
    BY MountInductive, <1>1, PTL

(* What a failed zus_private_mount leaves behind: what the steps of        *)
(* _pmem_grab before the one that failed took, and otherwise nothing.      *)
THEOREM PrivateMountLeaves == Spec => PrivateClean
  <1> DEFINE Grabbing == /\ priv.at < Len(PrivSteps)
                         /\ PrivSteps[priv.at + 1] \in Held(GrabSteps)
             Clean == priv'.at = 0 =>
                        /\ priv'.has = {}
                        /\ priv'.left = priv.left \cup
                             (IF Grabbing THEN priv.has \cap Held(GrabSteps) ELSE {})
  <1>1. IInv /\ [Next]_vars => [Clean]_vars
    <2> SUFFICES ASSUME IInv, Next PROVE Clean
      OBVIOUS
    <2>1. Len(PrivSteps) \in Nat /\ 7 <= Len(PrivSteps)
      BY GrabStepsFacts, PrivStepsFacts
    <2>2. /\ priv \in [at : 0 .. Len(PrivSteps), has : SUBSET Held(PrivSteps),
                       left : SUBSET Held(PrivSteps)]
          /\ PrivHeld
      BY DEF IInv, Typed
    <2>3. CASE PrivStep
      BY <2>1, <2>2, <2>3 DEF PrivStep
    <2>4. CASE PrivFail
      <3>1. priv.at \in 0 .. Len(PrivSteps) - 1
        BY <2>1, <2>2, <2>4 DEF PrivFail
      <3>2. priv.has \ Unwind(PrivSteps[priv.at + 1]) =
              IF PrivSteps[priv.at + 1] \in Held(GrabSteps) THEN priv.has \cap Held(GrabSteps)
              ELSE {}
        BY <2>2, <3>1, UnwindLeaves DEF PrivHeld
      <3>3. QED
        BY <2>1, <2>2, <2>4, <3>1, <3>2 DEF PrivFail
    <2>5. CASE PrivUmount
      BY <2>1, <2>2, <2>5 DEF PrivUmount
    <2>6. CASE UNCHANGED priv
      <3>1. ASSUME priv.at = 0 PROVE Clean
        <4>1. priv.has = {}
          BY <2>2, <3>1 DEF PrivHeld
        <4>2. QED
          BY <2>6, <4>1
      <3>2. QED
        BY <2>6, <3>1
    <2>7. QED
      BY <2>3, <2>4, <2>5, <2>6
      DEF Next, MtSteps, MainSteps, StopSteps, MtInit, LoadOne, LoadFail, Loaded, Loop,
          StartPool, PoolUp, PoolFail, NoPoolNeeded, MountStep, MountFail, MountDone, Umount,
          OtherReq, MtExit, RecvErr, RunsUnloaded, Recv, CreateMounter, CreateFail, ZusJoin,
          ZusJoinLate, ZusJoined, Signal, StopPool, StopPoolRaces, SetStop, StopJoin,
          StopJoinTwice, StopJoined, Unregister, Exit
  <1>2. QED
    BY MountInductive, <1>1, PTL DEF Spec, PrivateClean

(* The libraries are closed before the daemon exits, at most once by main  *)
(* and once by the handler of a signal, and under a running mount thread   *)
(* only by a stop that cannot join it (zus_mount_thread_stop).             *)
THEOREM LibrariesClosed == Spec => []LibsClosed
  <1>1. IInv => LibsClosed
    BY DEF IInv, QuietEnd, Ends, LibsClosed, Signalled, Stoppers
  <1>2. QED
    BY MountInductive, <1>1, PTL

(* Without a signal nothing crashes or hangs the daemon but the second     *)
(* join of a mount thread that is gone (zus_join, zus_mount_thread_stop).  *)
THEOREM SignalsOnly == Spec => []OnlySignalsHurt
  <1>1. IInv => OnlySignalsHurt
    BY DEF IInv, QuietEnd, Ends, OnlySignalsHurt
  <1>2. QED
    BY MountInductive, <1>1, PTL

(* Mounts are whole, and served by a pool until it is stopped (zus_mount,  *)
(* zus_mount_thread, zus_mount_thread_stop).                               *)
THEOREM MountsAreSafe == Spec => []MountsSafe
  BY MountsServed, MountBalanced, PTL DEF MountsSafe

(* Only a signal closes the libraries under the mount thread or a second   *)
(* time, or crashes the daemon before its last join (zus_mount_thread_stop). *)
THEOREM SignalsAreContained == Spec => []SignalsContained
  BY LibrariesClosed, SignalsOnly, PTL DEF SignalsContained
=============================================================================
