---------------------------- MODULE ZtPoolProofs ----------------------------
(***************************************************************************)
(* Proofs about ZtPool, for any number of channels and cpus, any set of    *)
(* online cpus and any steps that may fail.  What is said of one channel   *)
(* is false of two: the wait-til-zero object may reach zero between two of *)
(* them.                                                                   *)
(***************************************************************************)
EXTENDS ZtPool, FiniteSetTheorems, TLAPS

Stopping == ctl \in {"stop", "flag", "join"}
Serving == {"check", "wait", "op"}

(* A ZT that runs has a thread, and a thread the memory it runs on.        *)
Threads ==
  /\ \A z \in Zts : zpc[z] \notin {"none", "gone"} => z \in thread
  /\ \A z \in thread : z[1] \in zts /\ z[2] \in Online

(* The channels with memory: those of the loops so far.                    *)
Phase ==
  /\ ~num => ctl = "recv" /\ zts = {}
  /\ ctl = "chan" => zts = 0 .. ci - 1
  /\ ctl = "create" => ci < NChans /\ zts = 0 .. ci
  /\ ctl \in {"wait", "verify"} => zts = Chans
  /\ ctl = "recv" /\ num => zts = Chans
  /\ Stopping => \A c \in zts : c >= ci
  /\ ctl \in {"flag", "join"} => ci \in zts
  /\ ctl = "verify" => zi < NCpus

(* The loops over the cpus of a channel.                                   *)
Cursor ==
  /\ ctl = "create" => \A i \in Cpus :
       i >= zi => zpc[<<ci, i>>] = "none" /\ <<ci, i>> \notin stop
  /\ ctl = "join" => \A i \in Cpus : i < zi => <<ci, i>> \notin thread

(* The ZTs that have yet to release the wait-til-zero object.              *)
Pending == {z \in Zts : z[1] \in zts /\ z[2] \in Online /\ zpc[z] \in Initialising}

(* The object counts them; a ZT that is never created is dropped by a      *)
(* stop, which does not count any more.                                    *)
Counted ==
  /\ acnt >= Cardinality(Pending)
  /\ ~Stopping => acnt = Cardinality(Pending)

(* Until the pool is stopped every ZT the loops came to has a thread, and  *)
(* it ends only with an error.                                             *)
NotYet(z) == ctl = "create" /\ z[1] = ci /\ z[2] >= zi

Alive ==
  ~Stopping =>
    /\ \A z \in Zts : z[1] \in zts /\ z[2] \in Online /\ ~NotYet(z) => z \in thread
    /\ \A z \in thread :
         /\ z \notin stop
         /\ zpc[z] \notin {"none", "close"}
         /\ zpc[z] \in {"fail", "gone"} => z \in err

(* The inductive invariant.                                                *)
IInv == TypeOK /\ Threads /\ Phase /\ Cursor /\ Counted /\ Alive

(* With one channel the object reaches zero once: when its ZTs are through.*)
OneZero ==
  /\ ctl = "chan" /\ ci = 0 => sem = 0
  /\ ctl \in {"chan", "create", "wait"} /\ sem > 0 => acnt = 0
  /\ ctl = "verify" => acnt = 0

(* The ZTs that were verified, or all of them, serve operations.           *)
Before(z) == z[1] < ci \/ (z[1] = ci /\ z[2] < zi)

Verified ==
  \A z \in Zts :
    z[2] \in Online /\ ((ctl = "verify" /\ Before(z)) \/ (ctl = "recv" /\ num))
      => zpc[z] \in Serving

(* The inductive invariant of a pool with one channel.                     *)
OneInv == IInv /\ OneZero /\ Verified
-----------------------------------------------------------------------------
(* A ZT is a channel and a cpu.                                            *)
LEMMA ZtsFacts ==
  /\ \A z \in Zts : z[1] \in Chans /\ z[2] \in Cpus /\ z = <<z[1], z[2]>>
  /\ \A c \in Chans, i \in Cpus :
       <<c, i>> \in Zts /\ <<c, i>>[1] = c /\ <<c, i>>[2] = i
  BY DEF Zts

(* There are finitely many.                                                *)
LEMMA ZtsFinite ==
  /\ IsFiniteSet(Zts) /\ IsFiniteSet(Online)
  /\ Cardinality(Online) \in Nat \ {0}
  /\ \A S \in SUBSET Zts : IsFiniteSet(S) /\ Cardinality(S) \in Nat
  <1>1. IsFiniteSet(Chans) /\ IsFiniteSet(Cpus)
    BY FS_Interval, ConstantsAssumption DEF Chans, Cpus
  <1>2. IsFiniteSet(Zts)
    BY <1>1, FS_Product DEF Zts
  <1>3. IsFiniteSet(Online)
    BY <1>1, FS_Subset, ConstantsAssumption
  <1>4. Cardinality(Online) \in Nat /\ Cardinality(Online) # 0
    BY <1>3, FS_CardinalityType, FS_EmptySet, ConstantsAssumption
  <1>5. \A S \in SUBSET Zts : IsFiniteSet(S)
    BY <1>2, FS_Subset
  <1>6. \A S \in SUBSET Zts : Cardinality(S) \in Nat
    BY <1>5, FS_CardinalityType
  <1>7. QED
    BY <1>2, <1>3, <1>4, <1>5, <1>6

(* The cpus of one channel.                                                *)
LEMMA ChanSize ==
  ASSUME NEW c
  PROVE  IsFiniteSet({c} \X Online) /\ Cardinality({c} \X Online) = Cardinality(Online)
  <1>1. IsFiniteSet({c}) /\ Cardinality({c}) = 1
    BY FS_Singleton
  <1>2. /\ IsFiniteSet({c} \X Online)
        /\ Cardinality({c} \X Online) = Cardinality({c}) * Cardinality(Online)
    BY <1>1, ZtsFinite, FS_Product
  <1>3. QED
    BY <1>1, <1>2, ZtsFinite

(* A step that neither starts a channel nor ends an initialisation leaves  *)
(* the ZTs that are pending.                                               *)
LEMMA PendingSame ==
  ASSUME zts' = zts,
         \A z \in Zts : zpc'[z] \in Initialising <=> zpc[z] \in Initialising
  PROVE  Pending' = Pending
  BY DEF Pending

(* A ZT that is initialising is pending.                                   *)
LEMMA RunsPending ==
  ASSUME TypeOK, Threads, NEW z \in Zts, zpc[z] \in Initialising \ {"none"}
  PROVE  z \in Pending /\ z \in thread
  BY DEF Threads, Pending, Initialising, AfterInit

(* The steps of zus_start_all_threads that leave the ZTs alone.            *)
LEMMA StartPreserves ==
  ASSUME IInv,
         \/ StartAll \/ StartChanFail \/ ChansStarted \/ CreateFail \/ CreateSkip
         \/ WtzWait \/ Verify
  PROVE  IInv'
  <1>1. UNCHANGED <<zts, zpc, thread, fd, stop, reg, brk>>
    BY DEF StartAll, StartChanFail, ChansStarted, CreateFail, CreateSkip, WtzWait, Verify,
           kernVars
  <1>2. Threads'
    BY <1>1 DEF IInv, Threads
  <1>3. Pending' = Pending
    BY <1>1, PendingSame
  <1>4. CASE StartAll
    <2>1. TypeOK'
      BY <1>1, <1>4, ConstantsAssumption
         DEF IInv, StartAll, TypeOK, Phase, Chans, Cpus
    <2>2. Phase' /\ Cursor'
      BY <1>1, <1>4, ConstantsAssumption
         DEF IInv, StartAll, TypeOK, Phase, Cursor, Stopping, Chans, Cpus
    <2>3. Counted'
      <3>1. Pending = {}
        BY <1>4 DEF StartAll, IInv, Phase, Pending
      <3>2. QED
        BY <1>3, <1>4, <3>1, FS_EmptySet DEF StartAll, Counted
    <2>4. Alive'
      BY <1>1, <1>4 DEF IInv, StartAll, Alive, Stopping, NotYet, Phase
    <2>5. QED
      BY <1>2, <2>1, <2>2, <2>3, <2>4 DEF IInv
  <1>5. CASE StartChanFail
    <2>1. TypeOK'
      BY <1>1, <1>5, ConstantsAssumption
         DEF IInv, StartChanFail, TypeOK, Phase, Chans, Cpus, wtzVars
    <2>2. Phase' /\ Cursor'
      BY <1>1, <1>5, ConstantsAssumption
         DEF IInv, StartChanFail, TypeOK, Phase, Cursor, Stopping, Chans, Cpus
    <2>3. Counted'
      BY <1>3, <1>5 DEF IInv, StartChanFail, Counted, Stopping, wtzVars
    <2>4. Alive'
      BY <1>1, <1>5 DEF IInv, StartChanFail, Alive, Stopping, NotYet, Phase
    <2>5. QED
      BY <1>2, <2>1, <2>2, <2>3, <2>4 DEF IInv
  <1>6. CASE ChansStarted
    <2>1. TypeOK'
      BY <1>1, <1>6, ConstantsAssumption
         DEF IInv, ChansStarted, TypeOK, Phase, Chans, Cpus, wtzVars
    <2>2. Phase' /\ Cursor'
      BY <1>1, <1>6, ConstantsAssumption
         DEF IInv, ChansStarted, TypeOK, Phase, Cursor, Stopping, Chans, Cpus
    <2>3. Counted'
      BY <1>3, <1>6 DEF IInv, ChansStarted, Counted, Stopping, wtzVars
    <2>4. Alive'
      BY <1>1, <1>6 DEF IInv, ChansStarted, Alive, Stopping, NotYet, Phase
    <2>5. QED
      BY <1>2, <2>1, <2>2, <2>3, <2>4 DEF IInv
  <1>7. CASE CreateFail
    <2>1. TypeOK'
      BY <1>1, <1>7, ZtsFacts, ConstantsAssumption
         DEF IInv, CreateFail, TypeOK, Phase, Chans, Cpus, wtzVars
    <2>2. Phase' /\ Cursor'
      BY <1>1, <1>7, ConstantsAssumption
         DEF IInv, CreateFail, TypeOK, Phase, Cursor, Stopping, Chans, Cpus
    <2>3. Counted'
      BY <1>3, <1>7 DEF IInv, CreateFail, Counted, Stopping, wtzVars
    <2>4. Alive'
      BY <1>1, <1>7 DEF IInv, CreateFail, Alive, Stopping, NotYet, Phase
    <2>5. QED
      BY <1>2, <2>1, <2>2, <2>3, <2>4 DEF IInv
  <1>8. CASE CreateSkip
    <2>1. TypeOK'
      BY <1>1, <1>8, ConstantsAssumption
         DEF IInv, CreateSkip, TypeOK, Phase, Chans, Cpus, wtzVars
    <2>2. Phase' /\ Cursor'
      BY <1>1, <1>8, ConstantsAssumption
         DEF IInv, CreateSkip, TypeOK, Phase, Cursor, Stopping, Chans, Cpus
    <2>3. Counted'
      BY <1>3, <1>8 DEF IInv, CreateSkip, Counted, Stopping, wtzVars
    <2>4. Alive'
      <3>1. \A z \in Zts : NotYet(z) /\ z[2] \in Online => NotYet(z)'
        <4>1. CASE zi < NCpus
          BY <1>8, <4>1, ZtsFacts, ConstantsAssumption
             DEF IInv, TypeOK, CreateSkip, NotYet, Cpus
        <4>2. CASE ~(zi < NCpus)
          <5>1. zi = NCpus
            BY <4>2, ConstantsAssumption DEF IInv, TypeOK
          <5>2. QED
            BY <5>1, ZtsFacts, ConstantsAssumption DEF NotYet, Cpus
        <4>3. QED
          BY <4>1, <4>2
      <3>2. err' = err /\ ctl = "create" /\ ctl' \in {"create", "chan"}
        BY <1>8 DEF CreateSkip
      <3>3. QED
        BY <1>1, <3>1, <3>2 DEF IInv, Alive, Stopping
    <2>5. QED
      BY <1>2, <2>1, <2>2, <2>3, <2>4 DEF IInv
  <1>9. CASE WtzWait
    <2>1. TypeOK'
      BY <1>1, <1>9, ConstantsAssumption
         DEF IInv, WtzWait, TypeOK, Phase, Chans, Cpus
    <2>2. Phase' /\ Cursor'
      BY <1>1, <1>9, ConstantsAssumption
         DEF IInv, WtzWait, TypeOK, Phase, Cursor, Stopping, Chans, Cpus
    <2>3. Counted'
      BY <1>3, <1>9 DEF IInv, WtzWait, Counted, Stopping
    <2>4. Alive'
      BY <1>1, <1>9 DEF IInv, WtzWait, Alive, Stopping, NotYet, Phase
    <2>5. QED
      BY <1>2, <2>1, <2>2, <2>3, <2>4 DEF IInv
  <1>10. CASE Verify
    <2>1. TypeOK'
      BY <1>1, <1>10, ConstantsAssumption
         DEF IInv, Verify, TypeOK, Phase, Chans, Cpus, wtzVars
    <2>2. Phase' /\ Cursor'
      BY <1>1, <1>10, ConstantsAssumption
         DEF IInv, Verify, TypeOK, Phase, Cursor, Stopping, Chans, Cpus
    <2>3. Counted'
      BY <1>3, <1>10 DEF IInv, Verify, Counted, Stopping, wtzVars
    <2>4. Alive'
      BY <1>1, <1>10 DEF IInv, Verify, Alive, Stopping, NotYet, Phase
    <2>5. QED
      BY <1>2, <2>1, <2>2, <2>3, <2>4 DEF IInv
  <1>11. QED
    BY <1>4, <1>5, <1>6, <1>7, <1>8, <1>9, <1>10

(* The steps of zus_stop_all_threads that free nothing.                    *)
LEMMA StopPreserves ==
  ASSUME IInv, StopAll \/ StopChan \/ SetStop \/ BreakWaits \/ StopSkip \/ Join
  PROVE  IInv'
  <1>1. UNCHANGED <<zts, zpc, acnt, sem, fd, err, num, reg>> /\ Stopping'
    BY DEF StopAll, StopChan, SetStop, BreakWaits, StopSkip, Join, Stopping, wtzVars,
           kernVars
  <1>2. Counted' /\ Alive'
    <2>1. Pending' = Pending
      BY <1>1, PendingSame
    <2>2. Cardinality(Pending) \in Nat
      BY ZtsFinite DEF Pending
    <2>3. QED
      BY <1>1, <2>1, <2>2 DEF IInv, Counted, Alive
  <1>3. CASE StopAll
    <2>1. TypeOK'
      BY <1>1, <1>3, ConstantsAssumption
         DEF IInv, StopAll, TypeOK, Phase, Chans, Cpus, kernVars
    <2>2. Threads'
      BY <1>1, <1>3 DEF IInv, StopAll, Threads
    <2>3. Phase' /\ Cursor'
      BY <1>1, <1>3, ConstantsAssumption
         DEF IInv, StopAll, TypeOK, Phase, Cursor, Stopping, Chans, Cpus
    <2>4. QED
      BY <1>2, <2>1, <2>2, <2>3 DEF IInv
  <1>4. CASE StopChan
    <2>1. TypeOK'
      BY <1>1, <1>4, ConstantsAssumption
         DEF IInv, StopChan, TypeOK, Phase, Chans, Cpus, kernVars
    <2>2. Threads'
      BY <1>1, <1>4 DEF IInv, StopChan, Threads
    <2>3. Phase' /\ Cursor'
      BY <1>1, <1>4, ConstantsAssumption
         DEF IInv, StopChan, TypeOK, Phase, Cursor, Stopping, Chans, Cpus
    <2>4. QED
      BY <1>2, <2>1, <2>2, <2>3 DEF IInv
  <1>5. CASE SetStop
    <2>1. TypeOK'
      BY <1>1, <1>5, ZtsFacts, ConstantsAssumption
         DEF IInv, SetStop, TypeOK, Phase, Chans, Cpus, kernVars
    <2>2. Threads'
      BY <1>1, <1>5 DEF IInv, SetStop, Threads
    <2>3. Phase' /\ Cursor'
      BY <1>1, <1>5, ConstantsAssumption
         DEF IInv, SetStop, TypeOK, Phase, Cursor, Stopping, Chans, Cpus
    <2>4. QED
      BY <1>2, <2>1, <2>2, <2>3 DEF IInv
  <1>6. CASE BreakWaits
    <2>1. TypeOK'
      BY <1>1, <1>6, ConstantsAssumption
         DEF IInv, BreakWaits, TypeOK, Phase, Chans, Cpus, BreakAll
    <2>2. Threads'
      BY <1>1, <1>6 DEF IInv, BreakWaits, Threads
    <2>3. Phase' /\ Cursor'
      BY <1>1, <1>6, ConstantsAssumption
         DEF IInv, BreakWaits, TypeOK, Phase, Cursor, Stopping, Chans, Cpus
    <2>4. QED
      BY <1>2, <2>1, <2>2, <2>3 DEF IInv
  <1>7. CASE StopSkip
    <2>1. TypeOK'
      BY <1>1, <1>7, ConstantsAssumption
         DEF IInv, StopSkip, TypeOK, Phase, Chans, Cpus, kernVars
    <2>2. Threads'
      BY <1>1, <1>7 DEF IInv, StopSkip, Threads
    <2>3. Phase' /\ Cursor'
      BY <1>1, <1>7, ConstantsAssumption
         DEF IInv, StopSkip, TypeOK, Phase, Cursor, Stopping, Chans, Cpus
    <2>4. QED
      BY <1>2, <2>1, <2>2, <2>3 DEF IInv
  <1>8. CASE Join
    <2>1. TypeOK'
      BY <1>1, <1>8, ConstantsAssumption
         DEF IInv, Join, TypeOK, Phase, Chans, Cpus, kernVars
    <2>2. Threads'
      BY <1>1, <1>8 DEF IInv, Join, Threads
    <2>3. Phase' /\ Cursor'
      <3>1. Phase'
        BY <1>1, <1>8 DEF IInv, Join, Phase, Stopping
      <3>2. \A i \in Cpus : i < zi + 1 => i < zi \/ i = zi
        BY DEF IInv, TypeOK, Cpus
      <3>3. Cursor'
        BY <1>8, <3>2 DEF IInv, Join, Cursor
      <3>4. QED
        BY <3>1, <3>3
    <2>4. QED
      BY <1>2, <2>1, <2>2, <2>3 DEF IInv
  <1>9. QED
    BY <1>3, <1>4, <1>5, <1>6, <1>7, <1>8

(* A channel gets memory for its ZTs, and the object counts them.          *)
LEMMA StartChanPreserves ==
  ASSUME IInv, StartChan
  PROVE  IInv'
  <1>1. /\ ci \in Chans /\ ci \notin zts /\ ctl = "chan" /\ ctl' = "create" /\ zi' = 0
        /\ ci' = ci /\ zts' = zts \cup {ci} /\ num' = num /\ num = TRUE
    BY ConstantsAssumption DEF StartChan, IInv, TypeOK, Phase, Chans
  <1>2. \A z \in thread : z[1] # ci /\ z \in Zts
    BY <1>1 DEF IInv, TypeOK, Threads
  <1>3. thread' = thread
    BY <1>2 DEF StartChan, OfChan
  <1>4. \A z \in Zts : zpc'[z] = IF z[1] = ci THEN "none" ELSE zpc[z]
    BY DEF StartChan
  <1>5. TypeOK'
    <2>1. zpc' \in [Zts -> ZPCs] /\ fd' \in [Zts -> {"unset", "open", "bad"}]
      BY DEF StartChan, IInv, TypeOK, ZPCs
    <2>2. acnt' \in Nat
      BY ZtsFinite DEF StartChan, Arm, IInv, TypeOK
    <2>3. QED
      BY <1>1, <2>1, <2>2, ConstantsAssumption DEF StartChan, IInv, TypeOK, kernVars
  <1>6. Threads'
    BY <1>1, <1>2, <1>3, <1>4 DEF IInv, Threads
  <1>7. Phase'
    BY <1>1, ConstantsAssumption DEF IInv, Phase, Stopping, TypeOK, Chans
  <1>8. Cursor'
    <2>1. \A i \in Cpus : <<ci, i>> \in Zts /\ <<ci, i>>[1] = ci
      BY <1>1, ZtsFacts
    <2>2. \A i \in Cpus : zpc'[<<ci, i>>] = "none" /\ <<ci, i>> \notin stop'
      BY <1>4, <2>1 DEF StartChan, OfChan
    <2>3. QED
      BY <1>1, <2>2 DEF Cursor
  <1>9. Counted'
    <2> DEFINE T == {ci} \X Online
    <2>1. Pending' = Pending \cup T
      <3>1. \A z \in T : z \in Zts /\ z[1] = ci /\ z[2] \in Online
        BY <1>1, ZtsFacts, ConstantsAssumption
      <3>2. \A z \in Zts : z[1] = ci /\ z[2] \in Online => z \in T
        <4>1. ASSUME NEW z \in Zts, z[1] = ci, z[2] \in Online PROVE z \in T
          <5>1. z = <<ci, z[2]>>
            BY <4>1, ZtsFacts
          <5>2. QED
            BY <4>1, <5>1
        <4>2. QED
          BY <4>1
      <3> HIDE DEF T
      <3>3. QED
        BY <1>1, <1>4, <3>1, <3>2 DEF Pending, Initialising
    <2>2. Pending \cap T = {}
      BY <1>1 DEF Pending
    <2>3. IsFiniteSet(T) /\ Cardinality(T) = Cardinality(Online)
      BY ChanSize
    <2>4. IsFiniteSet(Pending) /\ Cardinality(Pending) \in Nat
      BY ZtsFinite DEF Pending
    <2> HIDE DEF T
    <2>5. Cardinality(Pending \cup T) = Cardinality(Pending) + Cardinality(T) - Cardinality({})
      BY <2>2, <2>3, <2>4, FS_Union
    <2>6. Cardinality(Pending') = Cardinality(Pending) + Cardinality(Online)
      BY <2>1, <2>3, <2>4, <2>5, FS_EmptySet, ZtsFinite
    <2>7. acnt = Cardinality(Pending) /\ acnt' = acnt + Cardinality(Online)
      BY <1>1 DEF IInv, Counted, Stopping, StartChan, Arm
    <2>8. acnt' = Cardinality(Pending')
      BY <2>6, <2>7
    <2>9. QED
      BY <2>4, <2>6, <2>8, ZtsFinite DEF Counted
  <1>10. Alive'
    <2>1. \A z \in Zts : z[1] = ci => NotYet(z)'
      BY <1>1, ZtsFacts DEF NotYet, Cpus
    <2>2. \A z \in thread : z \notin stop' /\ zpc'[z] = zpc[z] /\ (z \in err => z \in err')
      BY <1>2, <1>4 DEF StartChan, OfChan, IInv, Alive, Stopping
    <2>3. QED
      BY <1>1, <1>3, <2>1, <2>2 DEF IInv, Alive, Stopping, NotYet
  <1>11. QED
    BY <1>5, <1>6, <1>7, <1>8, <1>9, <1>10 DEF IInv

(* A ZT is created.                                                        *)
LEMMA CreateZtPreserves ==
  ASSUME IInv, CreateZt
  PROVE  IInv'
  <1> DEFINE y == <<ci, zi>>
  <1>1. /\ ci \in Chans /\ zi \in Online /\ zi \in Cpus /\ y \in Zts
        /\ y[1] = ci /\ y[2] = zi
    BY ConstantsAssumption, ZtsFacts DEF CreateZt, IInv, TypeOK, Phase, Chans
  <1>2. zpc[y] = "none"
    BY <1>1 DEF CreateZt, IInv, Cursor, Cpus
  <1>3. /\ ctl = "create" /\ ctl' = "create" /\ zi' = zi + 1 /\ ci' = ci
        /\ thread' = thread \cup {y} /\ ci \in zts /\ num' = num
        /\ UNCHANGED <<zts, acnt, sem, fd, err, stop, reg, brk>>
    BY DEF CreateZt, IInv, Phase, TypeOK, wtzVars, kernVars
  <1>4. /\ zpc' = [zpc EXCEPT ![y] = "open"]
        /\ \A z \in Zts : zpc'[z] = IF z = y THEN "open" ELSE zpc[z]
    BY DEF CreateZt, IInv, TypeOK
  <1> HIDE DEF y
  <1>5. TypeOK'
    <2>1. zpc' \in [Zts -> ZPCs]
      BY <1>4 DEF IInv, TypeOK, ZPCs, AfterInit
    <2>2. zi' \in 0 .. NCpus
      BY <1>1, <1>3, ConstantsAssumption DEF Cpus
    <2>3. QED
      BY <1>1, <1>3, <2>1, <2>2 DEF IInv, TypeOK
  <1>6. Threads'
    BY <1>1, <1>3, <1>4 DEF IInv, Threads, TypeOK
  <1>7. Phase'
    BY <1>3 DEF IInv, Phase, Stopping
  <1>8. Cursor'
    <2>1. \A i \in Cpus : i >= zi + 1 => <<ci, i>> \in Zts /\ <<ci, i>> # y /\ i >= zi
      BY <1>1, ZtsFacts, ConstantsAssumption DEF y, Cpus
    <2>2. QED
      BY <1>3, <1>4, <2>1 DEF IInv, Cursor
  <1>9. Counted'
    <2>1. Pending' = Pending
      BY <1>2, <1>3, <1>4, PendingSame DEF Initialising, AfterInit
    <2>2. QED
      BY <1>3, <2>1 DEF IInv, Counted, Stopping
  <1>10. Alive'
    <2>1. \A z \in Zts : NotYet(z) /\ z # y => NotYet(z)'
      <3>1. ASSUME NEW z \in Zts, z[1] = ci, z[2] >= zi, z # y PROVE z[2] >= zi + 1
        <4>1. z[2] # zi
          BY <3>1, ZtsFacts DEF y
        <4>2. QED
          BY <1>1, <3>1, <4>1, ZtsFacts, ConstantsAssumption DEF Cpus
      <3>2. QED
        BY <1>3, <3>1 DEF NotYet
    <2>2. y \notin stop
      BY <1>1, <1>3 DEF IInv, Cursor, Cpus, y
    <2>3. QED
      BY <1>1, <1>3, <1>4, <2>1, <2>2 DEF IInv, Alive, Stopping, TypeOK
  <1>11. QED
    BY <1>5, <1>6, <1>7, <1>8, <1>9, <1>10 DEF IInv

(* The memory of a channel is freed.                                       *)
LEMMA FreeChanPreserves ==
  ASSUME IInv, FreeChan
  PROVE  IInv'
  <1>1. /\ ctl = "join" /\ ctl' = "stop" /\ zi = NCpus /\ ci \in zts /\ ci \in Chans
        /\ ci' = ci + 1 /\ zts' = zts \ {ci} /\ zts' \subseteq zts
        /\ UNCHANGED <<zi, num, acnt, sem, zpc, thread, fd, err, stop, reg, brk>>
    BY DEF FreeChan, IInv, Phase, TypeOK, wtzVars, kernVars
  <1>2. \A z \in Zts : z[1] = ci => z \notin thread
    <2>1. \A i \in Cpus : <<ci, i>> \notin thread
      BY <1>1, ConstantsAssumption DEF IInv, Cursor, Cpus
    <2>2. QED
      BY <2>1, ZtsFacts
  <1>3. TypeOK'
    BY <1>1, ConstantsAssumption DEF IInv, TypeOK, Chans
  <1>4. Threads'
    BY <1>1, <1>2 DEF IInv, Threads, TypeOK
  <1>5. Phase'
    BY <1>1, ConstantsAssumption DEF IInv, Phase, Stopping, TypeOK, Chans
  <1>6. Cursor'
    BY <1>1 DEF Cursor
  <1>7. Counted'
    <2>1. Pending' \subseteq Pending
      BY <1>1 DEF Pending
    <2>2. Cardinality(Pending') <= Cardinality(Pending)
      BY <2>1, FS_Subset, ZtsFinite DEF Pending
    <2>3. Cardinality(Pending') \in Nat /\ Cardinality(Pending) \in Nat
      BY ZtsFinite DEF Pending
    <2>4. QED
      BY <1>1, <2>2, <2>3 DEF IInv, Counted, Stopping, TypeOK
  <1>8. Alive'
    BY <1>1 DEF Alive, Stopping
  <1>9. QED
    BY <1>3, <1>4, <1>5, <1>6, <1>7, <1>8 DEF IInv

(* The pool is gone.                                                       *)
LEMMA StoppedPreserves ==
  ASSUME IInv, Stopped
  PROVE  IInv'
  <1>1. /\ ctl = "stop" /\ ctl' = "recv" /\ num' = FALSE /\ acnt' = 0 /\ sem' = 0
        /\ UNCHANGED <<ci, zi, zts, zpc, thread, fd, err, stop, reg, brk>>
    BY DEF Stopped, kernVars
  <1>2. zts = {}
    BY ConstantsAssumption DEF Stopped, IInv, Phase, Stopping, TypeOK, Chans
  <1>3. TypeOK'
    BY <1>1 DEF IInv, TypeOK
  <1>4. Threads' /\ Cursor'
    BY <1>1 DEF IInv, Threads, Cursor
  <1>5. Phase'
    BY <1>1, <1>2 DEF Phase, Stopping
  <1>6. Counted'
    <2>1. Pending' = {}
      BY <1>1, <1>2 DEF Pending
    <2>2. QED
      BY <1>1, <2>1, FS_EmptySet DEF Counted
  <1>7. Alive'
    BY <1>1, <1>2 DEF IInv, Alive, Threads
  <1>8. QED
    BY <1>3, <1>4, <1>5, <1>6, <1>7 DEF IInv
-----------------------------------------------------------------------------
(* What every step of a ZT leaves alone, and what it changes for itself.   *)
ZtMoves(z, from, to) ==
  /\ zpc[z] = from
  /\ zpc' = [zpc EXCEPT ![z] = to]
  /\ UNCHANGED <<ctl, ci, zi, num, zts, thread, stop>>
  /\ \A y \in Zts : y # z => (y \in err <=> y \in err')
  /\ err' \subseteq Zts /\ reg' \subseteq Zts /\ brk' \subseteq Zts
  /\ fd' \in [Zts -> {"unset", "open", "bad"}]

(* A ZT that moves from one place where it runs to another keeps what does *)
(* not depend on its initialisation.                                       *)
LEMMA ZtKeeps ==
  ASSUME IInv, NEW z \in Zts, NEW from \in ZPCs \ {"none", "gone"},
         NEW to \in ZPCs \ {"none"}, ZtMoves(z, from, to), acnt' \in Nat, sem' \in Nat,
         to = "close" => Stopping \/ z \in stop,
         to \in {"fail", "gone"} => z \in err' \/ from = "close" \/ Stopping
  PROVE  /\ TypeOK' /\ Threads' /\ Phase' /\ Cursor' /\ Alive'
         /\ z \in thread
         /\ \A y \in Zts : zpc'[y] = IF y = z THEN to ELSE zpc[y]
  <1>1. \A y \in Zts : zpc'[y] = IF y = z THEN to ELSE zpc[y]
    BY DEF ZtMoves, IInv, TypeOK
  <1>2. z \in thread
    BY DEF ZtMoves, IInv, Threads
  <1>3. zpc' \in [Zts -> ZPCs]
    BY DEF ZtMoves, IInv, TypeOK
  <1>4. TypeOK'
    BY <1>3 DEF ZtMoves, IInv, TypeOK
  <1>5. Threads'
    BY <1>1, <1>2 DEF ZtMoves, IInv, Threads
  <1>6. Phase'
    BY DEF ZtMoves, IInv, Phase, Stopping
  <1>7. Cursor'
    <2>1. CASE ctl = "create"
      <3>1. ci \in Chans
        BY <2>1, ConstantsAssumption DEF IInv, TypeOK, Phase, Chans
      <3>2. ASSUME NEW i \in Cpus, i >= zi
            PROVE  zpc'[<<ci, i>>] = "none" /\ <<ci, i>> \notin stop'
        <4>1. <<ci, i>> \in Zts /\ zpc[<<ci, i>>] = "none" /\ <<ci, i>> \notin stop
          BY <2>1, <3>1, <3>2, ZtsFacts DEF IInv, Cursor
        <4>2. <<ci, i>> # z
          BY <4>1 DEF ZtMoves
        <4>3. QED
          BY <1>1, <4>1, <4>2 DEF ZtMoves
      <3>3. QED
        BY <2>1, <3>2 DEF ZtMoves, Cursor
    <2>2. CASE ctl # "create"
      BY <2>2 DEF ZtMoves, IInv, Cursor
    <2>3. QED
      BY <2>1, <2>2
  <1>8. Alive'
    <2>1. \A y \in Zts : NotYet(y)' <=> NotYet(y)
      BY DEF ZtMoves, NotYet
    <2>2. Stopping' <=> Stopping
      BY DEF ZtMoves, Stopping
    <2>3. ASSUME ~Stopping, NEW y \in thread
          PROVE  /\ y \notin stop'
                 /\ zpc'[y] \notin {"none", "close"}
                 /\ zpc'[y] \in {"fail", "gone"} => y \in err'
      <3>1. y \in Zts /\ y \notin stop
        BY <2>3 DEF IInv, TypeOK, Alive
      <3>2. CASE y = z
        BY <1>1, <2>3, <3>1, <3>2 DEF ZtMoves, IInv, Alive
      <3>3. CASE y # z
        BY <1>1, <2>3, <3>1, <3>3 DEF ZtMoves, IInv, Alive
      <3>4. QED
        BY <3>2, <3>3
    <2>4. QED
      BY <2>1, <2>2, <2>3 DEF IInv, Alive, ZtMoves
  <1>9. QED
    BY <1>1, <1>2, <1>4, <1>5, <1>6, <1>7, <1>8

(* The steps of a ZT that do not release the wait-til-zero object.         *)
LEMMA ZtCounts ==
  ASSUME IInv, NEW z \in Zts, NEW from \in ZPCs \ {"none", "gone"},
         NEW to \in ZPCs \ {"none"}, ZtMoves(z, from, to), acnt' = acnt, sem' = sem,
         to = "close" => Stopping \/ z \in stop,
         to \in {"fail", "gone"} => z \in err' \/ from = "close" \/ Stopping,
         from \in Initialising <=> to \in Initialising
  PROVE  IInv'
  <1>1. acnt' \in Nat /\ sem' \in Nat
    BY DEF IInv, TypeOK
  <1>2. /\ TypeOK' /\ Threads' /\ Phase' /\ Cursor' /\ Alive'
        /\ \A y \in Zts : zpc'[y] = IF y = z THEN to ELSE zpc[y]
    BY <1>1, ZtKeeps
  <1>3. Pending' = Pending
    <2>1. zts' = zts /\ zpc[z] = from
      BY DEF ZtMoves
    <2>2. \A y \in Zts : zpc'[y] \in Initialising <=> zpc[y] \in Initialising
      BY <1>2, <2>1
    <2>3. QED
      BY <2>1, <2>2, PendingSame
  <1>4. Counted'
    BY <1>3 DEF IInv, Counted, Stopping, ZtMoves
  <1>5. QED
    BY <1>2, <1>4 DEF IInv

(* The steps of a ZT.                                                      *)
LEMMA ZtPreserves ==
  ASSUME IInv, NEW z \in Zts, ZtRuns(z) \/ WaitOp(z) \/ WaitIntr(z)
  PROVE  IInv'
  <1>0. /\ zpc \in [Zts -> ZPCs] /\ err \subseteq Zts /\ reg \subseteq Zts /\ brk \subseteq Zts
        /\ fd \in [Zts -> {"unset", "open", "bad"}]
    BY DEF IInv, TypeOK
  <1>1. CASE InitOk(z)
    <2> DEFINE from == zpc[z]
               to == AfterInit[from]
    <2>1. from \in {"open", "zinit", "mmap", "buff"}
      BY <1>1 DEF InitOk, AfterInit
    <2>2. to \in {"zinit", "mmap", "buff", "ready"}
      BY <2>1 DEF AfterInit
    <2>3. ZtMoves(z, from, to) /\ acnt' = acnt /\ sem' = sem
      BY <1>0, <1>1 DEF InitOk, ZtGoto, ZtMoves, ctlVars, wtzVars
    <2> HIDE DEF from, to
    <2>4. /\ from \in ZPCs \ {"none", "gone"} /\ to \in ZPCs \ {"none"}
          /\ to # "close" /\ to \notin {"fail", "gone"}
          /\ from \in Initialising /\ to \in Initialising
      BY <2>1, <2>2 DEF ZPCs, Initialising, AfterInit
    <2>5. QED
      BY <2>3, <2>4, ZtCounts
  <1>2. CASE InitFail(z)
    <2> DEFINE from == zpc[z]
    <2>1. from \in {"open", "zinit", "mmap", "buff"}
      BY <1>2 DEF InitFail, AfterInit
    <2>2. ZtMoves(z, from, "fail") /\ acnt' = acnt /\ sem' = sem /\ z \in err'
      BY <1>0, <1>2 DEF InitFail, ZtGoto, ZtMoves, ctlVars, wtzVars, kernVars
    <2> HIDE DEF from
    <2>3. /\ from \in ZPCs \ {"none", "gone"} /\ "fail" \in ZPCs \ {"none"}
          /\ from \in Initialising /\ "fail" \in Initialising
      BY <2>1 DEF ZPCs, Initialising, AfterInit
    <2>4. QED
      BY <2>2, <2>3, ZtCounts
  <1>3. CASE ZtRelease(z)
    <2> DEFINE from == zpc[z]
               to == IF from = "ready" THEN "check" ELSE "gone"
    <2>1. from \in {"ready", "fail"} /\ z \in Pending /\ z \in thread
      BY <1>3, RunsPending DEF ZtRelease, Initialising, IInv
    <2>2. ZtMoves(z, from, to)
      BY <1>0, <1>3 DEF ZtRelease, ZtGoto, ZtMoves, ctlVars, kernVars
    <2>3. to \in {"gone", "check"} /\ (to = "gone" => from = "fail") /\ to # "close"
          /\ to # "fail"
      BY <2>1
    <2> HIDE DEF from, to
    <2>4. IsFiniteSet(Pending) /\ Cardinality(Pending) \in Nat
      BY ZtsFinite DEF Pending
    <2>5. Cardinality(Pending) >= 1
      BY <2>1, <2>4, FS_EmptySet
    <2>6. acnt \in Nat /\ acnt >= 1
      BY <2>4, <2>5 DEF IInv, TypeOK, Counted
    <2>7. acnt' = acnt - 1 /\ acnt' \in Nat /\ sem' \in Nat
      BY <1>3, <2>6 DEF ZtRelease, WtzRelease, IInv, TypeOK
    <2>8. to = "gone" => z \in err' \/ from = "close" \/ Stopping
      BY <1>3, <2>1, <2>2, <2>3 DEF ZtRelease, IInv, Alive, ZtMoves
    <2>9. /\ TypeOK' /\ Threads' /\ Phase' /\ Cursor' /\ Alive'
          /\ \A y \in Zts : zpc'[y] = IF y = z THEN to ELSE zpc[y]
      <3>1. from \in ZPCs \ {"none", "gone"} /\ to \in ZPCs \ {"none"}
        BY <2>1, <2>3 DEF ZPCs
      <3>2. QED
        BY <2>2, <2>3, <2>7, <2>8, <3>1, ZtKeeps
    <2>10. Counted'
      <3>1. Pending' = Pending \ {z}
        BY <2>2, <2>3, <2>9 DEF Pending, ZtMoves, Initialising, AfterInit
      <3>2. Cardinality(Pending') = Cardinality(Pending) - 1
        BY <2>1, <2>4, <3>1, FS_RemoveElement
      <3>3. Stopping' <=> Stopping
        BY <2>2 DEF ZtMoves, Stopping
      <3>4. QED
        BY <2>4, <2>6, <2>7, <3>2, <3>3 DEF IInv, Counted
    <2>11. QED
      BY <2>9, <2>10 DEF IInv
  <1>4. CASE CheckStop(z)
    <2> DEFINE to == IF z \in stop THEN "close" ELSE "wait"
    <2>1. ZtMoves(z, "check", to) /\ acnt' = acnt /\ sem' = sem
      BY <1>0, <1>4 DEF CheckStop, ZtGoto, ZtMoves, ctlVars, wtzVars, kernVars
    <2>2. to \in {"close", "wait"} /\ (to = "close" => z \in stop)
      OBVIOUS
    <2> HIDE DEF to
    <2>3. /\ "check" \in ZPCs \ {"none", "gone"} /\ to \in ZPCs \ {"none"}
          /\ to \notin {"fail", "gone"} /\ "check" \notin Initialising /\ to \notin Initialising
      BY <2>2 DEF ZPCs, Initialising, AfterInit
    <2>4. QED
      BY <2>1, <2>2, <2>3, ZtCounts
  <1>5. CASE WaitOp(z)
    <2>1. ZtMoves(z, "wait", "op") /\ acnt' = acnt /\ sem' = sem
      BY <1>0, <1>5 DEF WaitOp, ZtGoto, ZtMoves, ctlVars, wtzVars, kernVars
    <2>2. /\ "wait" \in ZPCs \ {"none", "gone"} /\ "op" \in ZPCs \ {"none"}
          /\ "wait" \notin Initialising /\ "op" \notin Initialising
      BY DEF ZPCs, Initialising, AfterInit
    <2>3. QED
      BY <2>1, <2>2, ZtCounts
  <1>6. CASE WaitIntr(z)
    <2>1. ZtMoves(z, "wait", "op") /\ acnt' = acnt /\ sem' = sem
      BY <1>0, <1>6 DEF WaitIntr, ZtGoto, ZtMoves, ctlVars, wtzVars, kernVars
    <2>2. /\ "wait" \in ZPCs \ {"none", "gone"} /\ "op" \in ZPCs \ {"none"}
          /\ "wait" \notin Initialising /\ "op" \notin Initialising
      BY DEF ZPCs, Initialising, AfterInit
    <2>3. QED
      BY <2>1, <2>2, ZtCounts
  <1>7. CASE WaitBroken(z)
    <2>1. ZtMoves(z, "wait", "op") /\ acnt' = acnt /\ sem' = sem
      BY <1>0, <1>7 DEF WaitBroken, ZtGoto, ZtMoves, ctlVars, wtzVars, kernVars
    <2>2. /\ "wait" \in ZPCs \ {"none", "gone"} /\ "op" \in ZPCs \ {"none"}
          /\ "wait" \notin Initialising /\ "op" \notin Initialising
      BY DEF ZPCs, Initialising, AfterInit
    <2>3. QED
      BY <2>1, <2>2, ZtCounts
  <1>8. CASE DoOp(z)
    <2>1. ZtMoves(z, "op", "check") /\ acnt' = acnt /\ sem' = sem
      BY <1>0, <1>8 DEF DoOp, ZtGoto, ZtMoves, ctlVars, wtzVars, kernVars
    <2>2. /\ "op" \in ZPCs \ {"none", "gone"} /\ "check" \in ZPCs \ {"none"}
          /\ "op" \notin Initialising /\ "check" \notin Initialising
      BY DEF ZPCs, Initialising, AfterInit
    <2>3. QED
      BY <2>1, <2>2, ZtCounts
  <1>9. CASE Close(z)
    <2>1. ZtMoves(z, "close", "gone") /\ acnt' = acnt /\ sem' = sem
      BY <1>0, <1>9 DEF Close, ZtGoto, ZtMoves, ctlVars, wtzVars, kernVars
    <2>2. /\ "close" \in ZPCs \ {"none", "gone"} /\ "gone" \in ZPCs \ {"none"}
          /\ "close" \notin Initialising /\ "gone" \notin Initialising
      BY DEF ZPCs, Initialising, AfterInit
    <2>3. QED
      BY <2>1, <2>2, ZtCounts
  <1>10. QED
    BY <1>1, <1>2, <1>3, <1>4, <1>5, <1>6, <1>7, <1>8, <1>9 DEF ZtRuns
-----------------------------------------------------------------------------
(* The daemon starts without a pool.                                       *)
LEMMA InitIInv == Init => IInv
  <1> SUFFICES ASSUME Init PROVE IInv
    OBVIOUS
  <1>1. TypeOK
    <2>1. zpc \in [Zts -> ZPCs] /\ fd \in [Zts -> {"unset", "open", "bad"}]
      BY DEF Init, ZPCs
    <2>2. ci \in 0 .. NChans /\ zi \in 0 .. NCpus
      BY ConstantsAssumption DEF Init
    <2>3. QED
      BY <2>1, <2>2 DEF Init, TypeOK
  <1>2. Threads
    BY DEF Init, Threads
  <1>3. Phase /\ Cursor
    BY DEF Init, Phase, Cursor, Stopping
  <1>4. Counted
    <2>1. Pending = {}
      BY DEF Init, Pending
    <2>2. QED
      BY <2>1, FS_EmptySet DEF Init, Counted
  <1>5. Alive
    BY DEF Init, Alive
  <1>6. QED
    BY <1>1, <1>2, <1>3, <1>4, <1>5 DEF IInv

(* Every step of the control thread and of the ZTs preserves it.           *)
LEMMA NextIInv == IInv /\ [Next]_vars => IInv'
  <1> SUFFICES ASSUME IInv, [Next]_vars PROVE IInv'
    OBVIOUS
  <1>1. CASE StartAll \/ Start
    <2>1. CASE StartChan
      BY <2>1, StartChanPreserves
    <2>2. CASE CreateZt
      BY <2>2, CreateZtPreserves
    <2>3. CASE ~StartChan /\ ~CreateZt
      BY <1>1, <2>3, StartPreserves DEF Start
    <2>4. QED
      BY <2>1, <2>2, <2>3
  <1>2. CASE StopAll \/ Stop
    <2>1. CASE FreeChan
      BY <2>1, FreeChanPreserves
    <2>2. CASE Stopped
      BY <2>2, StoppedPreserves
    <2>3. CASE ~FreeChan /\ ~Stopped
      BY <1>2, <2>3, StopPreserves DEF Stop
    <2>4. QED
      BY <2>1, <2>2, <2>3
  <1>3. ASSUME NEW z \in Zts, ZtRuns(z) \/ WaitOp(z) \/ WaitIntr(z)
        PROVE  IInv'
    BY <1>3, ZtPreserves
  <1>4. CASE UNCHANGED vars
    <2>1. UNCHANGED <<ctl, ci, zi, num, zts, acnt, sem, zpc, thread, fd, err, stop, reg, brk>>
      BY <1>4 DEF vars, ctlVars, wtzVars, kernVars
    <2>2. TypeOK' /\ Threads' /\ Phase' /\ Cursor'
      BY <2>1 DEF IInv, TypeOK, Threads, Phase, Cursor, Stopping
    <2>3. Counted' /\ Alive'
      BY <2>1 DEF IInv, Counted, Alive, Pending, Stopping, NotYet
    <2>4. QED
      BY <2>2, <2>3 DEF IInv
  <1>5. QED
    BY <1>1, <1>2, <1>3, <1>4 DEF Next

(* The inductive invariant holds whatever fails and however many channels  *)
(* there are.                                                              *)
THEOREM ZtPoolInductive == Spec => []IInv
  BY InitIInv, NextIInv, PTL DEF Spec

(* No ZT runs on memory that was freed: a stop frees the ZTs of a channel  *)
(* only when their threads have ended, also after a start that failed half *)
(* way (zus_start_all_threads, _zus_stop_chan_threads).                    *)
THEOREM ZtMemorySafe == Spec => []MemorySafe
  <1>1. IInv => MemorySafe
    BY DEF IInv, MemorySafe, NoUseAfterFree, Threads, Phase, TypeOK
  <1>2. QED
    BY <1>1, ZtPoolInductive, PTL
-----------------------------------------------------------------------------
(* With one channel the object is armed once, so that it reaches zero only *)
(* when every ZT has released it.                                          *)
LEMMA OneZeroPreserves ==
  ASSUME NChans = 1, OneInv, Next, IInv'
  PROVE  OneZero'
  <1>1. Cardinality(Online) \in Nat \ {0} /\ acnt \in Nat /\ sem \in Nat
    BY ZtsFinite DEF OneInv, IInv, TypeOK
  <1>2. CASE StartAll \/ Start
    BY <1>1, <1>2
       DEF OneInv, IInv, TypeOK, OneZero, StartAll, Start, StartChan, StartChanFail,
       ChansStarted, CreateZt, CreateFail, CreateSkip, WtzWait, Verify, Arm, wtzVars
  <1>3. CASE StopAll \/ Stop
    BY <1>3 DEF OneZero, StopAll, Stop, StopChan, SetStop, BreakWaits, StopSkip, Join,
       FreeChan, Stopped
  <1>4. ASSUME NEW z \in Zts, ZtRelease(z)
        PROVE  OneZero'
    <2>1. z \in Pending
      BY <1>4, RunsPending DEF ZtRelease, Initialising, OneInv, IInv
    <2>2. IsFiniteSet(Pending) /\ Cardinality(Pending) \in Nat
      BY ZtsFinite DEF Pending
    <2>3. acnt >= 1
      BY <1>1, <2>1, <2>2, FS_EmptySet DEF OneInv, IInv, Counted
    <2>4. ctl = "chan" /\ ci = 0 => FALSE
      BY <2>1 DEF OneInv, IInv, Phase, Pending
    <2>5. QED
      BY <1>1, <1>4, <2>3, <2>4 DEF OneInv, OneZero, ZtRelease, WtzRelease, ctlVars
  <1>5. ASSUME NEW z \in Zts, ZtRuns(z) \/ WaitOp(z) \/ WaitIntr(z), ~ZtRelease(z)
        PROVE  OneZero'
    <2>1. UNCHANGED <<ctl, ci, acnt, sem>>
      BY <1>5
         DEF ZtRuns, WaitOp, WaitIntr, InitOk, InitFail, CheckStop, WaitBroken, DoOp, Close,
                  ctlVars, wtzVars
    <2>2. QED
      BY <2>1 DEF OneInv, OneZero
  <1>6. QED
    BY <1>2, <1>3, <1>4, <1>5 DEF Next

(* At the end of the wait no ZT is initialising.                           *)
LEMMA NonePending ==
  ASSUME IInv, ctl = "verify", acnt = 0
  PROVE  \A z \in thread : zpc[z] \notin Initialising
  <1>1. Pending = {}
    <2>1. IsFiniteSet(Pending) /\ Cardinality(Pending) = 0
      BY ZtsFinite DEF IInv, Counted, Stopping, Pending
    <2>2. QED
      BY <2>1, FS_EmptySet
  <1>2. QED
    BY <1>1 DEF Pending, IInv, Threads, TypeOK

(* A ZT that serves goes on to serve until it is told to stop.             *)
LEMMA ServingStays ==
  ASSUME IInv, ~Stopping, NEW z \in Zts, zpc[z] \in Serving,
         NEW y \in Zts, ZtRuns(y) \/ WaitOp(y) \/ WaitIntr(y)
  PROVE  zpc'[z] \in Serving
  <1>1. z \notin stop /\ zpc \in [Zts -> ZPCs]
    BY DEF IInv, TypeOK, Threads, Alive, Serving
  <1>2. CASE y # z
    BY <1>1, <1>2
       DEF ZtRuns, WaitOp, WaitIntr, InitOk, InitFail, ZtRelease, CheckStop, WaitBroken,
                 DoOp, Close, ZtGoto
  <1>3. CASE y = z
    BY <1>1, <1>3
       DEF ZtRuns, WaitOp, WaitIntr, InitOk, InitFail, ZtRelease, CheckStop, WaitBroken,
                 DoOp, Close, ZtGoto, Serving, AfterInit
  <1>4. QED
    BY <1>2, <1>3

(* The loop that verifies the ZTs finds each of them serving.              *)
LEMMA VerifiedPreserves ==
  ASSUME OneInv, Next, NChans = 1
  PROVE  Verified'
  <1>1. CASE Verify
    <2>0. zpc' = zpc /\ num' = num /\ num
      BY <1>1 DEF Verify, OneInv, IInv, Phase, TypeOK
    <2>1. CASE ci = NChans
      <3>1. \A z \in Zts : Before(z)
        BY <2>1, ZtsFacts, ConstantsAssumption DEF Before, Chans
      <3>2. QED
        BY <1>1, <2>0, <3>1 DEF Verify, OneInv, Verified
    <2>2. CASE ci # NChans /\ <<ci, zi>> \in err
      BY <1>1, <2>2 DEF Verify, Verified
    <2>3. CASE ci # NChans /\ <<ci, zi>> \notin err
      <3> DEFINE y == <<ci, zi>>
      <3>1. ci \in Chans /\ zi \in Cpus
        BY <1>1, <2>3, ConstantsAssumption
           DEF Verify, OneInv, IInv, TypeOK, Phase, Chans, Cpus
      <3>2. y \in Zts /\ y[1] = ci /\ y[2] = zi
        BY <3>1, ZtsFacts
      <3>3. zi \in Online => zpc[y] \in Serving
        <4>1. ASSUME zi \in Online PROVE zpc[y] \in Serving
          <5>1. y \in thread
            BY <1>1, <3>1, <3>2, <4>1
               DEF Verify, OneInv, IInv, Phase, Alive, Stopping, NotYet
          <5>2. zpc[y] \notin Initialising
            BY <1>1, <5>1, NonePending DEF Verify, OneInv, OneZero
          <5>3. zpc[y] \notin {"none", "close", "gone"}
            BY <1>1, <2>3, <5>1 DEF Verify, OneInv, IInv, Alive, Stopping
          <5>4. zpc[y] \in ZPCs
            BY <3>2 DEF OneInv, IInv, TypeOK
          <5>5. QED
            BY <5>2, <5>3, <5>4 DEF ZPCs, Initialising, Serving
        <4>2. QED
          BY <4>1
      <3>4. \A z \in Zts : Before(z)' => Before(z) \/ z = y
        <4>1. ASSUME NEW z \in Zts, Before(z)' PROVE Before(z) \/ z = y
          <5>1. z[1] \in Chans /\ z[2] \in Cpus /\ z = <<z[1], z[2]>>
            BY ZtsFacts
          <5>2. CASE zi + 1 = NCpus
            <6>1. ci' = ci + 1 /\ zi' = 0
              BY <1>1, <2>3, <5>2 DEF Verify
            <6>2. z[1] < ci \/ (z[1] = ci /\ z[2] <= zi)
              BY <3>1, <4>1, <5>1, <5>2, <6>1, ConstantsAssumption
                 DEF Before, Chans, Cpus
            <6>3. QED
              BY <3>1, <5>1, <6>2, ConstantsAssumption DEF Before, Chans, Cpus
          <5>3. CASE zi + 1 # NCpus
            <6>1. ci' = ci /\ zi' = zi + 1
              BY <1>1, <2>3, <5>3 DEF Verify
            <6>2. z[1] < ci \/ (z[1] = ci /\ z[2] <= zi)
              BY <3>1, <4>1, <5>1, <6>1, ConstantsAssumption DEF Before, Chans, Cpus
            <6>3. QED
              BY <3>1, <5>1, <6>2, ConstantsAssumption DEF Before, Chans, Cpus
          <5>4. QED
            BY <5>2, <5>3
        <4>2. QED
          BY <4>1
      <3>5. ctl = "verify" /\ ctl' = "verify"
        BY <1>1, <2>3 DEF Verify
      <3> HIDE DEF y
      <3>6. QED
        BY <2>0, <3>2, <3>3, <3>4, <3>5 DEF OneInv, Verified
    <2>4. QED
      BY <2>1, <2>2, <2>3
  <1>2. CASE StartAll \/ (Start /\ ~Verify)
    <2>1. ctl' \in {"chan", "create", "wait", "stop"}
          \/ (ctl' = "verify" /\ ci' = 0 /\ zi' = 0)
      BY <1>2
         DEF StartAll, Start, StartChan, StartChanFail, ChansStarted, CreateZt, CreateFail,
                  CreateSkip, WtzWait
    <2>2. \A z \in Zts : ci' = 0 /\ zi' = 0 => ~Before(z)'
      BY ZtsFacts, ConstantsAssumption DEF Before, Chans, Cpus
    <2>3. QED
      BY <2>1, <2>2 DEF Verified
  <1>3. CASE StopAll \/ Stop
    <2>1. ctl' \in {"stop", "flag", "join"} \/ (ctl' = "recv" /\ ~num')
      BY <1>3
         DEF StopAll, Stop, StopChan, SetStop, BreakWaits, StopSkip, Join, FreeChan, Stopped
    <2>2. QED
      BY <2>1 DEF Verified
  <1>4. ASSUME NEW y \in Zts, ZtRuns(y) \/ WaitOp(y) \/ WaitIntr(y)
        PROVE  Verified'
    <2>1. UNCHANGED <<ctl, ci, zi, num>>
      BY <1>4
         DEF ZtRuns, WaitOp, WaitIntr, InitOk, InitFail, ZtRelease, CheckStop, WaitBroken,
                  DoOp, Close, ctlVars
    <2>2. ASSUME NEW z \in Zts, z[2] \in Online,
                 (ctl = "verify" /\ Before(z)) \/ (ctl = "recv" /\ num)
          PROVE  zpc'[z] \in Serving
      <3>1. zpc[z] \in Serving
        BY <2>2 DEF OneInv, Verified
      <3>2. ~Stopping
        BY <2>2 DEF Stopping
      <3>3. QED
        BY <1>4, <3>1, <3>2, ServingStays DEF OneInv
    <2>3. QED
      BY <2>1, <2>2 DEF Verified, Before
  <1>5. QED
    BY <1>1, <1>2, <1>3, <1>4 DEF Next

(* The inductive invariant of a pool with one channel.                     *)
THEOREM OneChannelInductive ==
  ASSUME NChans = 1
  PROVE  Spec => []OneInv
  <1>1. Init => OneInv
    BY InitIInv DEF Init, OneInv, OneZero, Verified
  <1>2. OneInv /\ [Next]_vars => OneInv'
    <2> SUFFICES ASSUME OneInv, [Next]_vars PROVE OneInv'
      OBVIOUS
    <2>1. IInv'
      BY NextIInv DEF OneInv
    <2>2. CASE Next
      BY <2>1, <2>2, OneZeroPreserves, VerifiedPreserves DEF OneInv
    <2>3. CASE UNCHANGED vars
      <3>1. UNCHANGED <<ctl, ci, zi, num, zts, acnt, sem, zpc>>
        BY <2>3 DEF vars, ctlVars, wtzVars
      <3>2. OneZero' /\ Verified'
        BY <3>1 DEF OneInv, OneZero, Verified, Before
      <3>3. QED
        BY <2>1, <3>2 DEF OneInv
    <2>4. QED
      BY <2>2, <2>3
  <1>3. QED
    BY <1>1, <1>2, PTL DEF Spec

(* With one channel wtz_wait returns only when every ZT is through its     *)
(* initialisation, be it with an error.                                    *)
THEOREM OneChannelWaits ==
  ASSUME NChans = 1
  PROVE  Spec => []WaitsForAll
  <1>1. OneInv => WaitsForAll
    BY NonePending DEF OneInv, OneZero, WaitsForAll
  <1>2. QED
    BY <1>1, OneChannelInductive, PTL

(* With one channel a start that succeeds leaves a serving ZT on every     *)
(* online cpu, as long as the pool is up.                                  *)
THEOREM OneChannelServes ==
  ASSUME NChans = 1
  PROVE  Spec => []UpMeansServing
  <1>1. OneInv => UpMeansServing
    <2> SUFFICES ASSUME OneInv, ctl = "recv", num, NEW c \in Chans, NEW i \in Online
                 PROVE  zpc[<<c, i>>] \in {"check", "wait", "op"}
      BY DEF UpMeansServing
    <2>1. <<c, i>> \in Zts /\ <<c, i>>[2] = i
      BY ZtsFacts, ConstantsAssumption
    <2>2. QED
      BY <2>1 DEF OneInv, Verified, Serving
  <1>2. QED
    BY <1>1, OneChannelInductive, PTL
=============================================================================
