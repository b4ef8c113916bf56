---------------------------- MODULE RoutableProofs ---------------------------
(***************************************************************************)
(* What a step of a goroutine leaves alone, and from it, however the       *)
(* goroutines interleave: every routed record can be recreated             *)
(* (RoutableIsRecreatable, as long as no reviewer uses `/preview wake`),   *)
(* and the limit on previews is exceeded for two causes only               *)
(* (OverLimitHasCause).                                                    *)
(***************************************************************************)
EXTENDS ReconcilerProofs

USE DEF TypeOK, DaemonTypeOK, DockerTypeOK, GithubTypeOK, ThreadTypeOK,
        TickTypeOK, WorldTypeOK, daemonVars, dockerVars, githubVars, tickVars,
        worldVars

-----------------------------------------------------------------------------
(* The frame of a step: one goroutine moves, and writes one record.        *)

\* No goroutine but self moves.
Only(self) == \A s \in Procs \ {self} : pc'[s] = pc[s] /\ loc'[s] = loc[s]

\* No record but that of self's key is written.
Elsewhere(self) == \A k \in Keys \ {Key(self)} : store'[k] = store[k]

LEMMA JumpOnly ==
  ASSUME TypeOK, NEW self \in Procs, NEW l, NEW lv,
         Jump(self, l), SetLoc(self, lv)
  PROVE  Only(self) /\ pc'[self] = l /\ loc'[self] = lv
BY DEF Jump, SetLoc, Only

LEMMA StayOnly ==
  ASSUME TypeOK, NEW self \in Procs, NEW l, Jump(self, l), loc' = loc
  PROVE  Only(self) /\ pc'[self] = l /\ loc'[self] = loc[self]
BY DEF Jump, Only

\* What Return and PublishThen make of the locals lv.
LEMMA ReturnOnly ==
  ASSUME TypeOK, NEW self \in Procs, NEW l, NEW lv, Return(self, lv, l)
  PROVE  /\ Only(self)
         /\ \/ pc'[self] = "idle" /\ loc'[self] = Blank
            \/ /\ pc'[self] = l /\ l \in LoopHeads
               /\ loc'[self] = [lv EXCEPT !.p = Absent]
            \/ /\ pc'[self] = l /\ l \notin LoopHeads
               /\ loc'[self] = lv
BY JumpOnly DEF Return, Exit

LEMMA PublishThenOnly ==
  ASSUME TypeOK, NEW self \in Procs, NEW l, NEW lv, PublishThen(self, lv, l)
  PROVE  /\ Only(self)
         /\ \/ pc'[self] = "publish" /\ loc'[self] = [lv EXCEPT !.ret = l]
            \/ pc'[self] = "idle" /\ loc'[self] = Blank
            \/ /\ pc'[self] = l /\ l \in LoopHeads
               /\ loc'[self] = [lv EXCEPT !.p = Absent]
            \/ /\ pc'[self] = l /\ l \notin LoopHeads
               /\ loc'[self] = lv
<1>1. CASE Installed
  <2>1. Jump(self, "publish") /\ SetLoc(self, [lv EXCEPT !.ret = l])
    BY <1>1 DEF PublishThen
  <2> QED
    BY <2>1, JumpOnly
<1>2. CASE ~Installed
  <2>1. Return(self, lv, l)
    BY <1>2 DEF PublishThen
  <2> QED
    BY <2>1, ReturnOnly
<1> QED
  BY <1>1, <1>2

LEMMA PutElsewhere ==
  ASSUME TypeOK, NEW self \in Procs, NEW p, Put(Key(self), p)
  PROVE  Elsewhere(self) /\ store'[Key(self)] = p
BY KeyType DEF Put, Elsewhere

-----------------------------------------------------------------------------
(* The invariant.                                                          *)

\* A record that is routed, or about to be, names its container and image.
Named(p) == p.cid # 0 /\ p.img # 0
Recreatable(p) == p.status \in {"running", "sleeping"} => Named(p)

\* A goroutine at these steps will write the record in hand as running or
\* sleeping, whatever its status; a deploy fills its container in on the way.
Routing   == {"wake", "probe", "wakePut", "recreate", "rerun", "healPut",
              "sleep", "sleepPut"}
Finishing == {"ready", "isReady", "commit"}

\* What a goroutine at step l has in its locals, when nobody wakes on command.
SoundAt(l, lv) ==
  /\ Recreatable(lv.p)
  /\ \A k \in Keys : Recreatable(lv.todo[k])
  /\ l \in Routing => Named(lv.p)
  /\ l \in Finishing => lv.p.cid # 0 /\ lv.sha # 0
  /\ l \notin {"wakeList", "wakeNext"} /\ lv.ret # "wakeNext"

StoreSound == \A k \in Keys : Recreatable(store[k])

RInv == StoreSound /\ \A s \in Procs : SoundAt(pc[s], loc[s])

USE DEF Named

LEMMA OnlyKeepsSound ==
  ASSUME TypeOK, RInv, NEW self \in Procs, Only(self),
         SoundAt(pc'[self], loc'[self])
  PROVE  \A s \in Procs : SoundAt(pc'[s], loc'[s])
BY DEF RInv, Only

LEMMA PutKeepsSound ==
  ASSUME TypeOK, StoreSound, NEW self \in Procs, NEW p,
         Put(Key(self), p), Recreatable(p)
  PROVE  StoreSound'
<1>1. \A k \in Keys : store'[k] = store[k] \/ store'[k] = p
  BY DEF Put
<1> QED
  BY <1>1 DEF StoreSound, Recreatable

LEMMA BlankSound == SoundAt("idle", Blank)
BY DEF SoundAt, Blank, Nothing, Absent, Recreatable, Routing, Finishing

LEMMA AbsentRecreatable == Recreatable(Absent)
BY DEF Recreatable, Absent

\* The step after a call: sound if the locals are, at that step.
LEMMA ReturnSound ==
  ASSUME TypeOK, RInv, NEW self \in Procs, NEW l \in Returns \ {"wakeNext"},
         NEW lv \in Locals, SoundAt("publish", lv), Return(self, lv, l)
  PROVE  \A s \in Procs : SoundAt(pc'[s], loc'[s])
<1>1. SoundAt(l, lv) /\ SoundAt(l, [lv EXCEPT !.p = Absent])
  BY AbsentRecreatable DEF SoundAt, Routing, Finishing, Returns, LoopHeads, Locals
<1>2. SoundAt(pc'[self], loc'[self]) /\ Only(self)
  BY <1>1, ReturnOnly, BlankSound
<1> QED
  BY <1>2, OnlyKeepsSound

LEMMA PublishThenSound ==
  ASSUME TypeOK, RInv, NEW self \in Procs, NEW l \in Returns \ {"wakeNext"},
         NEW lv \in Locals, SoundAt("publish", lv), PublishThen(self, lv, l)
  PROVE  \A s \in Procs : SoundAt(pc'[s], loc'[s])
<1>1. CASE Return(self, lv, l)
  BY <1>1, ReturnSound
<1>2. CASE Jump(self, "publish") /\ SetLoc(self, [lv EXCEPT !.ret = l])
  <2>1. SoundAt("publish", [lv EXCEPT !.ret = l])
    BY DEF SoundAt, Routing, Finishing, Locals
  <2> QED
    BY <1>2, <2>1, JumpOnly, OnlyKeepsSound
<1> QED
  BY <1>1, <1>2 DEF PublishThen

-----------------------------------------------------------------------------
(* The steps of a deploy and of a teardown.                                *)

ThreadsSound == \A s \in Procs : SoundAt(pc[s], loc[s])

LEMMA LocalSound ==
  ASSUME TypeOK, RInv, NEW self \in Procs
  PROVE  /\ loc[self] \in Locals /\ loc[self].p \in Preview
         /\ Recreatable(loc[self].p)
         /\ \A k \in Keys : Recreatable(loc[self].todo[k])
         /\ loc[self].ret \in Returns \ {"wakeNext"}
         /\ SoundAt("publish", loc[self])
BY LocalType DEF RInv, SoundAt, Routing, Finishing

\* A jump with the locals as they are, to a step that asks nothing of them.
LEMMA JumpSound ==
  ASSUME TypeOK, RInv, NEW self \in Procs,
         NEW l \in PCs \ (Routing \cup Finishing \cup {"wakeList", "wakeNext"}),
         Jump(self, l), loc' = loc
  PROVE  ThreadsSound'
<1>1. SoundAt(l, loc[self])
  BY DEF RInv, SoundAt
<1> QED
  BY <1>1, StayOnly, OnlyKeepsSound DEF ThreadsSound

\* Another record in hand.
LEMMA InHand ==
  ASSUME NEW lv \in Locals, NEW p \in Preview
  PROVE  LET new == [lv EXCEPT !.p = p] IN
           /\ new \in Locals /\ new.p = p /\ new.todo = lv.todo
           /\ new.ret = lv.ret /\ new.sha = lv.sha /\ new.apps = lv.apps
           /\ new.ev = lv.ev /\ new.woke = lv.woke
           /\ new.pr = lv.pr /\ new.app = lv.app
BY DEF Locals

LEMMA InHandSound ==
  ASSUME NEW lv \in Locals, SoundAt("publish", lv),
         NEW p \in Preview, Recreatable(p)
  PROVE  SoundAt("publish", [lv EXCEPT !.p = p])
BY InHand DEF SoundAt, Routing, Finishing

\* And a return to one.
LEMMA ReturnToSound ==
  ASSUME TypeOK, RInv, NEW self \in Procs,
         NEW l \in PCs \ (Routing \cup Finishing \cup {"wakeList", "wakeNext"}),
         Return(self, loc[self], l)
  PROVE  ThreadsSound'
<1>1. SoundAt(l, loc[self]) /\ SoundAt(l, [loc[self] EXCEPT !.p = Absent])
  <2>1. Recreatable(Absent) /\ Absent \in Preview /\ loc[self] \in Locals
    BY AbsentRecreatable, AbsentType, LocalSound
  <2> QED
    BY <2>1, LocalSound DEF SoundAt, Locals
<1> QED
  BY <1>1, ReturnOnly, BlankSound, OnlyKeepsSound DEF ThreadsSound

LEMMA NextAppSound ==
  ASSUME TypeOK, RInv, NEW self \in Procs, NextApp(self)
  PROVE  ThreadsSound'
<1>1. PICK a \in loc[self].apps :
      LET existing == store[<<loc[self].pr, a>>] IN
       /\ SetLoc(self, [loc[self] EXCEPT
                          !.app = a, !.apps = @ \ {a},
                          !.p = [existing EXCEPT !.status = "building"]])
       /\ Jump(self, IF existing = Absent THEN "capacity" ELSE "put")
  BY DEF NextApp
<1> DEFINE existing == store[<<loc[self].pr, a>>]
           p == [existing EXCEPT !.status = "building"]
           lv == [loc[self] EXCEPT !.app = a, !.apps = @ \ {a}, !.p = p]
<1>2. existing \in Preview
  BY LocalSound DEF Keys, Locals
<1>3. Recreatable(p)
  BY <1>2 DEF Recreatable, Preview
<1>4. SoundAt("capacity", lv) /\ SoundAt("put", lv)
  BY <1>3, LocalSound DEF SoundAt, Routing, Finishing, Locals
<1> QED
  BY <1>1, <1>4, JumpOnly, OnlyKeepsSound DEF ThreadsSound

LEMMA PublishSound ==
  ASSUME TypeOK, RInv, NEW self \in Procs, Publish(self)
  PROVE  RInv'
<1> USE LocalSound
<1>1. CASE CreateDeployment(self, Key(self))
  <2> DEFINE p == [loc[self].p EXCEPT !.dep = FreshDep]
             lv == [loc[self] EXCEPT !.p = p]
  <2>1. p \in Preview /\ Recreatable(p)
    BY <1>1, FreshDepType DEF CreateDeployment, Preview, Recreatable
  <2>2. lv \in Locals /\ SoundAt("publish", lv)
    BY <2>1, InHand, InHandSound
  <2>3. Put(Key(self), p) /\ Return(self, lv, loc[self].ret)
    BY <1>1 DEF CreateDeployment
  <2> QED
    BY <2>1, <2>2, <2>3, PutKeepsSound, ReturnSound DEF RInv
<1>2. CASE \/ SetDeploymentStatus(self, Key(self))
           \/ PublishFails(self)
  <2>1. Return(self, loc[self], loc[self].ret) /\ store' = store
    BY <1>2 DEF SetDeploymentStatus, PublishFails
  <2> QED
    BY <2>1, ReturnSound DEF RInv, StoreSound
<1> QED
  BY <1>1, <1>2 DEF Publish

\* docker run gives the preview in hand a container.
LEMMA DockerRunOkSound ==
  ASSUME TypeOK, RInv, NEW self \in Procs, NEW k \in Keys, NEW tag,
         DockerRunOk(self, k, tag)
  PROVE  LET lv == [loc[self] EXCEPT !.p.cid = FreshCid] IN
           /\ loc' = [loc EXCEPT ![self] = lv]
           /\ lv \in Locals /\ SoundAt("publish", lv)
           /\ lv.p.cid # 0 /\ lv.p.img = loc[self].p.img /\ tag # 0
<1> DEFINE p == [loc[self].p EXCEPT !.cid = FreshCid]
           lv == [loc[self] EXCEPT !.p.cid = FreshCid]
<1>1. FreshCid \in Cids /\ FreshCid # 0 /\ tag \in Commits /\ tag # 0
  BY FreshCidType, IdsAssumption DEF DockerRunOk, CanRun, Commits
<1>2. /\ p \in Preview /\ p.cid = FreshCid /\ p.img = loc[self].p.img
      /\ p.status = loc[self].p.status
  BY <1>1, LocalSound DEF Preview
<1>3. lv = [loc[self] EXCEPT !.p = p]
  BY LocalSound DEF Locals
<1>4. Recreatable(p)
  BY <1>1, <1>2, LocalSound DEF Recreatable
<1>5. lv \in Locals /\ lv.p = p /\ SoundAt("publish", lv)
  <2> HIDE DEF p, lv
  <2> QED
    BY <1>2, <1>3, <1>4, LocalSound, InHand, InHandSound
<1> QED
  BY <1>1, <1>2, <1>5 DEF DockerRunOk, SetLoc

LEMMA RunSound ==
  ASSUME TypeOK, RInv, NEW self \in Procs, Run(self)
  PROVE  ThreadsSound'
<1>1. CASE DockerRunOk(self, Key(self), loc[self].sha) /\ Jump(self, "ready")
  <2> DEFINE lv == [loc[self] EXCEPT !.p.cid = FreshCid]
  <2>1. /\ SetLoc(self, lv) /\ SoundAt("publish", lv) /\ lv.p.cid # 0
        /\ loc[self].sha # 0
    BY <1>1, DockerRunOkSound, KeyType DEF SetLoc
  <2>2. lv.sha = loc[self].sha
    BY LocalSound DEF Locals
  <2>3. SoundAt("ready", lv)
    BY <2>1, <2>2 DEF SoundAt, Routing
  <2> QED
    BY <1>1, <2>1, <2>3, JumpOnly, OnlyKeepsSound DEF ThreadsSound
<1>2. CASE Jump(self, "fail") /\ loc' = loc
  BY <1>2, JumpSound DEF PCs, Routing, Finishing
<1> QED
  BY <1>1, <1>2 DEF Run

LEMMA IsReadySound ==
  ASSUME TypeOK, RInv, NEW self \in Procs, IsReady(self)
  PROVE  ThreadsSound'
<1>0. loc[self].p.cid # 0 /\ loc[self].sha # 0
  BY DEF IsReady, RInv, SoundAt, Finishing
<1>1. CASE Jump(self, "commit") /\ loc' = loc
  <2>1. SoundAt("commit", loc[self])
    BY <1>0, LocalSound DEF SoundAt, Routing
  <2> QED
    BY <1>1, <2>1, StayOnly, OnlyKeepsSound DEF ThreadsSound
<1>2. CASE /\ Jump(self, "tearHost")
           /\ SetLoc(self, [loc[self] EXCEPT !.p.img = loc[self].sha,
                                             !.ret = "deploy"])
  <2> DEFINE lv == [loc[self] EXCEPT !.p.img = loc[self].sha, !.ret = "deploy"]
           p == [loc[self].p EXCEPT !.img = loc[self].sha]
  <2>1. p \in Preview /\ p.cid # 0 /\ p.img # 0
    BY <1>0, LocalSound, LocalType DEF Preview
  <2>2. lv.p = p /\ lv.todo = loc[self].todo /\ lv.ret = "deploy"
    BY LocalSound DEF Locals
  <2>3. SoundAt("tearHost", lv)
    <3> HIDE DEF p, lv
    <3> QED
      BY <2>1, <2>2, LocalSound DEF SoundAt, Routing, Finishing, Recreatable
  <2> QED
    BY <1>2, <2>3, JumpOnly, OnlyKeepsSound DEF ThreadsSound
<1> QED
  BY <1>1, <1>2 DEF IsReady

\* A record is written with the status that a step decided on.
LEMMA WriteSound ==
  ASSUME TypeOK, RInv, NEW self \in Procs, NEW p \in Preview, Recreatable(p),
         Put(Key(self), p), NEW l \in Returns \ {"wakeNext"},
         PublishThen(self, [loc[self] EXCEPT !.p = p], l)
  PROVE  RInv'
<1> DEFINE lv == [loc[self] EXCEPT !.p = p]
<1>1. lv \in Locals /\ SoundAt("publish", lv)
  BY LocalSound, InHand, InHandSound
<1> QED
  BY <1>1, PutKeepsSound, PublishThenSound DEF RInv

LEMMA PutSound ==
  ASSUME TypeOK, RInv, NEW self \in Procs,
         PutBuilding(self) \/ Commit(self) \/ PutFailed(self)
  PROVE  RInv'
<1> USE LocalSound
<1>1. CASE PutBuilding(self)
  BY <1>1, PutKeepsSound, PublishThenSound DEF PutBuilding, RInv, Returns
<1>2. CASE Commit(self)
  <2> DEFINE p == GoLive(loc[self].p, loc[self].sha)
  <2>1. loc[self].p.cid # 0 /\ loc[self].sha # 0
    BY <1>2 DEF Commit, RInv, SoundAt, Finishing
  <2>2. p \in Preview /\ Named(p)
    BY <2>1, GoLiveType DEF GoLive, Preview, Locals
  <2>3. Recreatable(p)
    BY <2>2 DEF Recreatable
  <2>4. /\ Put(Key(self), p)
        /\ PublishThen(self, [loc[self] EXCEPT !.p = p], "deploy")
    BY <1>2 DEF Commit
  <2> HIDE DEF p
  <2> QED
    BY <2>2, <2>3, <2>4, WriteSound DEF Returns, LoopHeads
<1>3. CASE PutFailed(self)
  <2> DEFINE p == [loc[self].p EXCEPT !.status = "failed"]
  <2>1. p \in Preview /\ Recreatable(p)
    BY DEF Preview, Status, Recreatable
  <2> QED
    BY <1>3, <2>1, WriteSound DEF PutFailed, Returns, LoopHeads
<1> QED
  BY <1>1, <1>2, <1>3

LEMMA TearSound ==
  ASSUME TypeOK, RInv, NEW self \in Procs, TearHost(self) \/ TearDelete(self)
  PROVE  RInv'
<1>1. CASE TearHost(self)
  BY <1>1, JumpSound DEF TearHost, PCs, Routing, Finishing, RInv, ThreadsSound,
                         StoreSound
<1>2. CASE TearDelete(self)
  BY <1>2, LocalSound, PutKeepsSound, AbsentRecreatable, ReturnSound
     DEF TearDelete, RInv
<1> QED
  BY <1>1, <1>2

LEMMA DeploySound ==
  ASSUME TypeOK, RInv, NEW self \in Procs, DeployStep(self)
  PROVE  RInv'
<1> DEFINE Plain(l) ==
      l \in PCs \ (Routing \cup Finishing \cup {"wakeList", "wakeNext"})
<1>0. /\ Plain("clean") /\ Plain("fail") /\ Plain("fetchSource")
      /\ Plain("build") /\ Plain("built") /\ Plain("network") /\ Plain("run")
      /\ Plain("put") /\ Plain("failPut")
  BY DEF PCs, Routing, Finishing
<1>1. CASE NextApp(self) \/ Run(self) \/ IsReady(self)
  <2>1. ThreadsSound'
    BY <1>1, NextAppSound, RunSound, IsReadySound
  <2> QED
    BY <1>1, <2>1 DEF NextApp, Run, IsReady, RInv, ThreadsSound, StoreSound
<1>2. CASE CheckCapacity(self)
  <2>1. \E l \in {"deploy", "put"} : Return(self, loc[self], l)
    BY <1>2 DEF CheckCapacity
  <2>3. ASSUME Return(self, loc[self], "deploy") PROVE ThreadsSound'
    BY <2>3, LocalSound, ReturnSound DEF ThreadsSound, Returns, LoopHeads
  <2>4. ASSUME Return(self, loc[self], "put") PROVE ThreadsSound'
    BY <1>0, <2>4, ReturnToSound
  <2> QED
    BY <1>2, <2>1, <2>3, <2>4 DEF CheckCapacity, RInv, ThreadsSound, StoreSound
<1>3. CASE Publish(self)
  BY <1>3, PublishSound
<1>4. CASE PutBuilding(self) \/ Commit(self) \/ PutFailed(self)
  BY <1>4, PutSound
<1>5. CASE TearHost(self) \/ TearDelete(self)
  BY <1>5, TearSound
<1> USE DEF RInv, ThreadsSound, StoreSound
<1>6. CASE Acquire(self)
  BY <1>0, <1>6, JumpSound DEF Acquire
<1>7. CASE Clean(self)
  BY <1>0, <1>7, JumpSound DEF Clean, LeaveBuild
<1>8. CASE FetchSource(self)
  BY <1>0, <1>8, JumpSound DEF FetchSource, LeaveBuild
<1>9. CASE BuildImage(self)
  BY <1>0, <1>9, JumpSound DEF BuildImage, LeaveBuild
<1>10. CASE Built(self)
  BY <1>0, <1>10, JumpSound, ReturnSound, LocalSound
     DEF Built, Returns, LoopHeads
<1>11. CASE EnsureNetwork(self)
  BY <1>0, <1>11, JumpSound DEF EnsureNetwork
<1>12. CASE AwaitReady(self)
  <2>1. SoundAt("isReady", loc[self])
    BY <1>12 DEF AwaitReady, SoundAt, Routing, Finishing
  <2> QED
    BY <1>0, <1>12, <2>1, JumpSound, StayOnly, OnlyKeepsSound DEF AwaitReady
<1>13. CASE RecordFailure(self)
  <2>1. \/ Return(self, loc[self], "deploy")
        \/ Return(self, loc[self], "failPut")
    BY <1>13 DEF RecordFailure
  <2>2. ASSUME Return(self, loc[self], "failPut") PROVE ThreadsSound'
    BY <1>0, <2>2, ReturnToSound
  <2>3. ASSUME Return(self, loc[self], "deploy") PROVE ThreadsSound'
    BY <2>3, LocalSound, ReturnSound DEF ThreadsSound, Returns, LoopHeads
  <2> QED
    BY <1>13, <2>1, <2>2, <2>3 DEF RecordFailure
<1> QED
  BY <1>1, <1>2, <1>3, <1>4, <1>5, <1>6, <1>7, <1>8, <1>9, <1>10, <1>11,
     <1>12, <1>13 DEF DeployStep

-----------------------------------------------------------------------------
(* The steps of the handlers.                                              *)

LEMMA SnapshotSound ==
  ASSUME TypeOK, RInv, NEW S
  PROVE  \A k \in Keys : Recreatable(Snapshot(S)[k])
BY AbsentRecreatable DEF Snapshot, RInv, StoreSound

\* The next record of a list, for a step l that asks no more than there is.
LEMMA TakeNextSound ==
  ASSUME TypeOK, RInv, NEW self \in Procs, NEW k \in Keys,
         NEW ret \in Returns \ {"wakeNext"}, NEW l \in PCs \ {"wakeList", "wakeNext"},
         l \notin Finishing,
         l \in Routing => Named(loc[self].todo[k]),
         NEW lv, lv = [TakeNext(self, k) EXCEPT !.ret = ret]
  PROVE  SoundAt(l, lv)
<1>1. /\ lv.p = loc[self].todo[k] /\ lv.ret = ret
      /\ lv.todo = [loc[self].todo EXCEPT ![k] = Absent]
  <2> DEFINE t == TakeNext(self, k)
  <2>1. /\ t.p = loc[self].todo[k]
        /\ t.todo = [loc[self].todo EXCEPT ![k] = Absent]
    <3>1. loc[self] \in Locals
      BY LocalSound
    <3> QED
      BY <3>1 DEF TakeNext, Locals
  <2>2. t \in Locals
    BY TakeNextType
  <2> HIDE DEF t
  <2>3. LET u == [t EXCEPT !.ret = ret] IN
          u.p = t.p /\ u.todo = t.todo /\ u.ret = ret
    BY <2>2 DEF Locals
  <2> QED
    BY <2>1, <2>3 DEF t
<1>2. \A x \in Keys : Recreatable(lv.todo[x])
  <2>1. /\ loc[self].todo \in [Keys -> Preview]
        /\ \A x \in Keys : Recreatable(loc[self].todo[x])
    BY LocalSound, LocalType
  <2> QED
    BY <1>1, <2>1, AbsentRecreatable
<1>3. Recreatable(lv.p)
  BY <1>1, LocalSound
<1>4. l \in Routing => Named(lv.p)
  BY <1>1
<1> QED
  BY <1>1, <1>2, <1>3, <1>4 DEF SoundAt

\* What makes a goroutine's locals sound in a step that only writes these.
LEMMA PlainSound ==
  ASSUME TypeOK, RInv, NEW self \in Procs, NEW lv,
         lv.p = loc[self].p, lv.todo = loc[self].todo, lv.ret = loc[self].ret,
         NEW l \in PCs \ (Routing \cup Finishing \cup {"wakeList", "wakeNext"}),
         Jump(self, l), SetLoc(self, lv)
  PROVE  ThreadsSound'
<1>1. SoundAt(l, lv)
  BY LocalSound DEF SoundAt
<1> QED
  BY <1>1, JumpOnly, OnlyKeepsSound DEF ThreadsSound

LEMMA ExitSound ==
  ASSUME TypeOK, RInv, NEW self \in Procs, Exit(self)
  PROVE  ThreadsSound'
BY JumpOnly, BlankSound, OnlyKeepsSound DEF Exit, ThreadsSound

LEMMA ListSound ==
  ASSUME TypeOK, RInv, NEW self \in Procs,
         \/ HandleClosed(self) \/ PreviewEnvironments(self)
         \/ ListForTeardown(self) \/ TearNext(self) \/ TornDown(self)
  PROVE  RInv'
<1> USE LocalSound
<1> DEFINE Plain(l) ==
      l \in PCs \ (Routing \cup Finishing \cup {"wakeList", "wakeNext"})
<1>0. /\ Plain("environments") /\ Plain("list") /\ Plain("tearNext")
      /\ Plain("tearHost")
  BY DEF PCs, Routing, Finishing
<1>1. CASE HandleClosed(self)
  <2>1. ThreadsSound'
    BY <1>0, <1>1, JumpSound DEF HandleClosed, Goto
  <2> QED
    BY <1>1, <2>1 DEF HandleClosed, RInv, ThreadsSound, StoreSound
<1>2. CASE PreviewEnvironments(self)
  <2> DEFINE lv == [loc[self] EXCEPT
                     !.apps = {a \in Apps : <<loc[self].pr, a>> \in Live}]
  <2>1. lv.p = loc[self].p /\ lv.todo = loc[self].todo /\ lv.ret = loc[self].ret
    BY DEF Locals
  <2>2. Jump(self, "list") /\ SetLoc(self, lv) /\ store' = store
    BY <1>2 DEF PreviewEnvironments, Goto
  <2> HIDE DEF lv
  <2>3. ThreadsSound'
    BY <1>0, <2>1, <2>2, PlainSound
  <2> QED
    BY <2>2, <2>3 DEF RInv, ThreadsSound, StoreSound
<1>3. CASE ListForTeardown(self)
  <2> DEFINE lv == [loc[self] EXCEPT !.todo = Snapshot(OfCommand(self))]
  <2>1. /\ lv.p = loc[self].p /\ lv.todo = Snapshot(OfCommand(self))
        /\ lv.ret = loc[self].ret
    BY DEF Locals
  <2>2. Jump(self, "tearNext") /\ SetLoc(self, lv) /\ store' = store
    BY <1>3 DEF ListForTeardown, Goto
  <2> HIDE DEF lv
  <2>3. SoundAt("tearNext", lv)
    BY <2>1, SnapshotSound DEF SoundAt, Routing, Finishing
  <2> QED
    BY <2>2, <2>3, JumpOnly, OnlyKeepsSound DEF RInv, StoreSound
<1>4. CASE TearNext(self)
  <2>1. PICK k \in Keys :
          SetLoc(self, [TakeNext(self, k) EXCEPT !.ret = "tearNext"])
    BY <1>4 DEF TearNext, Pending
  <2> DEFINE lv == [TakeNext(self, k) EXCEPT !.ret = "tearNext"]
  <2>2. lv = [TakeNext(self, k) EXCEPT !.ret = "tearNext"] /\ SetLoc(self, lv)
    BY <2>1
  <2> HIDE DEF lv
  <2>3. SoundAt("tearHost", lv)
    <3>1. /\ "tearHost" \in PCs \ {"wakeList", "wakeNext"}
          /\ "tearHost" \notin Routing \cup Finishing
          /\ "tearNext" \in Returns \ {"wakeNext"}
      BY DEF Returns, LoopHeads, PCs, Routing, Finishing
    <3> QED
      BY <2>2, <3>1, TakeNextSound
  <2> QED
    BY <1>4, <2>2, <2>3, JumpOnly, OnlyKeepsSound
       DEF TearNext, Goto, RInv, StoreSound
<1>5. CASE TornDown(self)
  <2>1. ThreadsSound'
    BY <1>5, ExitSound DEF TornDown
  <2> QED
    BY <1>5, <2>1 DEF TornDown, RInv, ThreadsSound, StoreSound
<1> QED
  BY <1>1, <1>2, <1>3, <1>4, <1>5

\* Other apps to do, or another commit.
LEMMA OtherLocals ==
  ASSUME NEW lv \in Locals
  PROVE  /\ \A S \in SUBSET Apps : LET new == [lv EXCEPT !.apps = S] IN
              /\ new \in Locals /\ new.p = lv.p
              /\ new.todo = lv.todo /\ new.ret = lv.ret
         /\ \A c \in Commits \cup {0} : LET new == [lv EXCEPT !.sha = c] IN
              /\ new \in Locals /\ new.p = lv.p
              /\ new.todo = lv.todo /\ new.ret = lv.ret
BY DEF Locals

LEMMA OpenedSound ==
  ASSUME TypeOK, RInv, NEW self \in Procs, HandleOpened(self) \/ Redeploy(self)
  PROVE  RInv'
<1>1. CASE HandleOpened(self)
  <2>1. PICK S \in SUBSET Apps :
          Return(self, [loc[self] EXCEPT !.apps = S], "deploy")
    BY <1>1 DEF HandleOpened
  <2> DEFINE lv == [loc[self] EXCEPT !.apps = S]
  <2>2. /\ lv \in Locals /\ lv.p = loc[self].p
        /\ lv.todo = loc[self].todo /\ lv.ret = loc[self].ret
    BY LocalSound, OtherLocals
  <2> HIDE DEF lv
  <2>3. SoundAt("publish", lv)
    BY <2>2, LocalSound DEF SoundAt, Routing, Finishing
  <2> QED
    BY <1>1, <2>1, <2>2, <2>3, ReturnSound
       DEF HandleOpened, RInv, StoreSound, Returns, LoopHeads, lv
<1>2. CASE Redeploy(self)
  <2>1. CASE Exit(self)
    BY <1>2, <2>1, ExitSound DEF Redeploy, RInv, StoreSound, ThreadsSound
  <2>2. CASE Return(self, [loc[self] EXCEPT !.sha = head[loc[self].pr]], "deploy")
    <3> DEFINE lv == [loc[self] EXCEPT !.sha = head[loc[self].pr]]
    <3>1. head[loc[self].pr] \in Commits \cup {0}
      BY LocalSound DEF Locals
    <3>2. /\ lv \in Locals /\ lv.p = loc[self].p
          /\ lv.todo = loc[self].todo /\ lv.ret = loc[self].ret
      BY <3>1, LocalSound, OtherLocals
    <3> HIDE DEF lv
    <3>3. SoundAt("publish", lv)
      BY <3>2, LocalSound DEF SoundAt, Routing, Finishing
    <3> QED
      BY <1>2, <2>2, <3>2, <3>3, ReturnSound
         DEF Redeploy, RInv, StoreSound, Returns, LoopHeads, lv
  <2> QED
    BY <1>2, <2>1, <2>2 DEF Redeploy
<1> QED
  BY <1>1, <1>2

\* wake and recreateFromImage go from one step that routes to the next.
LEMMA RoutingSound ==
  ASSUME TypeOK, RInv, NEW self \in Procs, pc[self] \in Routing,
         NEW l \in Routing, Jump(self, l), loc' = loc
  PROVE  ThreadsSound'
<1>1. SoundAt(l, loc[self])
  BY DEF RInv, SoundAt, Routing, Finishing
<1> QED
  BY <1>1, StayOnly, OnlyKeepsSound DEF ThreadsSound

LEMMA WakeFailedSound ==
  ASSUME TypeOK, RInv, NEW self \in Procs, WakeFailed(self)
  PROVE  ThreadsSound'
BY LocalSound, ReturnSound DEF WakeFailed, ThreadsSound

LEMMA RecreateFailedSound ==
  ASSUME TypeOK, RInv, NEW self \in Procs, RecreateFailed(self)
  PROVE  ThreadsSound'
BY WakeFailedSound, JumpSound DEF RecreateFailed, PCs, Routing, Finishing

LEMMA WakeSound ==
  ASSUME TypeOK, RInv, NEW self \in Procs,
         Wake(self) \/ Recreate(self) \/ RunAgain(self) \/ Probe(self)
  PROVE  RInv'
<1>0. ThreadsSound' /\ store' = store => RInv'
  BY DEF RInv, ThreadsSound, StoreSound
<1>1. CASE Wake(self)
  BY <1>0, <1>1, RoutingSound, WakeFailedSound DEF Wake, Routing
<1>2. CASE Recreate(self)
  BY <1>0, <1>2, RoutingSound, RecreateFailedSound DEF Recreate, Routing
<1>3. CASE RunAgain(self)
  <2> DEFINE tag == loc[self].p.img
             lv == [loc[self] EXCEPT !.p.cid = FreshCid]
  <2>1. CASE /\ DockerRunOk(self, Key(self), tag)
             /\ Jump(self, IF self = Loop THEN "healPut" ELSE "probe")
    <3>1. /\ SetLoc(self, lv) /\ SoundAt("publish", lv)
          /\ lv.p.cid # 0 /\ lv.p.img = tag /\ tag # 0
      BY <2>1, DockerRunOkSound, KeyType DEF SetLoc
    <3> HIDE DEF lv
    <3>2. SoundAt("healPut", lv) /\ SoundAt("probe", lv)
      BY <3>1 DEF SoundAt, Routing, Finishing
    <3> QED
      BY <1>0, <1>3, <2>1, <3>1, <3>2, JumpOnly, OnlyKeepsSound
         DEF RunAgain, ThreadsSound
  <2>2. CASE RecreateFailed(self)
    BY <1>0, <1>3, <2>2, RecreateFailedSound DEF RunAgain
  <2> QED
    BY <1>3, <2>1, <2>2 DEF RunAgain
<1>4. CASE Probe(self)
  BY <1>0, <1>4, RoutingSound, WakeFailedSound DEF Probe, Routing
<1> QED
  BY <1>1, <1>2, <1>3, <1>4

\* The record in hand, written as running.
LEMMA LiveSound ==
  ASSUME TypeOK, RInv, NEW self \in Procs, pc[self] \in Routing
  PROVE  LET p == [loc[self].p EXCEPT !.status = "running", !.age = 0] IN
           p \in Preview /\ Recreatable(p)
<1>1. Named(loc[self].p)
  BY DEF RInv, SoundAt
<1> QED
  BY <1>1, LocalSound, LivePreview DEF Recreatable, Preview

LEMMA WakePutSound ==
  ASSUME TypeOK, RInv, NEW self \in Procs, WakePut(self)
  PROVE  RInv'
<1> DEFINE k == Key(self)
           p == [loc[self].p EXCEPT !.status = "running", !.age = 0]
           done == IF loc[self].ret = "idle" THEN Blank
                   ELSE [loc[self] EXCEPT !.woke = TRUE, !.p = Absent]
           publisher == [Blank EXCEPT !.ev = "publish", !.p = p,
                                      !.pr = k[1], !.app = k[2]]
           g == NewGoroutine
<1>1. p \in Preview /\ Recreatable(p)
  BY LiveSound DEF WakePut, Routing
<1>2. StoreSound'
  BY <1>1, PutKeepsSound DEF WakePut, RInv
<1>3. SoundAt(loc[self].ret, done)
  <2>1. CASE loc[self].ret = "idle"
    BY <2>1, BlankSound
  <2>2. CASE loc[self].ret # "idle"
    <3>1. /\ done.p = Absent /\ done.todo = loc[self].todo
          /\ done.ret = loc[self].ret
      BY <2>2, LocalSound DEF Locals
    <3> HIDE DEF done
    <3> QED
      BY <3>1, LocalSound, AbsentRecreatable
         DEF SoundAt, Returns, LoopHeads, Routing, Finishing
  <2> QED
    BY <2>1, <2>2
<1>4. SoundAt("publish", publisher)
  <2>1. publisher.p = p /\ publisher.todo = Nothing /\ publisher.ret = "idle"
    BY DEF Blank
  <2> HIDE DEF publisher, p
  <2> QED
    BY <1>1, <2>1, AbsentRecreatable DEF SoundAt, Routing, Finishing, Nothing
<1>5. CASE /\ Free # {}
           /\ pc' = [pc EXCEPT ![self] = loc[self].ret, ![g] = "publish"]
           /\ loc' = [loc EXCEPT ![self] = done, ![g] = publisher]
  <2>1. g \in Procs /\ g # self
    BY <1>5, NewGoroutineType DEF WakePut, Procs
  <2> HIDE DEF done, publisher, g
  <2>2. /\ pc'[self] = loc[self].ret /\ loc'[self] = done
        /\ pc'[g] = "publish" /\ loc'[g] = publisher
        /\ \A s \in Procs \ {self, g} : pc'[s] = pc[s] /\ loc'[s] = loc[s]
    BY <1>5, <2>1
  <2>3. \A s \in Procs : SoundAt(pc'[s], loc'[s])
    BY <1>3, <1>4, <2>2 DEF RInv
  <2> QED
    BY <1>2, <2>3 DEF RInv
<1>6. CASE Jump(self, loc[self].ret) /\ SetLoc(self, done)
  <2> HIDE DEF done
  <2> QED
    BY <1>2, <1>3, <1>6, JumpOnly, OnlyKeepsSound DEF RInv
<1> QED
  BY <1>5, <1>6 DEF WakePut

LEMMA RequestSound ==
  ASSUME TypeOK, RInv, NEW self \in Procs, Resolve(self) \/ Touch(self)
  PROVE  RInv'
<1>1. CASE Resolve(self)
  <2> DEFINE p == store[Key(self)]
             lv == [loc[self] EXCEPT !.p = p]
  <2>1. p \in Preview /\ Recreatable(p)
    BY KeyType DEF RInv, StoreSound
  <2>2. CASE /\ p.status \in {"running", "sleeping"} /\ SetLoc(self, lv)
             /\ Jump(self, IF p.status = "running" THEN "touch" ELSE "wake")
    <3>1. Named(p)
      BY <2>1, <2>2 DEF Recreatable
    <3> HIDE DEF p
    <3>2. SoundAt("touch", lv) /\ SoundAt("wake", lv)
      <4>1. SoundAt("publish", lv) /\ lv.p = p
        BY <2>1, LocalSound, InHand, InHandSound
      <4> QED
        BY <3>1, <4>1 DEF SoundAt, Routing, Finishing
    <3> QED
      BY <1>1, <2>2, <3>2, JumpOnly, OnlyKeepsSound
         DEF Resolve, RInv, StoreSound
  <2>3. CASE Exit(self)
    BY <1>1, <2>3, ExitSound DEF Resolve, RInv, StoreSound, ThreadsSound
  <2> QED
    BY <1>1, <2>2, <2>3 DEF Resolve
<1>2. CASE Touch(self)
  <2>1. Recreatable([loc[self].p EXCEPT !.age = 0])
    BY LocalSound DEF Recreatable, Preview
  <2> QED
    BY <1>2, <2>1, PutKeepsSound, ExitSound DEF Touch, RInv, ThreadsSound
<1> QED
  BY <1>1, <1>2

LEMMA HandlerSound ==
  ASSUME TypeOK, RInv, NEW self \in Procs, HandlerStep(self)
  PROVE  RInv'
<1>1. pc[self] \notin {"wakeList", "wakeNext"}
  BY DEF RInv, SoundAt
<1>2. ~WakeList(self) /\ ~WakeNext(self) /\ ~WokenUp(self)
  BY <1>1 DEF WakeList, WakeNext, WokenUp, Goto
<1> QED
  BY <1>2, ListSound, OpenedSound, WakeSound, WakePutSound, RequestSound
     DEF HandlerStep

-----------------------------------------------------------------------------
(* The steps of Tick, and of what surrounds the daemon.                    *)

LEMMA OlderSound ==
  ASSUME NEW p \in Preview
  PROVE  /\ Older(p) \in Preview /\ (Recreatable(p) => Recreatable(Older(p)))
         /\ Older(p).cid = p.cid /\ Older(p).img = p.img
BY OlderType DEF Older, Recreatable, Preview

LEMMA TickListSound ==
  ASSUME TypeOK, RInv, NEW elapsed \in BOOLEAN, TickList(elapsed)
  PROVE  RInv'
<1> DEFINE now(p) == IF elapsed THEN Older(p) ELSE p
           aged(s) == [loc[s] EXCEPT !.p = now(@),
                                     !.todo = [k \in Keys |-> now(@[k])]]
           first == [Blank EXCEPT !.ev = "tick",
                                  !.todo = [k \in Keys |-> now(store[k])]]
<1>1. \A p \in Preview : /\ Recreatable(p) => Recreatable(now(p))
                         /\ now(p).cid = p.cid /\ now(p).img = p.img
  BY OlderSound
<1> HIDE DEF now
<1>2. StoreSound'
  <2>1. \A k \in Keys : store'[k] = now(store[k])
    BY DEF TickList, now
  <2> QED
    BY <1>1, <2>1 DEF RInv, StoreSound
<1>3. SoundAt("ps", first)
  <2>1. /\ first.p = Absent /\ first.ret = "idle"
        /\ first.todo = [k \in Keys |-> now(store[k])]
    BY DEF Blank
  <2> HIDE DEF first
  <2> QED
    BY <1>1, <2>1, AbsentRecreatable
       DEF SoundAt, Routing, Finishing, RInv, StoreSound
<1>4. \A s \in Procs : SoundAt(pc[s], aged(s))
  <2> SUFFICES ASSUME NEW s \in Procs PROVE SoundAt(pc[s], aged(s))
    OBVIOUS
  <2>1. /\ aged(s).p = now(loc[s].p) /\ aged(s).ret = loc[s].ret
        /\ aged(s).sha = loc[s].sha
        /\ aged(s).todo = [k \in Keys |-> now(loc[s].todo[k])]
    BY LocalSound DEF Locals
  <2>2. SoundAt(pc[s], loc[s])
    BY DEF RInv
  <2> HIDE DEF aged
  <2> QED
    BY <1>1, <2>1, <2>2, LocalSound, LocalType DEF SoundAt
<1>5. /\ pc' = [pc EXCEPT ![Loop] = "ps"]
      /\ loc' = [s \in Procs |-> IF s = Loop THEN first ELSE aged(s)]
  BY DEF TickList, LoopDo, Goto, Jump, now
<1> HIDE DEF first, aged
<1> QED
  BY <1>2, <1>3, <1>4, <1>5 DEF RInv

LEMMA ListManagedSound ==
  ASSUME TypeOK, RInv, ListManaged
  PROVE  RInv'
<1> DEFINE left(k) == IF Verdict(loc[Loop].todo[k], managed'[k]) = "scan"
                      THEN Absent ELSE loc[Loop].todo[k]
           lv == [loc[Loop] EXCEPT !.todo = [k \in Keys |-> left(k)]]
<1>1. /\ Jump(Loop, "scan") /\ SetLoc(Loop, lv) /\ store' = store
      /\ loc[Loop] \in Locals
  BY LoopInProcs, LocalSound DEF ListManaged, LoopDo, Goto
<1>2. /\ lv.p = loc[Loop].p /\ lv.ret = loc[Loop].ret
      /\ lv.todo = [k \in Keys |-> left(k)]
  BY <1>1 DEF Locals
<1>3. \A k \in Keys : left(k) = Absent \/ left(k) = loc[Loop].todo[k]
  OBVIOUS
<1> HIDE DEF lv, left
<1>4. SoundAt("scan", lv)
  BY <1>2, <1>3, LoopInProcs, LocalSound, AbsentRecreatable
     DEF SoundAt, Routing, Finishing
<1> QED
  BY <1>1, <1>4, LoopInProcs, JumpOnly, OnlyKeepsSound DEF RInv, StoreSound

\* Tick heals only what names an image and a container, and puts to sleep only
\* what runs.
LEMMA VerdictSound ==
  ASSUME NEW p \in Preview, NEW id, Recreatable(p)
  PROVE  /\ Verdict(p, id) \in {"tearHost", "scan", "recreate", "sleep"}
         /\ Verdict(p, id) \in Routing => Named(p)
<1>1. CASE Expired(p)
  BY <1>1 DEF Verdict, Routing
<1>2. CASE ~Expired(p) /\ Missing(p, id)
  BY <1>2 DEF Verdict, Routing, Missing, Recreatable
<1>3. CASE ~Expired(p) /\ ~Missing(p, id) /\ IdleSince(p)
  BY <1>3 DEF Verdict, Recreatable, IdleSince
<1>4. CASE ~Expired(p) /\ ~Missing(p, id) /\ ~IdleSince(p)
  BY <1>4 DEF Verdict, Routing
<1> QED
  BY <1>1, <1>2, <1>3, <1>4

LEMMA ScanSound ==
  ASSUME TypeOK, RInv, Scan
  PROVE  RInv'
<1>1. PICK k \in Keys :
        /\ Jump(Loop, Verdict(loc[Loop].todo[k], managed[k]))
        /\ SetLoc(Loop, [TakeNext(Loop, k) EXCEPT !.ret = "scan"])
  BY DEF Scan, Pending
<1> DEFINE l == Verdict(loc[Loop].todo[k], managed[k])
<1>2. /\ loc[Loop].todo[k] \in Preview /\ Recreatable(loc[Loop].todo[k])
  BY LoopInProcs, LocalSound, LocalType
<1>3. /\ l \in {"tearHost", "scan", "recreate", "sleep"}
      /\ l \in Routing => Named(loc[Loop].todo[k])
  BY <1>2, VerdictSound
<1> HIDE DEF l
<1>4. /\ l \in PCs \ {"wakeList", "wakeNext"} /\ l \notin Finishing
      /\ "scan" \in Returns \ {"wakeNext"}
  BY <1>3 DEF PCs, Finishing, Returns, LoopHeads
<1> DEFINE lv == [TakeNext(Loop, k) EXCEPT !.ret = "scan"]
<1>5. /\ lv = [TakeNext(Loop, k) EXCEPT !.ret = "scan"]
      /\ SetLoc(Loop, lv) /\ Jump(Loop, l)
  BY <1>1 DEF l
<1> HIDE DEF lv
<1>6. SoundAt(l, lv)
  BY <1>3, <1>4, <1>5, LoopInProcs, TakeNextSound
<1> QED
  BY <1>5, <1>6, LoopInProcs, JumpOnly, OnlyKeepsSound
     DEF Scan, RInv, StoreSound

LEMMA HealSound ==
  ASSUME TypeOK, RInv, HealPut \/ HealFail \/ SleepPut
  PROVE  RInv'
<1>0. Loop \in Procs /\ loc[Loop].p \in Preview
      /\ "scan" \in Returns \ {"wakeNext"}
  BY LoopInProcs, LocalSound DEF Returns, LoopHeads
<1>1. CASE HealPut
  BY <1>0, <1>1, LiveSound, WriteSound DEF HealPut, HealWrite, Routing
<1>2. CASE HealFail
  <2>1. LET p == [loc[Loop].p EXCEPT !.status = "failed"] IN
          p \in Preview /\ Recreatable(p)
    BY <1>0 DEF Preview, Status, Recreatable
  <2> QED
    BY <1>0, <1>2, <2>1, WriteSound DEF HealFail, HealWrite
<1>3. CASE SleepPut
  <2>1. Named(loc[Loop].p)
    BY <1>0, <1>3 DEF SleepPut, RInv, SoundAt, Routing
  <2>2. LET p == [loc[Loop].p EXCEPT !.status = "sleeping"] IN
          p \in Preview /\ Recreatable(p)
    BY <1>0, <2>1 DEF Preview, Status, Recreatable
  <2> QED
    BY <1>0, <1>3, <2>2, WriteSound DEF SleepPut, HealWrite
<1> QED
  BY <1>1, <1>2, <1>3

LEMMA LoopSound ==
  ASSUME TypeOK, RInv, LoopStep
  PROVE  RInv'
<1> USE LoopInProcs
<1>1. CASE ListManaged \/ Scan
  BY <1>1, ListManagedSound, ScanSound
<1>2. CASE HealPut \/ HealFail \/ SleepPut
  BY <1>2, HealSound
<1>3. CASE Sleep
  <2>1. ThreadsSound'
    BY <1>3, RoutingSound, ReturnSound, LocalSound
       DEF Sleep, Routing, Returns, LoopHeads, ThreadsSound
  <2> QED
    BY <1>3, <2>1 DEF Sleep, RInv, ThreadsSound, StoreSound
<1>4. CASE Reap
  BY <1>4 DEF Reap, RInv, StoreSound
<1>5. CASE ReapDirs
  <2>1. ThreadsSound'
    BY <1>5, ExitSound DEF ReapDirs
  <2> QED
    BY <1>5, <2>1 DEF ReapDirs, RInv, ThreadsSound, StoreSound
<1>6. CASE Publish(Loop) \/ TearHost(Loop) \/ TearDelete(Loop)
  BY <1>6, PublishSound, TearSound
<1>7. CASE Recreate(Loop) \/ RunAgain(Loop)
  BY <1>7, WakeSound
<1> QED
  BY <1>1, <1>2, <1>3, <1>4, <1>5, <1>6, <1>7 DEF LoopStep

\* A new goroutine starts with blank records.
LEMMA StartSound ==
  ASSUME TypeOK, RInv, NEW l \in PCs \ (Routing \cup Finishing),
         l \notin {"wakeList", "wakeNext"}, NEW lv,
         lv.p = Absent, lv.todo = Nothing, lv.ret = "idle", Start(lv, l)
  PROVE  ThreadsSound'
<1>1. NewGoroutine \in Procs
  BY NewGoroutineType DEF Start, Procs
<1>2. SoundAt(l, lv)
  BY AbsentRecreatable DEF SoundAt, Nothing
<1> QED
  BY <1>1, <1>2, JumpOnly, OnlyKeepsSound DEF Start, ThreadsSound

LEMMA RebootSound ==
  ASSUME Reboot
  PROVE  ThreadsSound'
BY BlankSound DEF Reboot, ThreadsSound

LEMMA EnvironmentSound ==
  ASSUME TypeOK, RInv, "wake" \notin Commands, Environment
  PROVE  RInv'
<1> DEFINE Plain(l) == l \in PCs \ (Routing \cup Finishing)
                       /\ l \notin {"wakeList", "wakeNext"}
<1>0. /\ Plain("opened") /\ Plain("closing") /\ Plain("list")
      /\ Plain("redeploy") /\ Plain("resolve")
  BY DEF PCs, Routing, Finishing
<1>00. /\ Blank.p = Absent /\ Blank.todo = Nothing /\ Blank.ret = "idle"
  BY DEF Blank
<1>000. /\ store' = store /\ ThreadsSound' => RInv'
        /\ store' = store /\ UNCHANGED <<pc, loc>> => RInv'
  BY DEF RInv, ThreadsSound, StoreSound
<1>1. ASSUME NEW r \in PRs, Opened(r) PROVE RInv'
  <2> DEFINE lv == [Blank EXCEPT !.ev = "opened", !.pr = r, !.sha = head'[r]]
  <2>1. lv.p = Absent /\ lv.todo = Nothing /\ lv.ret = "idle"
    BY DEF Blank
  <2>2. Deliver(lv, "opened") /\ store' = store
    BY <1>1 DEF Opened
  <2> HIDE DEF lv
  <2> QED
    BY <1>0, <1>000, <2>1, <2>2, StartSound DEF Deliver
<1>2. ASSUME NEW r \in PRs, Updated(r) PROVE RInv'
  <2>1. PICK c \in Commits :
          Deliver([Blank EXCEPT !.ev = "opened", !.pr = r, !.sha = c], "opened")
    BY <1>2 DEF Updated
  <2> DEFINE lv == [Blank EXCEPT !.ev = "opened", !.pr = r, !.sha = c]
  <2>2. lv.p = Absent /\ lv.todo = Nothing /\ lv.ret = "idle"
    BY DEF Blank
  <2>3. Deliver(lv, "opened") /\ store' = store
    BY <1>2, <2>1 DEF Updated
  <2> HIDE DEF lv
  <2> QED
    BY <1>0, <1>000, <2>2, <2>3, StartSound DEF Deliver
<1>3. ASSUME NEW r \in PRs, Closed(r) PROVE RInv'
  <2> DEFINE lv == [Blank EXCEPT !.ev = "closed", !.pr = r]
  <2>1. lv.p = Absent /\ lv.todo = Nothing /\ lv.ret = "idle"
    BY DEF Blank
  <2>2. Deliver(lv, "closing") /\ store' = store
    BY <1>3 DEF Closed
  <2> HIDE DEF lv
  <2> QED
    BY <1>0, <1>000, <2>1, <2>2, StartSound DEF Deliver
<1>4. ASSUME NEW r \in PRs, Commented(r) PROVE RInv'
  <2>1. PICK cmd \in Commands, S \in {Apps} \cup {{a} : a \in Apps} :
          Start([Blank EXCEPT !.ev = cmd, !.pr = r, !.apps = S],
                CASE cmd = "destroy" -> "list" [] cmd = "wake" -> "wakeList"
                  [] cmd = "redeploy" -> "redeploy")
    BY <1>4 DEF Commented
  <2> DEFINE lv == [Blank EXCEPT !.ev = cmd, !.pr = r, !.apps = S]
  <2>2. lv.p = Absent /\ lv.todo = Nothing /\ lv.ret = "idle"
    BY DEF Blank
  <2>3. cmd \in {"destroy", "redeploy"} /\ "wake" # cmd
    BY BusyAssumption
  <2>4. \E l \in {"list", "redeploy"} : Start(lv, l)
    <3>1. CASE cmd = "destroy"
      BY <2>1, <3>1
    <3>2. CASE cmd = "redeploy"
      BY <2>1, <3>2
    <3> QED
      BY <2>3, <3>1, <3>2
  <2> HIDE DEF lv
  <2>5. store' = store
    BY <1>4 DEF Commented
  <2> QED
    BY <1>0, <1>000, <2>2, <2>4, <2>5, StartSound
<1>5. ASSUME NEW r \in PRs, ForgetPR(r) PROVE RInv'
  BY <1>000, <1>5 DEF ForgetPR
<1>6. ASSUME NEW k \in Keys, Requested(k) PROVE RInv'
  <2> DEFINE lv == [Blank EXCEPT !.ev = "request", !.pr = k[1], !.app = k[2]]
  <2>1. lv.p = Absent /\ lv.todo = Nothing /\ lv.ret = "idle"
    BY DEF Blank
  <2>2. Start(lv, "resolve") /\ store' = store
    BY <1>6 DEF Requested
  <2> HIDE DEF lv
  <2> QED
    BY <1>0, <1>000, <2>1, <2>2, StartSound
<1>7. ASSUME NEW k \in Keys, Prune(k) \/ AppExits(k) PROVE RInv'
  BY <1>000, <1>7 DEF Prune, AppExits
<1>8. ASSUME NEW k \in Keys, CliDestroy(k) PROVE RInv'
  <2>1. ThreadsSound'
    BY <1>8, RebootSound DEF CliDestroy
  <2>2. store' = store \/ Put(k, Absent)
    BY <1>8 DEF CliDestroy
  <2>3. StoreSound'
    BY <2>2, AbsentRecreatable DEF Put, RInv, StoreSound
  <2> QED
    BY <2>1, <2>3 DEF RInv, ThreadsSound
<1>9. CASE Restart
  BY <1>000, <1>9, RebootSound DEF Restart
<1>10. CASE Outage \/ Recovery
  BY <1>000, <1>10 DEF Outage, Recovery
<1> QED
  BY <1>1, <1>2, <1>3, <1>4, <1>5, <1>6, <1>7, <1>8, <1>9, <1>10, Zenon
     DEF Environment

-----------------------------------------------------------------------------
(* The theorem.                                                            *)

LEMMA InitSound == Init => RInv
<1> SUFFICES ASSUME Init PROVE RInv
  OBVIOUS
<1>1. FirstCid # 0
  BY FirstType, IdsAssumption
<1>2. Named(DeployedPreview)
  BY <1>1 DEF DeployedPreview
<1>3. StoreSound
  BY <1>2, AbsentRecreatable DEF Init, If, StoreSound, Recreatable
<1>4. \A s \in Procs : SoundAt(pc[s], loc[s])
  BY BlankSound DEF Init
<1> QED
  BY <1>3, <1>4 DEF RInv

LEMMA NextSound ==
  ASSUME TypeOK, RInv, "wake" \notin Commands, [Next]_vars
  PROVE  RInv'
<1>1. CASE Environment
  BY <1>1, EnvironmentSound
<1>2. CASE \E elapsed \in BOOLEAN : Tick(elapsed)
  BY <1>2, TickListSound DEF Tick
<1>3. CASE LoopStep
  BY <1>3, LoopSound
<1>4. CASE \E g \in Goroutines : GoroutineStep(g)
  BY <1>4, DeploySound, HandlerSound DEF GoroutineStep, Procs
<1>5. CASE UNCHANGED vars
  BY <1>5 DEF vars, RInv, StoreSound
<1> QED
  BY <1>1, <1>2, <1>3, <1>4, <1>5 DEF Next

\* Unless a reviewer uses `/preview wake`, which wakes a preview that failed and
\* was never built, every running or sleeping record names a container and an
\* image, however touch, wake, sleep, heal and deploy write over each other and
\* wherever the daemon dies: healMissing's "lacks recreate metadata" is for the
\* records of older versions only.
THEOREM RoutableHeld ==
  ASSUME "wake" \notin Commands
  PROVE  Spec => []RoutableIsRecreatable
<1>1. Init => RInv
  BY InitSound
<1>2. TypeOK /\ RInv /\ [Next]_vars => RInv'
  BY NextSound
<1>3. TypeOK /\ RInv => RoutableIsRecreatable
  BY DEF RInv, StoreSound, Recreatable, RoutableIsRecreatable
<1> QED
  BY <1>1, <1>2, <1>3, TypeCorrect, PTL DEF Spec

-----------------------------------------------------------------------------
(* The limit on previews, however many goroutines there are.               *)

\* A goroutine is let through by checkCapacity.
Admits(s) == pc[s] = "capacity" /\ pc'[s] = "put" /\ ~AtCapacity

\* Nobody gets to a Put of a record whose slot was not taken.
NoNewcomer == \A s \in Procs : pc'[s] = "put" => Key(s)' \in SlotsTaken

\* What a step does to the slots: it takes none, or one, and that for a cause.
TakesOne ==
  \/ SlotsTaken' \subseteq SlotsTaken
  \/ \E s \in Procs : /\ SlotsTaken' \subseteq SlotsTaken \cup {Key(s)}
                      /\ PutsBack(s) \/ Admits(s)

LEMMA SlotsBound ==
  ASSUME NoNewcomer, NEW X, Live' \subseteq SlotsTaken \cup X
  PROVE  SlotsTaken' \subseteq SlotsTaken \cup X
<1>1. Admitted' \subseteq SlotsTaken
  BY DEF NoNewcomer, Admitted
<1> QED
  BY <1>1 DEF SlotsTaken

LEMMA TakesNone ==
  ASSUME NoNewcomer, Live' \subseteq SlotsTaken
  PROVE  TakesOne
BY SlotsBound DEF TakesOne

\* One goroutine moves, and not to its first Put.
LEMMA NoneCame ==
  ASSUME TypeOK, NEW self \in Procs, Only(self), pc'[self] # "put"
  PROVE  NoNewcomer
BY DEF Only, NoNewcomer, SlotsTaken, Admitted, Key

\* Nothing is written.
LEMMA UnwrittenTakes ==
  ASSUME TypeOK, NEW self \in Procs, Only(self), pc'[self] # "put", store' = store
  PROVE  TakesOne
BY NoneCame, TakesNone DEF Live, SlotsTaken

LEMMA JumpTakes ==
  ASSUME TypeOK, NEW self \in Procs, NEW l, l # "put", Jump(self, l),
         store' = store,
         \/ loc' = loc
         \/ \E lv : SetLoc(self, lv)
  PROVE  TakesOne
BY StayOnly, JumpOnly, UnwrittenTakes

LEMMA ReturnStirs ==
  ASSUME TypeOK, NEW self \in Procs, NEW l, l # "put", NEW lv,
         Return(self, lv, l) \/ PublishThen(self, lv, l) \/ Exit(self)
  PROVE  Only(self) /\ pc'[self] # "put"
<1>1. Only(self) /\ pc'[self] \in {"idle", "publish", l}
  BY ReturnOnly, PublishThenOnly, JumpOnly DEF Exit
<1> QED
  BY <1>1

LEMMA ReturnTakes ==
  ASSUME TypeOK, NEW self \in Procs, NEW l, l # "put", NEW lv, store' = store,
         Return(self, lv, l) \/ PublishThen(self, lv, l) \/ Exit(self)
  PROVE  TakesOne
<1>1. Only(self) /\ pc'[self] # "put"
  BY ReturnStirs
<1> QED
  BY <1>1, UnwrittenTakes

\* A record is written: by the Put checkCapacity allowed, over one that is there,
\* or in the place of one that was deleted.
LEMMA WriteTakes ==
  ASSUME TypeOK, NEW self \in Procs, pc[self] \in CopyWriters \cup {"put"},
         NEW p, Put(Key(self), p), NoNewcomer
  PROVE  TakesOne
<1>1. Key(self) \in Keys
  BY KeyType
<1>2. Live' \subseteq Live \cup {Key(self)}
  BY DEF Put, Live
<1>3. CASE pc[self] = "put" \/ store[Key(self)] # Absent
  BY <1>1, <1>2, <1>3, TakesNone DEF SlotsTaken, Admitted, Live
<1>4. CASE pc[self] \in CopyWriters /\ store[Key(self)] = Absent
  <2>1. CASE store'[Key(self)] = Absent
    <3>1. Live' \subseteq Live
      BY <1>1, <1>2, <2>1 DEF Live
    <3> QED
      BY <3>1, TakesNone DEF SlotsTaken
  <2>2. CASE store'[Key(self)] # Absent
    BY <1>2, <1>4, <2>2, SlotsBound DEF TakesOne, PutsBack, SlotsTaken
  <2> QED
    BY <2>1, <2>2
<1> QED
  BY <1>3, <1>4

LEMMA WriteThenTakes ==
  ASSUME TypeOK, NEW self \in Procs, pc[self] \in CopyWriters \cup {"put"},
         NEW p, Put(Key(self), p), NEW l, l # "put", NEW lv,
         Return(self, lv, l) \/ PublishThen(self, lv, l) \/ Exit(self)
  PROVE  TakesOne
<1>1. Only(self) /\ pc'[self] # "put"
  BY ReturnStirs
<1> QED
  BY <1>1, NoneCame, WriteTakes

LEMMA DeleteFrees ==
  ASSUME NEW k, Put(k, Absent)
  PROVE  Live' \subseteq Live
BY DEF Put, Live

LEMMA NextAppTakes ==
  ASSUME TypeOK, NEW self \in Procs, NextApp(self)
  PROVE  TakesOne
<1>1. PICK a \in loc[self].apps :
      LET existing == store[<<loc[self].pr, a>>] IN
       /\ SetLoc(self, [loc[self] EXCEPT
                          !.app = a, !.apps = @ \ {a},
                          !.p = [existing EXCEPT !.status = "building"]])
       /\ Jump(self, IF existing = Absent THEN "capacity" ELSE "put")
  BY DEF NextApp
<1> DEFINE k == <<loc[self].pr, a>>
           lv == [loc[self] EXCEPT !.app = a, !.apps = @ \ {a},
                            !.p = [store[k] EXCEPT !.status = "building"]]
<1>2. lv.pr = loc[self].pr /\ lv.app = a /\ k \in Keys
  BY LocalType DEF Locals, Keys
<1>3. SetLoc(self, lv) /\ store' = store
  BY <1>1 DEF NextApp
<1> HIDE DEF lv
<1>4. /\ Only(self) /\ loc'[self] = lv
      /\ pc'[self] = IF store[k] = Absent THEN "capacity" ELSE "put"
  BY <1>1, <1>3, JumpOnly
<1>5. pc'[self] = "put" => Key(self)' \in Live
  BY <1>2, <1>4 DEF Key, Live
<1>6. NoNewcomer
  BY <1>4, <1>5 DEF Only, NoNewcomer, SlotsTaken, Admitted, Key
<1> QED
  BY <1>3, <1>6, TakesNone DEF Live, SlotsTaken

LEMMA CheckCapacityTakes ==
  ASSUME TypeOK, NEW self \in Procs, CheckCapacity(self)
  PROVE  TakesOne
<1>1. /\ pc[self] = "capacity" /\ store' = store
      /\ Return(self, loc[self], IF AtCapacity THEN "deploy" ELSE "put")
  BY DEF CheckCapacity
<1>2. CASE AtCapacity
  BY <1>1, <1>2, ReturnTakes
<1>3. CASE ~AtCapacity
  <2>1. /\ Only(self)
        /\ pc'[self] = "put" => loc'[self] = loc[self]
    BY <1>1, <1>3, ReturnOnly DEF LoopHeads
  <2>2. CASE pc'[self] # "put"
    BY <1>1, <2>1, <2>2, UnwrittenTakes
  <2>3. CASE pc'[self] = "put"
    <3>1. Admits(self)
      BY <1>1, <1>3, <2>3 DEF Admits
    <3>2. Admitted' \subseteq Admitted \cup {Key(self)}
      BY <2>1, <2>3 DEF Only, Admitted, Key
    <3> QED
      BY <1>1, <3>1, <3>2 DEF TakesOne, SlotsTaken, Live
  <2> QED
    BY <2>2, <2>3
<1> QED
  BY <1>2, <1>3

LEMMA DeployTakes ==
  ASSUME TypeOK, NEW self \in Procs, DeployStep(self)
  PROVE  TakesOne
<1>0. loc[self].ret # "put" /\ Key(self) \in Keys
  BY LocalType, KeyType DEF Returns, LoopHeads
<1>1. CASE NextApp(self) \/ CheckCapacity(self)
  BY <1>1, NextAppTakes, CheckCapacityTakes
<1>2. CASE Publish(self)
  <2>1. pc[self] = "publish" /\ pc[self] \in CopyWriters
    BY <1>2 DEF Publish, CopyWriters
  <2>2. \E lv : Return(self, lv, loc[self].ret)
    BY <1>2 DEF Publish, CreateDeployment, SetDeploymentStatus, PublishFails
  <2>3. store' = store \/ \E p : Put(Key(self), p)
    BY <1>2 DEF Publish, CreateDeployment, SetDeploymentStatus, PublishFails
  <2> QED
    BY <1>0, <2>1, <2>2, <2>3, ReturnTakes, WriteThenTakes
<1>3. CASE \/ Acquire(self) \/ Clean(self) \/ FetchSource(self)
           \/ BuildImage(self) \/ EnsureNetwork(self) \/ AwaitReady(self)
           \/ TearHost(self)
  <2>1. /\ loc' = loc /\ store' = store
        /\ \E m : Jump(self, m) /\ m # "put"
    BY <1>3 DEF Acquire, Clean, FetchSource, BuildImage, EnsureNetwork,
                LeaveBuild, AwaitReady, TearHost
  <2> QED
    BY <2>1, JumpTakes
<1>4. CASE Built(self) \/ RecordFailure(self)
  <2>1. /\ store' = store
        /\ \/ Jump(self, "network") /\ loc' = loc
           \/ \E l \in {"deploy", "failPut"} : Return(self, loc[self], l)
    BY <1>4 DEF Built, RecordFailure
  <2> QED
    BY <2>1, JumpTakes, ReturnTakes
<1>5. CASE Run(self) \/ IsReady(self)
  <2>1. /\ store' = store
        /\ \E m \in {"ready", "fail", "tearHost", "commit"} : Jump(self, m)
        /\ loc' = loc \/ \E lv : SetLoc(self, lv)
    BY <1>5 DEF Run, IsReady, DockerRunOk
  <2> QED
    BY <2>1, JumpTakes
<1>6. CASE PutBuilding(self) \/ Commit(self) \/ PutFailed(self)
  <2>1. /\ pc[self] \in CopyWriters \cup {"put"}
        /\ \E p : Put(Key(self), p)
    BY <1>6 DEF PutBuilding, Commit, PutFailed, CopyWriters
  <2>2. \E lv : \E l \in {"deploy", "acquire"} : PublishThen(self, lv, l)
    BY <1>6 DEF PutBuilding, Commit, PutFailed
  <2> QED
    BY <2>1, <2>2, WriteThenTakes
<1>7. CASE TearDelete(self)
  <2>1. Put(Key(self), Absent) /\ Return(self, loc[self], loc[self].ret)
    BY <1>7 DEF TearDelete
  <2>2. Live' \subseteq SlotsTaken
    BY <2>1, DeleteFrees DEF SlotsTaken
  <2>3. Only(self) /\ pc'[self] # "put"
    BY <1>0, <2>1, ReturnStirs
  <2> QED
    BY <2>2, <2>3, NoneCame, TakesNone
<1> QED
  BY <1>1, <1>2, <1>3, <1>4, <1>5, <1>6, <1>7 DEF DeployStep

LEMMA WakeTakes ==
  ASSUME TypeOK, NEW self \in Procs,
         Wake(self) \/ Recreate(self) \/ RunAgain(self) \/ Probe(self)
  PROVE  TakesOne
<1>1. store' = store /\ loc[self].ret # "put"
  BY LocalType DEF Wake, Recreate, RunAgain, Probe, Returns, LoopHeads
<1>2. \/ /\ \E m \in {"probe", "recreate", "rerun", "healPut", "wakePut",
                      "healFail"} : Jump(self, m)
         /\ loc' = loc \/ \E lv : SetLoc(self, lv)
      \/ Return(self, loc[self], loc[self].ret)
  BY DEF Wake, Recreate, RunAgain, Probe, RecreateFailed, WakeFailed, DockerRunOk
<1> QED
  BY <1>1, <1>2, JumpTakes, ReturnTakes

\* The waker goes on where it was called, the new goroutine publishes.
LEMMA WakePutTakes ==
  ASSUME TypeOK, NEW self \in Procs, WakePut(self)
  PROVE  TakesOne
<1>1. /\ pc[self] \in CopyWriters \cup {"put"} /\ loc[self].ret # "put"
      /\ \E p : Put(Key(self), p)
  BY LocalType DEF WakePut, CopyWriters, Returns, LoopHeads
<1>2. NoNewcomer
  <2>1. CASE Jump(self, loc[self].ret) /\ \E lv : SetLoc(self, lv)
    BY <1>1, <2>1, JumpOnly, NoneCame
  <2>2. CASE /\ Free # {}
             /\ pc' = [pc EXCEPT ![self] = loc[self].ret,
                                 ![NewGoroutine] = "publish"]
             /\ \E lv, new : loc' = [loc EXCEPT ![self] = lv,
                                                ![NewGoroutine] = new]
    <3>1. NewGoroutine \in Procs
      BY <2>2, NewGoroutineType DEF Procs
    <3>2. \A s \in Procs : pc'[s] = "put" =>
            s # self /\ s # NewGoroutine /\ pc[s] = "put" /\ loc'[s] = loc[s]
      BY <1>1, <2>2, <3>1
    <3> QED
      BY <3>2 DEF NoNewcomer, SlotsTaken, Admitted, Key
  <2> QED
    BY <2>1, <2>2 DEF WakePut
<1> QED
  BY <1>1, <1>2, WriteTakes

LEMMA HandlerTakes ==
  ASSUME TypeOK, NEW self \in Procs, HandlerStep(self)
  PROVE  TakesOne
<1>1. CASE \/ HandleClosed(self) \/ PreviewEnvironments(self)
           \/ ListForTeardown(self) \/ TearNext(self) \/ WakeList(self)
           \/ WakeNext(self)
  <2>1. /\ store' = store
        /\ loc' = loc \/ \E lv : SetLoc(self, lv)
        /\ \E m \in {"environments", "list", "tearNext", "tearHost",
                     "wakeNext", "wake"} : Jump(self, m)
    BY <1>1 DEF HandleClosed, PreviewEnvironments, ListForTeardown, TearNext,
                WakeList, WakeNext, Goto
  <2> QED
    BY <2>1, JumpTakes
<1>2. CASE \/ HandleOpened(self) \/ Redeploy(self) \/ TornDown(self)
  <2>1. /\ store' = store
        /\ Exit(self) \/ \E lv : Return(self, lv, "deploy")
    BY <1>2 DEF HandleOpened, Redeploy, TornDown
  <2> QED
    BY <2>1, ReturnTakes
<1>3. CASE WokenUp(self)
  <2>1. /\ store' = store
        /\ Exit(self) \/ (Jump(self, "redeploy") /\ loc' = loc)
    BY <1>3 DEF WokenUp
  <2> QED
    BY <2>1, ReturnTakes, JumpTakes
<1>4. CASE Wake(self) \/ Recreate(self) \/ RunAgain(self) \/ Probe(self)
  BY <1>4, WakeTakes
<1>5. CASE Resolve(self)
  <2>1. /\ store' = store
        /\ \/ Exit(self)
           \/ /\ \E m \in {"touch", "wake"} : Jump(self, m)
              /\ \E lv : SetLoc(self, lv)
    BY <1>5 DEF Resolve
  <2> QED
    BY <2>1, ReturnTakes, JumpTakes
<1>6. CASE Touch(self)
  <2>1. /\ pc[self] \in CopyWriters \cup {"put"} /\ Exit(self)
        /\ \E p : Put(Key(self), p)
    BY <1>6 DEF Touch, CopyWriters
  <2> QED
    BY <2>1, WriteThenTakes
<1>7. CASE WakePut(self)
  BY <1>7, WakePutTakes
<1> QED
  BY <1>1, <1>2, <1>3, <1>4, <1>5, <1>6, <1>7 DEF HandlerStep

LEMMA LoopTakes ==
  ASSUME TypeOK, LoopStep
  PROVE  TakesOne
<1> USE LoopInProcs
<1>1. CASE ListManaged \/ Scan
  <2>1. /\ store' = store
        /\ \E lv : SetLoc(Loop, lv)
        /\ \E m : Jump(Loop, m) /\ m # "put"
    BY <1>1, VerdictSteps DEF ListManaged, Scan, LoopDo, Goto
  <2> QED
    BY <2>1, JumpTakes
<1>2. CASE HealPut \/ HealFail \/ SleepPut
  <2>1. /\ pc[Loop] \in CopyWriters \cup {"put"}
        /\ \E p : Put(Key(Loop), p)
        /\ \E lv : PublishThen(Loop, lv, "scan")
    BY <1>2 DEF HealPut, HealFail, SleepPut, HealWrite, CopyWriters
  <2> QED
    BY <2>1, WriteThenTakes
<1>3. CASE Sleep
  <2>1. /\ store' = store
        /\ \/ Jump(Loop, "sleepPut") /\ loc' = loc
           \/ Return(Loop, loc[Loop], "scan")
    BY <1>3 DEF Sleep
  <2> QED
    BY <2>1, JumpTakes, ReturnTakes
<1>4. CASE Reap
  <2>1. UNCHANGED <<store, pc, loc>>
    BY <1>4 DEF Reap
  <2> QED
    BY <2>1, TakesNone DEF NoNewcomer, SlotsTaken, Admitted, Live, Key
<1>5. CASE ReapDirs
  BY <1>5, ReturnTakes DEF ReapDirs
<1>6. CASE Publish(Loop) \/ TearHost(Loop) \/ TearDelete(Loop)
  BY <1>6, DeployTakes DEF DeployStep
<1>7. CASE Recreate(Loop) \/ RunAgain(Loop)
  BY <1>7, WakeTakes
<1> QED
  BY <1>1, <1>2, <1>3, <1>4, <1>5, <1>6, <1>7 DEF LoopStep

LEMMA TickTakes ==
  ASSUME TypeOK, NEW elapsed \in BOOLEAN, TickList(elapsed)
  PROVE  TakesOne
<1> DEFINE now(p) == IF elapsed THEN Older(p) ELSE p
           aged(s) == [loc[s] EXCEPT !.p = now(@),
                                     !.todo = [k \in Keys |-> now(@[k])]]
<1>1. now(Absent) = Absent
  BY DEF Older, Absent
<1>2. \A k \in Keys : store'[k] = now(store[k])
  BY DEF TickList
<1>3. \A s \in Procs : s # Loop => pc'[s] = pc[s] /\ loc'[s] = aged(s)
  BY DEF TickList, LoopDo, Goto, Jump
<1>4. pc'[Loop] = "ps"
  BY LoopInProcs DEF TickList, LoopDo, Goto, Jump
<1>5. \A s \in Procs : aged(s).pr = loc[s].pr /\ aged(s).app = loc[s].app
  BY LocalType DEF Locals
<1> HIDE DEF now, aged
<1>6. Live' \subseteq Live
  BY <1>1, <1>2 DEF Live
<1>7. NoNewcomer
  BY <1>3, <1>4, <1>5 DEF NoNewcomer, SlotsTaken, Admitted, Key
<1> QED
  BY <1>6, <1>7, TakesNone DEF SlotsTaken

LEMMA StartTakes ==
  ASSUME TypeOK, NEW l, l # "put", NEW lv, Start(lv, l), store' = store
  PROVE  TakesOne
<1>1. NewGoroutine \in Procs
  BY NewGoroutineType DEF Start, Procs
<1> QED
  BY <1>1, JumpTakes DEF Start

LEMMA RebootTakes ==
  ASSUME TypeOK, Reboot, store' = store \/ \E k : Put(k, Absent)
  PROVE  TakesOne
<1>1. NoNewcomer
  BY DEF Reboot, NoNewcomer
<1>2. Live' \subseteq SlotsTaken
  BY DeleteFrees DEF Live, SlotsTaken
<1> QED
  BY <1>1, <1>2, TakesNone

LEMMA EnvironmentTakes ==
  ASSUME TypeOK, Environment
  PROVE  TakesOne
<1>1. ASSUME UNCHANGED <<store, pc, loc>> PROVE TakesOne
  BY <1>1, TakesNone DEF NoNewcomer, SlotsTaken, Admitted, Live, Key
<1>2. ASSUME NEW r \in PRs, Opened(r) \/ Updated(r) \/ Closed(r) PROVE TakesOne
  <2>1. /\ store' = store
        /\ \/ \E lv : \E l \in {"opened", "closing"} : Start(lv, l)
           \/ UNCHANGED <<pc, loc>>
    BY <1>2 DEF Opened, Updated, Closed, Deliver
  <2> QED
    BY <1>1, <2>1, StartTakes
<1>3. ASSUME NEW r \in PRs, Commented(r) PROVE TakesOne
  <2>1. PICK cmd \in Commands, S \in {Apps} \cup {{a} : a \in Apps} :
          Start([Blank EXCEPT !.ev = cmd, !.pr = r, !.apps = S],
                CASE cmd = "destroy" -> "list" [] cmd = "wake" -> "wakeList"
                  [] cmd = "redeploy" -> "redeploy")
    BY <1>3 DEF Commented
  <2>2. (CASE cmd = "destroy" -> "list" [] cmd = "wake" -> "wakeList"
           [] cmd = "redeploy" -> "redeploy") # "put"
    BY BusyAssumption
  <2>3. store' = store
    BY <1>3 DEF Commented
  <2> QED
    BY <2>1, <2>2, <2>3, StartTakes
<1>4. ASSUME NEW k \in Keys, Requested(k) PROVE TakesOne
  BY <1>4, StartTakes DEF Requested
<1>5. ASSUME NEW k \in Keys, CliDestroy(k) PROVE TakesOne
  <2>1. Reboot /\ (store' = store \/ Put(k, Absent))
    BY <1>5 DEF CliDestroy
  <2> QED
    BY <2>1, RebootTakes
<1>6. CASE Restart
  BY <1>6, RebootTakes DEF Restart
<1>7. ASSUME NEW r \in PRs, ForgetPR(r) PROVE TakesOne
  BY <1>1, <1>7 DEF ForgetPR
<1>8. ASSUME NEW k \in Keys, Prune(k) \/ AppExits(k) PROVE TakesOne
  BY <1>1, <1>8 DEF Prune, AppExits
<1>9. CASE Outage \/ Recovery
  BY <1>1, <1>9 DEF Outage, Recovery
<1> QED
  BY <1>2, <1>3, <1>4, <1>5, <1>6, <1>7, <1>8, <1>9, Zenon DEF Environment

LEMMA NextTakes ==
  ASSUME TypeOK, [Next]_vars
  PROVE  TakesOne
<1>1. CASE Environment
  BY <1>1, EnvironmentTakes
<1>2. CASE \E elapsed \in BOOLEAN : Tick(elapsed)
  BY <1>2, TickTakes DEF Tick
<1>3. CASE LoopStep
  BY <1>3, LoopTakes
<1>4. CASE \E g \in Goroutines : GoroutineStep(g)
  BY <1>4, DeployTakes, HandlerTakes DEF GoroutineStep, Procs
<1>5. CASE UNCHANGED vars
  BY <1>5, TakesNone DEF vars, NoNewcomer, SlotsTaken, Admitted, Live, Key
<1> QED
  BY <1>1, <1>2, <1>3, <1>4, <1>5 DEF Next

LEMMA OneMore ==
  ASSUME NEW S, IsFiniteSet(S), NEW x
  PROVE  /\ IsFiniteSet(S \cup {x})
         /\ Cardinality(S \cup {x}) <= Cardinality(S) + 1
<1>1. Cardinality(S) \in Nat
  BY FS_CardinalityType
<1>2. /\ IsFiniteSet(S \cup {x})
      /\ \/ Cardinality(S \cup {x}) = Cardinality(S)
         \/ Cardinality(S \cup {x}) = Cardinality(S) + 1
  BY FS_AddElement, Zenon
<1> QED
  BY <1>1, <1>2

\* A step keeps the slots finite, and below what they were or the limit, or it
\* has one of the two causes.
LEMMA TakesForCause ==
  ASSUME IsFiniteSet(SlotsTaken), TakesOne
  PROVE  /\ IsFiniteSet(SlotsTaken')
         /\ \/ Cardinality(SlotsTaken') <= Cardinality(SlotsTaken)
            \/ Cardinality(SlotsTaken') <= MaxPreviews
            \/ \E s \in Procs : AdmittedTogether(s) \/ PutsBack(s)
<1>1. CASE SlotsTaken' \subseteq SlotsTaken
  BY <1>1, FS_Subset
<1>2. ASSUME NEW s \in Procs, SlotsTaken' \subseteq SlotsTaken \cup {Key(s)},
             PutsBack(s) \/ Admits(s)
      PROVE  /\ IsFiniteSet(SlotsTaken')
             /\ \/ Cardinality(SlotsTaken') <= MaxPreviews
                \/ AdmittedTogether(s) \/ PutsBack(s)
  <2>1. /\ IsFiniteSet(SlotsTaken \cup {Key(s)})
        /\ Cardinality(SlotsTaken \cup {Key(s)}) <= Cardinality(SlotsTaken) + 1
    BY OneMore
  <2>2. /\ IsFiniteSet(SlotsTaken')
        /\ Cardinality(SlotsTaken') <= Cardinality(SlotsTaken \cup {Key(s)})
    BY <1>2, <2>1, FS_Subset
  <2>3. CASE PutsBack(s)
    BY <2>2, <2>3
  <2>4. CASE Admits(s) /\ Admitted \ Live # {}
    BY <2>2, <2>4 DEF Admits, AdmittedTogether
  <2>5. CASE Admits(s) /\ Admitted \ Live = {}
    <3>1. SlotsTaken = Live
      BY <2>5 DEF SlotsTaken
    <3>2. ~(Cardinality(SlotsTaken) >= MaxPreviews)
      BY <2>5, <3>1 DEF Admits, AtCapacity
    <3>3. /\ Cardinality(SlotsTaken) \in Nat /\ Cardinality(SlotsTaken') \in Nat
          /\ Cardinality(SlotsTaken \cup {Key(s)}) \in Nat /\ MaxPreviews \in Nat
      BY <2>1, <2>2, FS_CardinalityType, PartsAssumption
    <3> QED
      BY <2>1, <2>2, <3>2, <3>3
  <2> QED
    BY <1>2, <2>3, <2>4, <2>5
<1> QED
  BY <1>1, <1>2 DEF TakesOne

LEMMA InitSlots ==
  ASSUME IsFiniteSet(Deployed)
  PROVE  Init => SlotsTaken = Deployed
<1> SUFFICES ASSUME Init PROVE SlotsTaken = Deployed
  OBVIOUS
<1>1. \A k \in Keys : k \in Deployed <=> store[k] # Absent
  BY DEF Init, If, DeployedPreview, Absent
<1>2. Admitted = {}
  BY DEF Init, Admitted
<1> QED
  BY <1>1, <1>2, PartsAssumption DEF Live, SlotsTaken

LEMMA SlotsFinite ==
  ASSUME IsFiniteSet(Deployed)
  PROVE  Spec => []IsFiniteSet(SlotsTaken)
<1>1. Init => IsFiniteSet(SlotsTaken)
  BY InitSlots
<1>2. TypeOK /\ IsFiniteSet(SlotsTaken) /\ [Next]_vars => IsFiniteSet(SlotsTaken)'
  BY NextTakes, TakesForCause
<1> QED
  BY <1>1, <1>2, TypeCorrect, PTL DEF Spec

LEMMA LimitStep ==
  ASSUME TypeOK, IsFiniteSet(SlotsTaken), [Next]_vars
  PROVE  /\ Cardinality(SlotsTaken') > Cardinality(SlotsTaken)
         /\ Cardinality(SlotsTaken') > MaxPreviews
         => \E s \in Procs : AdmittedTogether(s) \/ PutsBack(s)
<1>1. /\ IsFiniteSet(SlotsTaken')
      /\ \/ Cardinality(SlotsTaken') <= Cardinality(SlotsTaken)
         \/ Cardinality(SlotsTaken') <= MaxPreviews
         \/ \E s \in Procs : AdmittedTogether(s) \/ PutsBack(s)
  BY NextTakes, TakesForCause
<1>2. /\ Cardinality(SlotsTaken) \in Nat /\ Cardinality(SlotsTaken') \in Nat
      /\ MaxPreviews \in Nat
  BY <1>1, FS_CardinalityType, PartsAssumption
<1> QED
  BY <1>1, <1>2

\* For any number of goroutines: handlers, commands, requests, Ticks, deaths and
\* outages take a slot over the limit only in the two ways, two deploys admitted
\* together and a stale copy put back.
THEOREM OverLimitHasCauseHeld ==
  ASSUME IsFiniteSet(Deployed)
  PROVE  Spec => OverLimitHasCause
<1>1. TypeOK /\ IsFiniteSet(SlotsTaken) /\ [Next]_vars =>
        [/\ Cardinality(SlotsTaken') > Cardinality(SlotsTaken)
         /\ Cardinality(SlotsTaken') > MaxPreviews
         => \E s \in Procs : AdmittedTogether(s) \/ PutsBack(s)]_vars
  BY LimitStep
<1> QED
  BY <1>1, TypeCorrect, SlotsFinite, PTL DEF Spec, OverLimitHasCause

\* Neither of the two happens.
Unraced == \A s \in Procs : ~AdmittedTogether(s) /\ ~PutsBack(s)

\* And where neither happens the daemon keeps Limits.MaxConcurrentPreviews, for
\* any number of goroutines, pull requests and apps, if it did when it started.
THEOREM CapacityHeld ==
  ASSUME IsFiniteSet(Deployed), Cardinality(Deployed) <= MaxPreviews
  PROVE  Spec /\ [][Unraced]_vars => []CapacityRespected
<1> DEFINE Room == Cardinality(SlotsTaken) <= MaxPreviews
<1>1. Init => Room
  BY InitSlots
<1>2. TypeOK /\ IsFiniteSet(SlotsTaken) /\ Room /\ [Next]_vars /\ [Unraced]_vars
        => Room'
  <2> SUFFICES ASSUME TypeOK, IsFiniteSet(SlotsTaken), Room, [Next]_vars,
                      [Unraced]_vars
               PROVE  Room'
    OBVIOUS
  <2>1. CASE UNCHANGED vars
    BY <2>1 DEF vars, SlotsTaken, Admitted, Live, Key
  <2>2. CASE Unraced
    <3>1. /\ IsFiniteSet(SlotsTaken')
          /\ \/ Cardinality(SlotsTaken') <= Cardinality(SlotsTaken)
             \/ Cardinality(SlotsTaken') <= MaxPreviews
             \/ \E s \in Procs : AdmittedTogether(s) \/ PutsBack(s)
      BY NextTakes, TakesForCause
    <3>2. /\ Cardinality(SlotsTaken) \in Nat /\ Cardinality(SlotsTaken') \in Nat
          /\ MaxPreviews \in Nat
      BY <3>1, FS_CardinalityType, PartsAssumption
    <3> QED
      BY <2>2, <3>1, <3>2 DEF Unraced
  <2> QED
    BY <2>1, <2>2
<1>3. IsFiniteSet(SlotsTaken) /\ Room => CapacityRespected
  <2> SUFFICES ASSUME IsFiniteSet(SlotsTaken), Room PROVE CapacityRespected
    OBVIOUS
  <2>1. Live \subseteq SlotsTaken
    BY DEF SlotsTaken
  <2>2. /\ IsFiniteSet(Live) /\ Cardinality(Live) <= Cardinality(SlotsTaken)
    BY <2>1, FS_Subset
  <2>3. /\ Cardinality(Live) \in Nat /\ Cardinality(SlotsTaken) \in Nat
        /\ MaxPreviews \in Nat
    BY <2>2, FS_CardinalityType, PartsAssumption
  <2> QED
    BY <2>2, <2>3 DEF CapacityRespected
<1> QED
  BY <1>1, <1>2, <1>3, TypeCorrect, SlotsFinite, PTL DEF Spec
=============================================================================
