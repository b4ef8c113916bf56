--------------------------- MODULE ReconcilerProofs --------------------------
(***************************************************************************)
(* Type correctness of Reconciler and the accounting of buildSem, proved   *)
(* together: sem stays a natural number because every goroutine that gives *)
(* a slot back is one that holds one.                                      *)
(***************************************************************************)
EXTENDS Reconciler, FiniteSetTheorems, TLAPS

-----------------------------------------------------------------------------
(* What the helpers return.                                                *)

LEMMA SomeKeyType == SomeKey \in Keys /\ SomeKey[1] \in PRs /\ SomeKey[2] \in Apps
<1>1. PICK r \in PRs, a \in Apps : TRUE
  BY PartsAssumption
<1>2. <<r, a>> \in Keys
  BY DEF Keys
<1>3. SomeKey \in Keys
  BY <1>2 DEF SomeKey
<1> QED
  BY <1>3 DEF Keys

LEMMA AbsentType == Absent \in Preview
BY WindowsAssumption DEF Absent, Preview, Status

LEMMA BlankType == Blank \in Locals
BY SomeKeyType, AbsentType DEF Blank, Locals, Nothing, Returns

LEMMA NoContainerType == NoContainer \in Container
BY DEF NoContainer, Container

LEMMA FreshCidType == ASSUME Cids \ CidsInUse # {} PROVE FreshCid \in Cids
BY DEF FreshCid

LEMMA FreshDepType == ASSUME Deps \ DepsInUse # {} PROVE FreshDep \in Deps
BY DEF FreshDep

LEMMA FirstType == FirstCid \in Cids /\ FirstDep \in Deps
BY PartsAssumption DEF FirstCid, FirstDep

LEMMA OlderType == \A p \in Preview : Older(p) \in Preview
BY WindowsAssumption DEF Older, Preview

\* Writes to the fields of a record and to the locals keep their types.
LEMMA PreviewFields ==
  ASSUME NEW p \in Preview
  PROVE  /\ \A s \in Status : [p EXCEPT !.status = s] \in Preview
         /\ \A c \in Cids \cup {0} : [p EXCEPT !.cid = c] \in Preview
         /\ \A c \in Commits \cup {0} : [p EXCEPT !.img = c] \in Preview
         /\ \A d \in Deps \cup {0} : [p EXCEPT !.dep = d] \in Preview
         /\ [p EXCEPT !.age = 0] \in Preview
BY WindowsAssumption DEF Preview

LEMMA LivePreview ==
  ASSUME NEW p \in Preview
  PROVE  [p EXCEPT !.status = "running", !.age = 0] \in Preview
<1>1. [p EXCEPT !.status = "running"] \in Preview
  BY PreviewFields DEF Status
<1>2. [[p EXCEPT !.status = "running"] EXCEPT !.age = 0] \in Preview
  BY <1>1, PreviewFields
<1> QED
  BY <1>2

LEMMA GoLiveType ==
  ASSUME NEW p \in Preview, NEW sha \in Commits \cup {0}
  PROVE  GoLive(p, sha) \in Preview
<1> DEFINE q == [p EXCEPT !.img = sha]
<1>1. q \in Preview
  BY PreviewFields
<1>2. [q EXCEPT !.status = "running", !.age = 0] \in Preview
  BY <1>1, LivePreview
<1>3. GoLive(p, sha) = [q EXCEPT !.status = "running", !.age = 0]
  BY DEF GoLive, Preview
<1> QED
  BY <1>2, <1>3

LEMMA LocalsP ==
  ASSUME NEW lv \in Locals, NEW p \in Preview
  PROVE  [lv EXCEPT !.p = p] \in Locals
BY DEF Locals

LEMMA LocalsRet ==
  ASSUME NEW lv \in Locals, NEW l \in Returns
  PROVE  [lv EXCEPT !.ret = l] \in Locals
BY DEF Locals

LEMMA LocalType ==
  ASSUME ThreadTypeOK, NEW self \in Procs
  PROVE  /\ loc[self] \in Locals /\ loc[self].p \in Preview
         /\ loc[self].sha \in Commits \cup {0}
         /\ loc[self].ret \in Returns
         /\ loc[self].todo \in [Keys -> Preview]
BY DEF ThreadTypeOK, Locals

LEMMA NewGoroutineType ==
  ASSUME Free # {}
  PROVE  NewGoroutine \in Goroutines /\ pc[NewGoroutine] = "idle"
BY DEF NewGoroutine, Free

LEMMA KeyType ==
  ASSUME ThreadTypeOK, NEW self \in Procs
  PROVE  Key(self) \in Keys
BY DEF ThreadTypeOK, Locals, Key, Keys

LEMMA LoopInProcs == Loop \in Procs
BY DEF Procs

LEMMA RemoveType ==
  ASSUME ctr \in [Keys -> Container], NEW k \in Keys, NEW id, Remove(k, id)
  PROVE  ctr' \in [Keys -> Container]
BY NoContainerType DEF Remove

LEMMA PutType ==
  ASSUME store \in [Keys -> Preview], NEW k \in Keys, NEW p \in Preview, Put(k, p)
  PROVE  store' \in [Keys -> Preview]
BY DEF Put

LEMMA JumpType ==
  ASSUME pc \in [Procs -> PCs], NEW self \in Procs, NEW l \in PCs, Jump(self, l)
  PROVE  pc' \in [Procs -> PCs]
BY DEF Jump

LEMMA SetLocType ==
  ASSUME loc \in [Procs -> Locals], NEW self \in Procs, NEW lv \in Locals,
         SetLoc(self, lv)
  PROVE  loc' \in [Procs -> Locals]
BY DEF SetLoc

LEMMA ReturnType ==
  ASSUME ThreadTypeOK, NEW self \in Procs, NEW lv \in Locals, NEW l \in PCs,
         Return(self, lv, l)
  PROVE  ThreadTypeOK'
<1>1. "idle" \in PCs
  BY DEF PCs
<1>2. [lv EXCEPT !.p = Absent] \in Locals
  BY AbsentType DEF Locals
<1> QED
  BY <1>1, <1>2, BlankType, JumpType, SetLocType DEF Return, Exit, ThreadTypeOK

LEMMA PublishThenType ==
  ASSUME ThreadTypeOK, NEW self \in Procs, NEW lv \in Locals, NEW l \in Returns,
         PublishThen(self, lv, l)
  PROVE  ThreadTypeOK'
<1>1. l \in PCs /\ "publish" \in PCs
  BY DEF PCs, Returns, LoopHeads
<1>2. [lv EXCEPT !.ret = l] \in Locals
  BY DEF Locals
<1> QED
  BY <1>1, <1>2, ReturnType, JumpType, SetLocType DEF PublishThen, ThreadTypeOK

-----------------------------------------------------------------------------
(* buildSem.                                                               *)

Builders == {s \in Procs : pc[s] \in BuildPCs}

\* The invariant the two theorems share.
IInv == TypeOK /\ BuildSlots

LEMMA BuildersFinite == IsFiniteSet(Builders)
<1>1. IsFiniteSet(Procs)
  BY ThreadsAssumption, FS_AddElement DEF Procs
<1> QED
  BY <1>1, FS_Subset DEF Builders

\* A goroutine inside buildImage holds a slot.
LEMMA HoldsSlot ==
  ASSUME BuildSlots, NEW self \in Procs, pc[self] \in BuildPCs
  PROVE  sem \in Nat \ {0}
<1>1. self \in Builders
  BY DEF Builders
<1>2. Cardinality(Builders) \in Nat /\ Cardinality(Builders) # 0
  BY <1>1, BuildersFinite, FS_CardinalityType, FS_EmptySet
<1> QED
  BY <1>2 DEF BuildSlots, Builders

-----------------------------------------------------------------------------
(* Every action of a deploy or a teardown keeps the types.                 *)

USE DEF TypeOK, DaemonTypeOK, DockerTypeOK, GithubTypeOK, ThreadTypeOK,
        TickTypeOK, WorldTypeOK, daemonVars, dockerVars, githubVars, tickVars,
        worldVars

LEMMA NextAppType ==
  ASSUME TypeOK, NEW self \in Procs, NextApp(self)
  PROVE  TypeOK'
<1> PICK a \in loc[self].apps :
      LET existing == store[<<loc[self].pr, a>>] IN
       /\ SetLoc(self, [loc[self] EXCEPT
                          !.app = a, !.apps = @ \ {a},
                          !.p = [existing EXCEPT !.status = "building"]])
       /\ Jump(self, IF existing = Absent THEN "capacity" ELSE "put")
  BY DEF NextApp
<1> DEFINE existing == store[<<loc[self].pr, a>>]
<1>1. existing \in Preview
  BY DEF Keys, Locals
<1>2. [existing EXCEPT !.status = "building"] \in Preview
  BY <1>1 DEF Preview, Status
<1>3. [loc[self] EXCEPT !.app = a, !.apps = @ \ {a},
                        !.p = [existing EXCEPT !.status = "building"]] \in Locals
  <2>1. loc[self] \in Locals /\ a \in Apps
    BY DEF Locals
  <2> QED
    BY <1>2, <2>1 DEF Locals
<1>4. ThreadTypeOK'
  BY <1>3, JumpType, SetLocType DEF PCs
<1> QED
  BY <1>4 DEF NextApp

LEMMA CheckCapacityType ==
  ASSUME TypeOK, NEW self \in Procs, CheckCapacity(self)
  PROVE  TypeOK'
<1>1. ThreadTypeOK'
  BY ReturnType DEF CheckCapacity, PCs
<1> QED
  BY <1>1 DEF CheckCapacity

LEMMA PutBuildingType ==
  ASSUME TypeOK, NEW self \in Procs, PutBuilding(self)
  PROVE  TypeOK'
<1>1. loc[self].p \in Preview
  BY DEF Locals
<1>2. store' \in [Keys -> Preview]
  BY <1>1, KeyType, PutType DEF PutBuilding
<1>3. ThreadTypeOK'
  BY PublishThenType DEF PutBuilding, Returns
<1> QED
  BY <1>2, <1>3 DEF PutBuilding

LEMMA PublishType ==
  ASSUME TypeOK, NEW self \in Procs, Publish(self)
  PROVE  TypeOK'
<1> DEFINE k == Key(self)
<1>1. k \in Keys /\ loc[self] \in Locals /\ loc[self].ret \in PCs
  BY KeyType DEF Locals, Returns, LoopHeads, PCs
<1>2. CASE CreateDeployment(self, k)
  <2> DEFINE p == [loc[self].p EXCEPT !.dep = FreshDep]
  <2>1. FreshDep \in Deps
    BY <1>2, FreshDepType DEF CreateDeployment
  <2>2. p \in Preview /\ p.dep \in Deps
    BY <1>1, <2>1 DEF Locals, Preview
  <2>3. [loc[self] EXCEPT !.p = p] \in Locals
    BY <1>1, <2>2 DEF Locals
  <2>4. ThreadTypeOK'
    BY <1>1, <1>2, <2>3, ReturnType DEF CreateDeployment
  <2>5. store' \in [Keys -> Preview]
    BY <1>1, <1>2, <2>2, PutType DEF CreateDeployment
  <2>6. envs' \subseteq Keys /\ green' \in [Keys -> SUBSET Deps]
    BY <1>1, <1>2, <2>2 DEF CreateDeployment
  <2> QED
    BY <2>4, <2>5, <2>6 DEF Publish
<1>3. CASE SetDeploymentStatus(self, k)
  <2>1. loc[self].p.dep \in Deps
    BY <1>1, <1>3 DEF SetDeploymentStatus, Locals, Preview
  <2>2. green' \in [Keys -> SUBSET Deps]
    BY <1>1, <1>3, <2>1 DEF SetDeploymentStatus
  <2>3. ThreadTypeOK'
    BY <1>1, <1>3, ReturnType DEF SetDeploymentStatus
  <2> QED
    BY <1>3, <2>2, <2>3 DEF Publish, SetDeploymentStatus
<1>4. CASE PublishFails(self)
  <2>1. ThreadTypeOK'
    BY <1>1, <1>4, ReturnType DEF PublishFails
  <2> QED
    BY <1>4, <2>1 DEF Publish, PublishFails
<1> QED
  BY <1>2, <1>3, <1>4 DEF Publish

LEMMA AcquireType ==
  ASSUME TypeOK, NEW self \in Procs, Acquire(self)
  PROVE  TypeOK'
<1>1. ThreadTypeOK'
  BY JumpType DEF Acquire, PCs
<1> QED
  BY <1>1 DEF Acquire

LEMMA LeaveBuildType ==
  ASSUME IInv, NEW self \in Procs, pc[self] \in BuildPCs, NEW l \in PCs,
         LeaveBuild(self, l)
  PROVE  sem' \in Nat /\ pc' \in [Procs -> PCs]
BY HoldsSlot, JumpType DEF LeaveBuild, IInv

LEMMA CleanType ==
  ASSUME IInv, NEW self \in Procs, Clean(self)
  PROVE  TypeOK'
<1>1. pc[self] \in BuildPCs /\ {"fetchSource", "fail"} \subseteq PCs
  BY DEF Clean, BuildPCs, PCs
<1>2. sem' \in Nat /\ pc' \in [Procs -> PCs]
  BY <1>1, LeaveBuildType, JumpType DEF Clean, IInv
<1>3. dir' \in [Keys -> Commits \cup {NoDir, EmptyDir}]
  BY KeyType DEF Clean, IInv
<1> QED
  BY <1>2, <1>3 DEF Clean, IInv

LEMMA FetchSourceType ==
  ASSUME IInv, NEW self \in Procs, FetchSource(self)
  PROVE  TypeOK'
<1>1. pc[self] \in BuildPCs /\ {"build", "fail"} \subseteq PCs
  BY DEF FetchSource, BuildPCs, PCs
<1>2. sem' \in Nat /\ pc' \in [Procs -> PCs]
  BY <1>1, LeaveBuildType, JumpType DEF FetchSource, IInv
<1>3. dir' \in [Keys -> Commits \cup {NoDir, EmptyDir}]
  BY KeyType DEF FetchSource, IInv, Locals, EmptyDir
<1> QED
  BY <1>2, <1>3 DEF FetchSource, IInv

LEMMA BuildImageType ==
  ASSUME IInv, NEW self \in Procs, BuildImage(self)
  PROVE  TypeOK'
<1>1. pc[self] \in BuildPCs /\ {"built", "fail"} \subseteq PCs
  BY DEF BuildImage, BuildPCs, PCs
<1>2. sem' \in Nat /\ pc' \in [Procs -> PCs]
  BY <1>1, LeaveBuildType DEF BuildImage, IInv
<1>3. image' \in [Keys -> [Commits -> Commits \cup {0}]]
  <2> DEFINE k == Key(self)
  <2>1. k \in Keys
    BY KeyType DEF IInv
  <2>2. image[k] \in [Commits -> Commits \cup {0}]
    BY <2>1 DEF IInv
  <2>3. CASE /\ dir[k] \in Commits
             /\ image' = [image EXCEPT ![k][loc[self].sha] = dir[k]]
    <3>1. [image[k] EXCEPT ![loc[self].sha] = dir[k]]
            \in [Commits -> Commits \cup {0}]
      BY <2>2, <2>3
    <3> QED
      BY <2>3, <3>1 DEF IInv
  <2> QED
    BY <2>3 DEF BuildImage, IInv
<1> QED
  BY <1>2, <1>3 DEF BuildImage, IInv

\* Removing a commit's image of a preview, or failing to.
LEMMA RemoveImageType ==
  ASSUME TypeOK, NEW k \in Keys, NEW c, RemoveImage(k, c)
  PROVE  image' \in [Keys -> [Commits -> Commits \cup {0}]]
<1>1. [image[k] EXCEPT ![c] = 0] \in [Commits -> Commits \cup {0}]
  OBVIOUS
<1>2. [image EXCEPT ![k][c] = 0] \in [Keys -> [Commits -> Commits \cup {0}]]
  BY <1>1
<1> QED
  BY <1>2 DEF RemoveImage

LEMMA BuiltType ==
  ASSUME TypeOK, NEW self \in Procs, Built(self)
  PROVE  TypeOK'
<1>1. {"network", "deploy"} \subseteq PCs
  BY DEF PCs
<1>2. image' \in [Keys -> [Commits -> Commits \cup {0}]]
  BY KeyType, RemoveImageType DEF Built
<1>3. ThreadTypeOK'
  BY <1>1, ReturnType, JumpType DEF Built
<1> QED
  BY <1>2, <1>3 DEF Built

LEMMA EnsureNetworkType ==
  ASSUME TypeOK, NEW self \in Procs, EnsureNetwork(self)
  PROVE  TypeOK'
<1>1. ctr' \in [Keys -> Container]
  BY KeyType, RemoveType DEF EnsureNetwork, RemoveOld
<1>2. nets' \subseteq Keys
  BY KeyType DEF EnsureNetwork
<1>3. ThreadTypeOK'
  BY JumpType DEF EnsureNetwork, PCs
<1> QED
  BY <1>1, <1>2, <1>3 DEF EnsureNetwork

LEMMA MadeType ==
  ASSUME TypeOK, NEW k \in Keys, NEW tag, CanRun(k, tag),
         Cids \ CidsInUse # {}, NEW up \in BOOLEAN
  PROVE  [ctr EXCEPT ![k] = Made(k, tag, up)] \in [Keys -> Container]
<1>1. image[k][tag] \in Commits \cup {0}
  BY DEF CanRun
<1>2. Made(k, tag, up) \in Container
  BY <1>1, FreshCidType DEF Made, Container
<1> QED
  BY <1>2

LEMMA DockerRunOkType ==
  ASSUME TypeOK, NEW self \in Procs, NEW k \in Keys, NEW tag,
         DockerRunOk(self, k, tag)
  PROVE  ctr' \in [Keys -> Container] /\ loc' \in [Procs -> Locals]
<1>1. ctr' \in [Keys -> Container]
  BY MadeType DEF DockerRunOk
<1>2. FreshCid \in Cids
  BY FreshCidType DEF DockerRunOk
<1>3. [loc[self] EXCEPT !.p.cid = FreshCid] \in Locals
  BY <1>2, LocalType, PreviewFields, LocalsP
<1> QED
  BY <1>1, <1>3, SetLocType DEF DockerRunOk

LEMMA DockerRunFailsType ==
  ASSUME TypeOK, NEW k \in Keys, NEW tag, DockerRunFails(k, tag)
  PROVE  ctr' \in [Keys -> Container]
<1>1. CASE ctr' = ctr
  BY <1>1
<1>2. CASE /\ CanRun(k, tag) /\ Cids \ CidsInUse # {}
           /\ ctr' = [ctr EXCEPT ![k] = Made(k, tag, FALSE)]
  BY <1>2, MadeType
<1> QED
  BY <1>1, <1>2 DEF DockerRunFails

LEMMA RunType ==
  ASSUME TypeOK, NEW self \in Procs, Run(self)
  PROVE  TypeOK'
<1>1. Key(self) \in Keys /\ {"ready", "fail"} \subseteq PCs
  BY KeyType DEF PCs
<1>2. ctr' \in [Keys -> Container] /\ loc' \in [Procs -> Locals]
  BY <1>1, DockerRunOkType, DockerRunFailsType DEF Run
<1>3. pc' \in [Procs -> PCs]
  BY <1>1, JumpType DEF Run
<1> QED
  BY <1>2, <1>3 DEF Run

LEMMA AwaitReadyType ==
  ASSUME TypeOK, NEW self \in Procs, AwaitReady(self)
  PROVE  TypeOK'
<1>1. ThreadTypeOK'
  BY JumpType DEF AwaitReady, PCs
<1> QED
  BY <1>1 DEF AwaitReady

LEMMA IsReadyType ==
  ASSUME TypeOK, NEW self \in Procs, IsReady(self)
  PROVE  TypeOK'
<1>1. pc' \in [Procs -> PCs]
  BY JumpType DEF IsReady, PCs
<1>2. [loc[self] EXCEPT !.p.img = loc[self].sha] \in Locals
  BY LocalType, PreviewFields, LocalsP
<1>3. [loc[self] EXCEPT !.p.img = loc[self].sha, !.ret = "deploy"] \in Locals
  BY <1>2, LocalsRet DEF Returns, LoopHeads
<1>4. loc' \in [Procs -> Locals]
  BY <1>3, SetLocType DEF IsReady
<1> QED
  BY <1>1, <1>4 DEF IsReady

\* A write of record p, published before the goroutine goes on with step l.
LEMMA WriteType ==
  ASSUME TypeOK, NEW self \in Procs, NEW p \in Preview, NEW l \in Returns,
         Put(Key(self), p), PublishThen(self, [loc[self] EXCEPT !.p = p], l)
  PROVE  store' \in [Keys -> Preview] /\ ThreadTypeOK'
<1>1. [loc[self] EXCEPT !.p = p] \in Locals
  BY LocalType, LocalsP
<1> QED
  BY <1>1, KeyType, PutType, PublishThenType

LEMMA CommitType ==
  ASSUME TypeOK, NEW self \in Procs, Commit(self)
  PROVE  TypeOK'
<1> DEFINE p == GoLive(loc[self].p, loc[self].sha)
<1>1. p \in Preview /\ "deploy" \in Returns
  BY LocalType, GoLiveType DEF Returns, LoopHeads
<1>2. store' \in [Keys -> Preview] /\ ThreadTypeOK'
  BY <1>1, WriteType DEF Commit
<1> QED
  BY <1>2 DEF Commit

LEMMA RecordFailureType ==
  ASSUME TypeOK, NEW self \in Procs, RecordFailure(self)
  PROVE  TypeOK'
<1>1. ThreadTypeOK'
  BY ReturnType DEF RecordFailure, PCs
<1> QED
  BY <1>1 DEF RecordFailure

LEMMA PutFailedType ==
  ASSUME TypeOK, NEW self \in Procs, PutFailed(self)
  PROVE  TypeOK'
<1> DEFINE p == [loc[self].p EXCEPT !.status = "failed"]
<1>1. p \in Preview /\ "deploy" \in Returns
  BY LocalType, PreviewFields DEF Status, Returns, LoopHeads
<1>2. store' \in [Keys -> Preview] /\ ThreadTypeOK'
  BY <1>1, WriteType DEF PutFailed
<1> QED
  BY <1>2 DEF PutFailed

LEMMA TearHostType ==
  ASSUME TypeOK, NEW self \in Procs, TearHost(self)
  PROVE  TypeOK'
<1> DEFINE k == Key(self)
<1>1. k \in Keys /\ "tearDelete" \in PCs
  BY KeyType DEF PCs
<1>2. ctr' \in [Keys -> Container]
  BY <1>1, RemoveType DEF TearHost
<1>3. nets' \subseteq Keys
  BY DEF TearHost, FreeNetwork
<1>4. image' \in [Keys -> [Commits -> Commits \cup {0}]]
  BY <1>1, RemoveImageType DEF TearHost
<1>5. dir' \in [Keys -> Commits \cup {NoDir, EmptyDir}]
  BY <1>1 DEF TearHost
<1>6. pc' \in [Procs -> PCs]
  BY <1>1, JumpType DEF TearHost
<1> QED
  BY <1>2, <1>3, <1>4, <1>5, <1>6 DEF TearHost

LEMMA TearDeleteType ==
  ASSUME TypeOK, NEW self \in Procs, TearDelete(self)
  PROVE  TypeOK'
<1> DEFINE k == Key(self)
<1>1. k \in Keys /\ loc[self] \in Locals /\ loc[self].ret \in PCs
  BY KeyType DEF Locals, Returns, LoopHeads, PCs
<1>2. store' \in [Keys -> Preview]
  BY <1>1, AbsentType, PutType DEF TearDelete
<1>3. green' \in [Keys -> SUBSET Deps]
  BY <1>1 DEF TearDelete
<1>4. ThreadTypeOK'
  BY <1>1, ReturnType DEF TearDelete
<1> QED
  BY <1>2, <1>3, <1>4 DEF TearDelete

LEMMA DeployStepType ==
  ASSUME IInv, NEW self \in Procs, DeployStep(self)
  PROVE  TypeOK'
BY NextAppType, CheckCapacityType, PutBuildingType, PublishType, AcquireType,
   CleanType, FetchSourceType, BuildImageType, BuiltType, EnsureNetworkType,
   RunType, AwaitReadyType, IsReadyType, CommitType, RecordFailureType,
   PutFailedType, TearHostType, TearDeleteType, Zenon
   DEF DeployStep, IInv

-----------------------------------------------------------------------------
(* Every action of a handler keeps the types.                              *)

LEMMA HandleClosedType ==
  ASSUME TypeOK, NEW self \in Procs, HandleClosed(self)
  PROVE  TypeOK'
<1>1. closed' \subseteq PRs
  BY DEF HandleClosed, Locals
<1>2. pc' \in [Procs -> PCs]
  BY JumpType DEF HandleClosed, Goto, PCs
<1> QED
  BY <1>1, <1>2 DEF HandleClosed

\* A set of apps in the locals.
LEMMA LocalsApps ==
  ASSUME NEW lv \in Locals, NEW S \in SUBSET Apps
  PROVE  [lv EXCEPT !.apps = S] \in Locals
BY DEF Locals

LEMMA PreviewEnvironmentsType ==
  ASSUME TypeOK, NEW self \in Procs, PreviewEnvironments(self)
  PROVE  TypeOK'
<1>1. pc' \in [Procs -> PCs]
  BY JumpType DEF PreviewEnvironments, Goto, PCs
<1>2. loc' \in [Procs -> Locals]
  BY LocalType, LocalsApps, SetLocType DEF PreviewEnvironments
<1> QED
  BY <1>1, <1>2 DEF PreviewEnvironments

LEMMA HandleOpenedType ==
  ASSUME TypeOK, NEW self \in Procs, HandleOpened(self)
  PROVE  TypeOK'
<1>1. PICK S \in SUBSET Apps : Return(self, [loc[self] EXCEPT !.apps = S], "deploy")
  BY DEF HandleOpened
<1>2. [loc[self] EXCEPT !.apps = S] \in Locals /\ "deploy" \in PCs
  BY LocalType, LocalsApps DEF PCs
<1>3. ThreadTypeOK'
  BY <1>1, <1>2, ReturnType
<1> QED
  BY <1>3 DEF HandleOpened

LEMMA ExitType ==
  ASSUME ThreadTypeOK, NEW self \in Procs, Exit(self)
  PROVE  ThreadTypeOK'
<1>1. "idle" \in PCs
  BY DEF PCs
<1> QED
  BY <1>1, BlankType, JumpType, SetLocType DEF Exit

LEMMA RedeployType ==
  ASSUME TypeOK, NEW self \in Procs, Redeploy(self)
  PROVE  TypeOK'
<1> DEFINE lv == [loc[self] EXCEPT !.sha = head[loc[self].pr]]
<1>1. loc[self] \in Locals /\ head[loc[self].pr] \in Commits \cup {0}
  BY LocalType DEF Locals
<1>2. lv \in Locals /\ "deploy" \in PCs
  BY <1>1 DEF Locals, PCs
<1>3. ThreadTypeOK'
  BY <1>2, ReturnType, ExitType DEF Redeploy
<1> QED
  BY <1>3 DEF Redeploy

LEMMA SnapshotType ==
  ASSUME store \in [Keys -> Preview], NEW S
  PROVE  Snapshot(S) \in [Keys -> Preview]
BY AbsentType DEF Snapshot

LEMMA LocalsTodo ==
  ASSUME NEW lv \in Locals, NEW t \in [Keys -> Preview]
  PROVE  [lv EXCEPT !.todo = t] \in Locals
BY DEF Locals

LEMMA TakeNextType ==
  ASSUME ThreadTypeOK, NEW self \in Procs, NEW k \in Keys
  PROVE  TakeNext(self, k) \in Locals
<1>1. /\ loc[self].todo[k] \in Preview /\ k[1] \in PRs /\ k[2] \in Apps
      /\ [loc[self].todo EXCEPT ![k] = Absent] \in [Keys -> Preview]
  BY LocalType, AbsentType DEF Keys
<1> DEFINE a == [loc[self] EXCEPT !.p = loc[self].todo[k]]
           b == [a EXCEPT !.todo = [loc[self].todo EXCEPT ![k] = Absent]]
           c == [b EXCEPT !.pr = k[1], !.app = k[2]]
<1>2. a \in Locals
  BY <1>1, LocalType, LocalsP
<1>3. b \in Locals
  BY <1>1, <1>2, LocalsTodo
<1>4. c \in Locals
  BY <1>1, <1>3 DEF Locals
<1>5. TakeNext(self, k) = c
  <2>1. loc[self] \in Locals
    BY LocalType
  <2> QED
    BY <2>1 DEF TakeNext, Locals
<1> QED
  BY <1>4, <1>5

\* A copy of part of the store, to work through.
LEMMA ListType ==
  ASSUME TypeOK, NEW self \in Procs, NEW S,
         SetLoc(self, [loc[self] EXCEPT !.todo = Snapshot(S)])
  PROVE  loc' \in [Procs -> Locals]
BY LocalType, SnapshotType, LocalsTodo, SetLocType

LEMMA ListForTeardownType ==
  ASSUME TypeOK, NEW self \in Procs, ListForTeardown(self)
  PROVE  TypeOK'
<1>1. loc' \in [Procs -> Locals]
  BY ListType DEF ListForTeardown
<1>2. pc' \in [Procs -> PCs]
  BY JumpType DEF ListForTeardown, Goto, PCs
<1> QED
  BY <1>1, <1>2 DEF ListForTeardown

LEMMA WakeListType ==
  ASSUME TypeOK, NEW self \in Procs, WakeList(self)
  PROVE  TypeOK'
<1>1. loc' \in [Procs -> Locals]
  BY ListType DEF WakeList
<1>2. pc' \in [Procs -> PCs]
  BY JumpType DEF WakeList, Goto, PCs
<1> QED
  BY <1>1, <1>2 DEF WakeList

\* The next record of the copy, to return to step l from.
LEMMA NextType ==
  ASSUME TypeOK, NEW self \in Procs, NEW l \in Returns, NEW k \in Keys,
         SetLoc(self, [TakeNext(self, k) EXCEPT !.ret = l])
  PROVE  loc' \in [Procs -> Locals]
BY TakeNextType, LocalsRet, SetLocType

LEMMA TearNextType ==
  ASSUME TypeOK, NEW self \in Procs, TearNext(self)
  PROVE  TypeOK'
<1>1. loc' \in [Procs -> Locals]
  BY NextType DEF TearNext, Pending, Returns, LoopHeads
<1>2. pc' \in [Procs -> PCs]
  BY JumpType DEF TearNext, Goto, PCs
<1> QED
  BY <1>1, <1>2 DEF TearNext

LEMMA WakeNextType ==
  ASSUME TypeOK, NEW self \in Procs, WakeNext(self)
  PROVE  TypeOK'
<1>1. loc' \in [Procs -> Locals]
  BY NextType DEF WakeNext, Pending, Returns, LoopHeads
<1>2. pc' \in [Procs -> PCs]
  BY JumpType DEF WakeNext, Goto, PCs
<1> QED
  BY <1>1, <1>2 DEF WakeNext

LEMMA TornDownType ==
  ASSUME TypeOK, NEW self \in Procs, TornDown(self)
  PROVE  TypeOK'
<1>1. ThreadTypeOK'
  BY ExitType DEF TornDown
<1>2. envs' \subseteq Keys /\ green' \in [Keys -> SUBSET Deps]
  BY DEF TornDown
<1> QED
  BY <1>1, <1>2 DEF TornDown

LEMMA WokenUpType ==
  ASSUME TypeOK, NEW self \in Procs, WokenUp(self)
  PROVE  TypeOK'
<1>1. ThreadTypeOK'
  BY ExitType, JumpType DEF WokenUp, PCs
<1> QED
  BY <1>1 DEF WokenUp

LEMMA WakeFailedType ==
  ASSUME ThreadTypeOK, NEW self \in Procs, WakeFailed(self)
  PROVE  ThreadTypeOK'
<1>1. loc[self] \in Locals /\ loc[self].ret \in PCs
  BY LocalType DEF Returns, LoopHeads, PCs
<1> QED
  BY <1>1, ReturnType DEF WakeFailed

LEMMA WakeType ==
  ASSUME TypeOK, NEW self \in Procs, Wake(self)
  PROVE  TypeOK'
<1>1. ctr' \in [Keys -> Container]
  <2>1. [ctr EXCEPT ![Key(self)].up = TRUE] \in [Keys -> Container]
    BY KeyType DEF Container
  <2> QED
    BY <2>1 DEF Wake
<1>2. ThreadTypeOK'
  BY WakeFailedType, JumpType DEF Wake, PCs
<1> QED
  BY <1>1, <1>2 DEF Wake

LEMMA RecreateFailedType ==
  ASSUME ThreadTypeOK, NEW self \in Procs, RecreateFailed(self)
  PROVE  ThreadTypeOK'
BY WakeFailedType, JumpType DEF RecreateFailed, PCs

LEMMA RecreateType ==
  ASSUME TypeOK, NEW self \in Procs, Recreate(self)
  PROVE  TypeOK'
<1>1. Key(self) \in Keys
  BY KeyType
<1>2. ctr' \in [Keys -> Container] /\ nets' \subseteq Keys
  BY <1>1, RemoveType DEF Recreate
<1>3. ThreadTypeOK'
  BY RecreateFailedType, JumpType DEF Recreate, PCs
<1> QED
  BY <1>2, <1>3 DEF Recreate

LEMMA RunAgainType ==
  ASSUME TypeOK, NEW self \in Procs, RunAgain(self)
  PROVE  TypeOK'
<1> DEFINE k == Key(self)
           tag == loc[self].p.img
<1>1. k \in Keys
  BY KeyType
<1>2. CASE /\ DockerRunOk(self, k, tag)
           /\ Jump(self, IF self = Loop THEN "healPut" ELSE "probe")
  <2>1. ctr' \in [Keys -> Container] /\ loc' \in [Procs -> Locals]
    BY <1>1, <1>2, DockerRunOkType
  <2>2. pc' \in [Procs -> PCs]
    BY <1>2, JumpType DEF PCs
  <2> QED
    BY <2>1, <2>2 DEF RunAgain
<1>3. CASE DockerRunFails(k, tag) /\ RecreateFailed(self)
  <2>1. ctr' \in [Keys -> Container] /\ ThreadTypeOK'
    BY <1>1, <1>3, DockerRunFailsType, RecreateFailedType
  <2> QED
    BY <2>1 DEF RunAgain
<1> QED
  BY <1>2, <1>3 DEF RunAgain

LEMMA ProbeType ==
  ASSUME TypeOK, NEW self \in Procs, Probe(self)
  PROVE  TypeOK'
<1>1. ThreadTypeOK'
  BY WakeFailedType, JumpType DEF Probe, PCs
<1> QED
  BY <1>1 DEF Probe

LEMMA WakePutType ==
  ASSUME TypeOK, NEW self \in Procs, WakePut(self)
  PROVE  TypeOK'
<1> DEFINE k == Key(self)
           p == [loc[self].p EXCEPT !.status = "running", !.age = 0]
           done == IF loc[self].ret = "idle" THEN Blank
                   ELSE [loc[self] EXCEPT !.woke = TRUE, !.p = Absent]
           publisher == [Blank EXCEPT !.ev = "publish", !.p = p,
                                      !.pr = k[1], !.app = k[2]]
<1>1. k \in Keys /\ k[1] \in PRs /\ k[2] \in Apps
  BY KeyType DEF Keys
<1>2. p \in Preview
  BY LocalType, LivePreview
<1>3. store' \in [Keys -> Preview]
  BY <1>1, <1>2, PutType DEF WakePut
<1>4. done \in Locals
  <2>1. [loc[self] EXCEPT !.p = Absent] \in Locals
    BY LocalType, LocalsP, AbsentType
  <2>2. [loc[self] EXCEPT !.woke = TRUE, !.p = Absent] \in Locals
    BY <2>1 DEF Locals
  <2> QED
    BY <2>2, BlankType
<1>5. publisher \in Locals
  BY <1>1, <1>2, BlankType DEF Locals
<1>6. loc[self].ret \in PCs /\ {"publish", "idle"} \subseteq PCs
  BY LocalType DEF Returns, LoopHeads, PCs
<1>7. CASE Installed
  <2>1. /\ NewGoroutine \in Procs
        /\ pc' = [pc EXCEPT ![self] = loc[self].ret, ![NewGoroutine] = "publish"]
        /\ loc' = [loc EXCEPT ![self] = done, ![NewGoroutine] = publisher]
    BY <1>7, NewGoroutineType DEF WakePut, Procs
  <2>2. pc' \in [Procs -> PCs] /\ loc' \in [Procs -> Locals]
    BY <1>4, <1>5, <1>6, <2>1
  <2> QED
    BY <1>3, <2>2 DEF WakePut
<1>8. CASE ~Installed
  <2>1. pc' \in [Procs -> PCs] /\ loc' \in [Procs -> Locals]
    BY <1>4, <1>6, <1>8, JumpType, SetLocType DEF WakePut
  <2> QED
    BY <1>3, <2>1 DEF WakePut
<1> QED
  BY <1>7, <1>8

LEMMA ResolveType ==
  ASSUME TypeOK, NEW self \in Procs, Resolve(self)
  PROVE  TypeOK'
<1>1. store[Key(self)] \in Preview
  BY KeyType
<1>2. [loc[self] EXCEPT !.p = store[Key(self)]] \in Locals
  BY <1>1, LocalType, LocalsP
<1>3. ThreadTypeOK'
  BY <1>2, ExitType, JumpType, SetLocType DEF Resolve, PCs
<1> QED
  BY <1>3 DEF Resolve

LEMMA TouchType ==
  ASSUME TypeOK, NEW self \in Procs, Touch(self)
  PROVE  TypeOK'
<1>1. [loc[self].p EXCEPT !.age = 0] \in Preview
  BY LocalType, PreviewFields
<1>2. store' \in [Keys -> Preview]
  BY <1>1, KeyType, PutType DEF Touch
<1>3. ThreadTypeOK'
  BY ExitType DEF Touch
<1> QED
  BY <1>2, <1>3 DEF Touch

LEMMA HandlerStepType ==
  ASSUME TypeOK, NEW self \in Procs, HandlerStep(self)
  PROVE  TypeOK'
BY HandleClosedType, PreviewEnvironmentsType, HandleOpenedType, RedeployType,
   ListForTeardownType, TearNextType, TornDownType, WakeListType, WakeNextType,
   WokenUpType, WakeType, RecreateType, RunAgainType, ProbeType, WakePutType,
   ResolveType, TouchType, Zenon DEF HandlerStep

-----------------------------------------------------------------------------
(* Every action of the loop keeps the types.                               *)

LEMMA TickListType ==
  ASSUME TypeOK, NEW elapsed \in BOOLEAN, TickList(elapsed)
  PROVE  TypeOK'
<1> DEFINE now(p) == IF elapsed THEN Older(p) ELSE p
           todo == [k \in Keys |-> now(store[k])]
<1>1. \A p \in Preview : now(p) \in Preview
  BY OlderType
<1> HIDE DEF now
<1>2. todo \in [Keys -> Preview]
  BY <1>1
<1>3. [Blank EXCEPT !.ev = "tick", !.todo = todo] \in Locals
  <2>1. [Blank EXCEPT !.todo = todo] \in Locals
    BY <1>2, BlankType, LocalsTodo
  <2> QED
    BY <2>1 DEF Locals
<1>4. \A s \in Procs :
        [loc[s] EXCEPT !.p = now(@), !.todo = [k \in Keys |-> now(@[k])]] \in Locals
  <2> TAKE s \in Procs
  <2> DEFINE lv == [loc[s] EXCEPT !.p = now(@)]
             t == [k \in Keys |-> now(lv.todo[k])]
  <2>1. lv \in Locals
    BY <1>1, LocalType, LocalsP
  <2>2. t \in [Keys -> Preview]
    BY <1>1, <2>1 DEF Locals
  <2>3. [lv EXCEPT !.todo = t] \in Locals
    BY <2>1, <2>2, LocalsTodo
  <2> QED
    BY <2>3
<1>5. store' = todo /\ loc' = [s \in Procs |->
         IF s = Loop THEN [Blank EXCEPT !.ev = "tick", !.todo = todo]
         ELSE [loc[s] EXCEPT !.p = now(@), !.todo = [k \in Keys |-> now(@[k])]]]
  BY DEF TickList, now
<1>6. store' \in [Keys -> Preview] /\ loc' \in [Procs -> Locals]
  BY <1>2, <1>3, <1>4, <1>5
<1>7. pc' \in [Procs -> PCs]
  BY LoopInProcs, JumpType DEF TickList, LoopDo, Goto, PCs
<1>8. keep' \subseteq Keys
  BY DEF TickList, Live
<1> QED
  BY <1>6, <1>7, <1>8 DEF TickList

LEMMA ListManagedType ==
  ASSUME TypeOK, ListManaged
  PROVE  TypeOK'
<1>1. managed' \in [Keys -> Cids \cup {0}] /\ keep' \subseteq Keys
  BY DEF ListManaged, Container
<1>2. PICK t \in [Keys -> Preview] : SetLoc(Loop, [loc[Loop] EXCEPT !.todo = t])
  <2> DEFINE t == [k \in Keys |-> IF Verdict(loc[Loop].todo[k], managed'[k]) = "scan"
                                  THEN Absent ELSE loc[Loop].todo[k]]
  <2>1. t \in [Keys -> Preview]
    BY LoopInProcs, LocalType, AbsentType
  <2>2. SetLoc(Loop, [loc[Loop] EXCEPT !.todo = t])
    BY DEF ListManaged
  <2> QED
    BY <2>1, <2>2
<1>3. loc' \in [Procs -> Locals]
  BY <1>2, LoopInProcs, LocalType, LocalsTodo, SetLocType
<1>4. pc' \in [Procs -> PCs]
  BY LoopInProcs, JumpType DEF ListManaged, LoopDo, Goto, PCs
<1> QED
  BY <1>1, <1>3, <1>4 DEF ListManaged

\* The steps Tick goes to for a record.
LEMMA VerdictSteps ==
  \A p, id : Verdict(p, id) \in {"tearHost", "recreate", "sleep", "scan"}
BY DEF Verdict

LEMMA ScanType ==
  ASSUME TypeOK, Scan
  PROVE  TypeOK'
<1>1. PICK k \in Keys :
        /\ Jump(Loop, Verdict(loc[Loop].todo[k], managed[k]))
        /\ SetLoc(Loop, [TakeNext(Loop, k) EXCEPT !.ret = "scan"])
  BY DEF Scan, Pending
<1>2. pc' \in [Procs -> PCs]
  <2>1. Verdict(loc[Loop].todo[k], managed[k]) \in PCs
    BY VerdictSteps DEF PCs
  <2> QED
    BY <1>1, <2>1, LoopInProcs, JumpType
<1>3. loc' \in [Procs -> Locals]
  BY <1>1, LoopInProcs, NextType DEF Returns, LoopHeads
<1> QED
  BY <1>2, <1>3 DEF Scan

LEMMA HealWriteType ==
  ASSUME TypeOK, NEW p \in Preview, HealWrite(p)
  PROVE  TypeOK'
<1>1. store' \in [Keys -> Preview] /\ ThreadTypeOK'
  BY LoopInProcs, WriteType DEF HealWrite, Returns, LoopHeads
<1> QED
  BY <1>1 DEF HealWrite

LEMMA HealType ==
  ASSUME TypeOK, HealPut \/ HealFail \/ SleepPut
  PROVE  TypeOK'
<1>1. loc[Loop].p \in Preview
  BY LoopInProcs, LocalType
<1>2. CASE HealPut
  BY <1>1, <1>2, LivePreview, HealWriteType DEF HealPut
<1>3. CASE HealFail
  BY <1>1, <1>3, PreviewFields, HealWriteType DEF HealFail, Status
<1>4. CASE SleepPut
  BY <1>1, <1>4, PreviewFields, HealWriteType DEF SleepPut, Status
<1> QED
  BY <1>2, <1>3, <1>4

LEMMA SleepType ==
  ASSUME TypeOK, Sleep
  PROVE  TypeOK'
<1>1. ctr' \in [Keys -> Container]
  <2> DEFINE k == Key(Loop)
             up == ctr[k].up /\ ctr[k].cid # loc[Loop].p.cid
  <2>1. k \in Keys
    BY LoopInProcs, KeyType
  <2>2. ctr[k] \in Container /\ up \in BOOLEAN
    BY <2>1 DEF Container
  <2>3. [ctr EXCEPT ![k].up = up] \in [Keys -> Container]
    BY <2>1, <2>2 DEF Container
  <2>4. ctr' = [ctr EXCEPT ![k].up = up] \/ ctr' = ctr
    BY <2>1 DEF Sleep, Stop
  <2> QED
    BY <2>3, <2>4
<1>2. loc[Loop] \in Locals /\ {"scan", "sleepPut"} \subseteq PCs
  BY LoopInProcs, LocalType DEF PCs
<1>3. ThreadTypeOK'
  BY <1>2, LoopInProcs, ReturnType, JumpType DEF Sleep
<1> QED
  BY <1>1, <1>3 DEF Sleep

LEMMA ReapType ==
  ASSUME TypeOK, Reap
  PROVE  TypeOK'
<1>1. ctr' \in [Keys -> Container]
  BY RemoveType DEF Reap
<1>2. managed' \in [Keys -> Cids \cup {0}]
  BY DEF Reap
<1> QED
  BY <1>1, <1>2 DEF Reap

LEMMA ReapDirsType ==
  ASSUME TypeOK, ReapDirs
  PROVE  TypeOK'
<1>1. dir' \in [Keys -> Commits \cup {NoDir, EmptyDir}]
  BY DEF ReapDirs
<1>2. ThreadTypeOK'
  BY LoopInProcs, ExitType DEF ReapDirs
<1> QED
  BY <1>1, <1>2 DEF ReapDirs

LEMMA LoopStepType ==
  ASSUME TypeOK, LoopStep
  PROVE  TypeOK'
BY LoopInProcs, ListManagedType, ScanType, HealType, SleepType, ReapType,
   ReapDirsType, PublishType, TearHostType, TearDeleteType, RecreateType,
   RunAgainType, Zenon DEF LoopStep

-----------------------------------------------------------------------------
(* So does the environment.                                                *)

LEMMA StartType ==
  ASSUME TypeOK, NEW lv \in Locals, NEW l \in PCs, Start(lv, l)
  PROVE  ThreadTypeOK'
<1>1. NewGoroutine \in Procs
  BY NewGoroutineType DEF Start, Procs
<1> QED
  BY <1>1, JumpType, SetLocType DEF Start

LEMMA DeliverType ==
  ASSUME TypeOK, NEW lv \in Locals, NEW l \in PCs, Deliver(lv, l)
  PROVE  ThreadTypeOK'
BY StartType DEF Deliver

LEMMA OpenedType ==
  ASSUME TypeOK, NEW r \in PRs, Opened(r)
  PROVE  TypeOK'
<1>1. prs' \in [PRs -> {"none", "open", "closed"}]
  BY DEF Opened
<1>2. head' \in [PRs -> Commits \cup {0}]
  BY IdsAssumption DEF Opened, Commits
<1>3. [Blank EXCEPT !.ev = "opened", !.pr = r, !.sha = head'[r]] \in Locals
  BY <1>2, BlankType DEF Locals
<1>4. ThreadTypeOK'
  BY <1>3, DeliverType DEF Opened, PCs
<1> QED
  BY <1>1, <1>2, <1>4 DEF Opened, Outside

LEMMA UpdatedType ==
  ASSUME TypeOK, NEW r \in PRs, Updated(r)
  PROVE  TypeOK'
<1>1. PICK c \in Commits :
        /\ head' = [head EXCEPT ![r] = c]
        /\ Deliver([Blank EXCEPT !.ev = "opened", !.pr = r, !.sha = c], "opened")
  BY DEF Updated
<1>2. [Blank EXCEPT !.ev = "opened", !.pr = r, !.sha = c] \in Locals
  BY BlankType DEF Locals
<1>3. ThreadTypeOK'
  BY <1>1, <1>2, DeliverType DEF PCs
<1> QED
  BY <1>1, <1>3 DEF Updated, Outside

LEMMA ClosedType ==
  ASSUME TypeOK, NEW r \in PRs, Closed(r)
  PROVE  TypeOK'
<1>1. [Blank EXCEPT !.ev = "closed", !.pr = r] \in Locals
  BY BlankType DEF Locals
<1>2. ThreadTypeOK'
  BY <1>1, DeliverType DEF Closed, PCs
<1> QED
  BY <1>2 DEF Closed, Outside

LEMMA CommentedType ==
  ASSUME TypeOK, NEW r \in PRs, Commented(r)
  PROVE  TypeOK'
<1>1. PICK cmd \in Commands, S \in {Apps} \cup {{a} : a \in Apps} :
        Start([Blank EXCEPT !.ev = cmd, !.pr = r, !.apps = S],
             CASE cmd = "destroy" -> "list" [] cmd = "wake" -> "wakeList"
               [] cmd = "redeploy" -> "redeploy")
  BY DEF Commented
<1>2. cmd \in {"destroy", "wake", "redeploy"}
  BY BusyAssumption
<1>3. [Blank EXCEPT !.ev = cmd, !.pr = r, !.apps = S] \in Locals
  <2> DEFINE lv == [Blank EXCEPT !.ev = cmd, !.pr = r]
  <2>1. lv \in Locals
    BY <1>2, BlankType DEF Locals
  <2>2. [lv EXCEPT !.apps = S] \in Locals
    BY <2>1, LocalsApps
  <2>3. [Blank EXCEPT !.ev = cmd, !.pr = r, !.apps = S] = [lv EXCEPT !.apps = S]
    BY BlankType DEF Locals
  <2> QED
    BY <2>2, <2>3
<1>4. ThreadTypeOK'
  BY <1>1, <1>2, <1>3, StartType DEF PCs
<1> QED
  BY <1>4 DEF Commented, Outside

LEMMA RequestedType ==
  ASSUME TypeOK, NEW k \in Keys, Requested(k)
  PROVE  TypeOK'
<1>1. [Blank EXCEPT !.ev = "request", !.pr = k[1], !.app = k[2]] \in Locals
  BY BlankType DEF Locals, Keys
<1>2. ThreadTypeOK'
  BY <1>1, StartType DEF Requested, PCs
<1> QED
  BY <1>2 DEF Requested, Outside

LEMMA HostEventType ==
  ASSUME TypeOK, NEW k \in Keys, Prune(k) \/ AppExits(k)
  PROVE  TypeOK'
<1>1. CASE Prune(k)
  <2>1. ctr' \in [Keys -> Container]
    BY <1>1, NoContainerType DEF Prune
  <2>2. image' \in [Keys -> [Commits -> Commits \cup {0}]]
    BY <1>1 DEF Prune
  <2> QED
    BY <1>1, <2>1, <2>2 DEF Prune, Outside
<1>2. CASE AppExits(k)
  <2>1. ctr' \in [Keys -> Container]
    <3>1. [ctr EXCEPT ![k].up = FALSE] \in [Keys -> Container]
      BY DEF Container
    <3> QED
      BY <1>2, <3>1 DEF AppExits
  <2> QED
    BY <1>2, <2>1 DEF AppExits, Outside
<1> QED
  BY <1>1, <1>2

LEMMA DaemonEventType ==
  ASSUME TypeOK, Restart \/ Outage \/ Recovery \/ \E r \in PRs : ForgetPR(r)
  PROVE  TypeOK'
<1>1. CASE Restart
  <2>1. pc' \in [Procs -> PCs] /\ loc' \in [Procs -> Locals]
    BY <1>1, BlankType DEF Restart, Reboot, PCs
  <2> QED
    BY <1>1, <2>1 DEF Restart, Reboot, Outside
<1>2. CASE Outage
  BY <1>2 DEF Outage
<1>3. CASE Recovery
  BY <1>3 DEF Recovery
<1>4. CASE \E r \in PRs : ForgetPR(r)
  BY <1>4 DEF ForgetPR, Outside
<1> QED
  BY <1>1, <1>2, <1>3, <1>4

LEMMA CliDestroyType ==
  ASSUME TypeOK, NEW k \in Keys, CliDestroy(k)
  PROVE  TypeOK'
<1>1. ThreadTypeOK' /\ TickTypeOK' /\ closed' = {} /\ sem' = 0
  BY BlankType DEF CliDestroy, Reboot, PCs
<1>2. ctr' \in [Keys -> Container]
  BY RemoveType DEF CliDestroy
<1>3. nets' \subseteq Keys
  BY DEF CliDestroy, FreeNetwork
<1>4. image' \in [Keys -> [Commits -> Commits \cup {0}]]
  BY RemoveImageType DEF CliDestroy
<1>5. dir' \in [Keys -> Commits \cup {NoDir, EmptyDir}]
  BY DEF CliDestroy
<1>6. store' \in [Keys -> Preview]
  BY AbsentType, PutType DEF CliDestroy
<1> QED
  BY <1>1, <1>2, <1>3, <1>4, <1>5, <1>6 DEF CliDestroy, Outside

LEMMA EnvironmentType ==
  ASSUME TypeOK, Environment
  PROVE  TypeOK'
BY OpenedType, UpdatedType, ClosedType, CommentedType, RequestedType,
   HostEventType, DaemonEventType, CliDestroyType, Zenon DEF Environment

LEMMA NextTypeOK ==
  ASSUME IInv, Next
  PROVE  TypeOK'
<1>1. CASE Environment
  BY <1>1, EnvironmentType DEF IInv
<1>2. CASE \E elapsed \in BOOLEAN : Tick(elapsed)
  BY <1>2, TickListType DEF Tick, IInv
<1>3. CASE LoopStep
  BY <1>3, LoopStepType DEF IInv
<1>4. CASE \E g \in Goroutines : GoroutineStep(g)
  BY <1>4, DeployStepType, HandlerStepType DEF GoroutineStep, IInv, Procs
<1> QED
  BY <1>1, <1>2, <1>3, <1>4 DEF Next

LEMMA InitTypeOK == Init => TypeOK
<1> SUFFICES ASSUME Init PROVE TypeOK
  OBVIOUS
<1>1. DeployedPreview \in Preview
  BY FirstType, IdsAssumption, WindowsAssumption
     DEF DeployedPreview, Preview, Status, Commits
<1>2. 1 \in Commits
  BY IdsAssumption DEF Commits
<1>3. DaemonTypeOK
  BY <1>1, AbsentType DEF Init, If
<1>4. DockerTypeOK
  <2>1. ctr \in [Keys -> Container]
    BY <1>2, FirstType, NoContainerType DEF Init, If, Container
  <2>2. image \in [Keys -> [Commits -> Commits \cup {0}]]
    BY <1>2 DEF Init, If
  <2>3. nets \subseteq Keys /\ dir \in [Keys -> Commits \cup {NoDir, EmptyDir}]
    BY <1>2, PartsAssumption DEF Init, If
  <2> QED
    BY <2>1, <2>2, <2>3
<1>5. GithubTypeOK
  BY <1>2, FirstType, PartsAssumption DEF Init
<1>6. ThreadTypeOK
  BY BlankType DEF Init, PCs
<1>7. TickTypeOK /\ WorldTypeOK
  BY DEF Init
<1> QED
  BY <1>3, <1>4, <1>5, <1>6, <1>7

-----------------------------------------------------------------------------
(* Only buildImage enters or leaves the steps that hold a slot.            *)

\* A goroutine takes a step outside buildImage.
Moves(self) ==
  /\ sem' = sem
  /\ pc[self] \notin BuildPCs
  /\ \E l \in PCs \ BuildPCs : pc' = [pc EXCEPT ![self] = l]

LEMMA MovesKeepsSlots ==
  ASSUME IInv, NEW self \in Procs, Moves(self)
  PROVE  BuildSlots'
<1>1. {s \in Procs : pc'[s] \in BuildPCs} = {s \in Procs : pc[s] \in BuildPCs}
  BY DEF Moves, IInv
<1> QED
  BY <1>1 DEF BuildSlots, IInv, Moves

LEMMA ReturnMoves ==
  ASSUME NEW self \in Procs, NEW lv, NEW l \in PCs \ BuildPCs, Return(self, lv, l)
  PROVE  \E m \in PCs \ BuildPCs : pc' = [pc EXCEPT ![self] = m]
BY DEF Return, Exit, Jump, PCs, BuildPCs

LEMMA PublishThenMoves ==
  ASSUME NEW self \in Procs, NEW lv, NEW l \in PCs \ BuildPCs,
         PublishThen(self, lv, l)
  PROVE  \E m \in PCs \ BuildPCs : pc' = [pc EXCEPT ![self] = m]
<1>1. "publish" \in PCs \ BuildPCs
  BY DEF PCs, BuildPCs
<1> QED
  BY <1>1, ReturnMoves DEF PublishThen, Jump

LEMMA ReturnsOutside == Returns \subseteq PCs \ BuildPCs
BY DEF Returns, LoopHeads, PCs, BuildPCs

LEMMA RetMoves ==
  ASSUME ThreadTypeOK, NEW self \in Procs, NEW lv, Return(self, lv, loc[self].ret)
  PROVE  \E m \in PCs \ BuildPCs : pc' = [pc EXCEPT ![self] = m]
BY LocalType, ReturnsOutside, ReturnMoves

LEMMA DeployMoves ==
  ASSUME TypeOK, NEW self \in Procs, DeployStep(self),
         ~Acquire(self), ~Clean(self), ~FetchSource(self), ~BuildImage(self)
  PROVE  Moves(self)
<1> USE DEF Moves
<1> DEFINE Out(l) == l \in PCs \ BuildPCs
<1>0. /\ Out("deploy") /\ Out("put") /\ Out("acquire") /\ Out("network")
      /\ Out("run") /\ Out("ready") /\ Out("isReady") /\ Out("commit")
      /\ Out("fail") /\ Out("failPut") /\ Out("capacity") /\ Out("tearHost")
      /\ Out("tearDelete") /\ Out("publish") /\ Out("built")
  BY DEF PCs, BuildPCs
<1>1. CASE NextApp(self)
  BY <1>0, <1>1 DEF NextApp, Jump
<1>2. CASE CheckCapacity(self)
  BY <1>0, <1>2, ReturnMoves DEF CheckCapacity
<1>3. CASE PutBuilding(self)
  BY <1>0, <1>3, PublishThenMoves DEF PutBuilding
<1>4. CASE Publish(self)
  <2>1. \E lv : Return(self, lv, loc[self].ret)
    BY <1>4 DEF Publish, CreateDeployment, SetDeploymentStatus, PublishFails
  <2> QED
    BY <1>0, <1>4, <2>1, RetMoves DEF Publish
<1>5. CASE Built(self)
  BY <1>0, <1>5, ReturnMoves DEF Built, Jump
<1>6. CASE EnsureNetwork(self)
  BY <1>0, <1>6 DEF EnsureNetwork, Jump
<1>7. CASE Run(self)
  BY <1>0, <1>7 DEF Run, Jump
<1>8. CASE AwaitReady(self)
  BY <1>0, <1>8 DEF AwaitReady, Jump
<1>9. CASE IsReady(self)
  BY <1>0, <1>9 DEF IsReady, Jump
<1>10. CASE Commit(self)
  BY <1>0, <1>10, PublishThenMoves DEF Commit
<1>11. CASE RecordFailure(self)
  BY <1>0, <1>11, ReturnMoves DEF RecordFailure
<1>12. CASE PutFailed(self)
  BY <1>0, <1>12, PublishThenMoves DEF PutFailed
<1>13. CASE TearHost(self)
  BY <1>0, <1>13 DEF TearHost, Jump
<1>14. CASE TearDelete(self)
  BY <1>0, <1>14, RetMoves DEF TearDelete
<1> QED
  BY <1>1, <1>2, <1>3, <1>4, <1>5, <1>6, <1>7, <1>8, <1>9, <1>10, <1>11, <1>12,
     <1>13, <1>14 DEF DeployStep

LEMMA WakeFailedMoves ==
  ASSUME ThreadTypeOK, NEW self \in Procs, WakeFailed(self)
  PROVE  \E m \in PCs \ BuildPCs : pc' = [pc EXCEPT ![self] = m]
BY RetMoves DEF WakeFailed

LEMMA RecreateFailedMoves ==
  ASSUME ThreadTypeOK, NEW self \in Procs, RecreateFailed(self)
  PROVE  \E m \in PCs \ BuildPCs : pc' = [pc EXCEPT ![self] = m]
BY WakeFailedMoves DEF RecreateFailed, Jump, PCs, BuildPCs

LEMMA RecreateMoves ==
  ASSUME TypeOK, NEW self \in Procs, Recreate(self) \/ RunAgain(self)
  PROVE  Moves(self)
<1>0. {"rerun", "healPut", "probe"} \subseteq PCs \ BuildPCs
  BY DEF PCs, BuildPCs
<1>1. CASE Recreate(self)
  BY <1>0, <1>1, RecreateFailedMoves DEF Moves, Recreate, Jump, BuildPCs
<1>2. CASE RunAgain(self)
  BY <1>0, <1>2, RecreateFailedMoves DEF Moves, RunAgain, Jump, BuildPCs
<1> QED
  BY <1>1, <1>2

\* Waking a preview starts a second goroutine, outside buildImage too.
LEMMA WakePutKeepsSlots ==
  ASSUME IInv, NEW self \in Procs, WakePut(self)
  PROVE  BuildSlots'
<1>1. loc[self].ret \notin BuildPCs
  BY LocalType, ReturnsOutside DEF IInv
<1>2. {s \in Procs : pc'[s] \in BuildPCs} = {s \in Procs : pc[s] \in BuildPCs}
  <2>1. CASE Installed
    <3>1. /\ NewGoroutine \in Procs /\ pc[NewGoroutine] = "idle"
          /\ pc' = [pc EXCEPT ![self] = loc[self].ret, ![NewGoroutine] = "publish"]
      BY <2>1, NewGoroutineType DEF WakePut, Procs
    <3>2. pc[self] = "wakePut"
      BY DEF WakePut
    <3> QED
      BY <1>1, <3>1, <3>2 DEF IInv, BuildPCs
  <2>2. CASE ~Installed
    BY <1>1, <2>2 DEF WakePut, Jump, IInv, BuildPCs
  <2> QED
    BY <2>1, <2>2
<1> QED
  BY <1>2 DEF WakePut, BuildSlots, IInv

LEMMA HandlerMoves ==
  ASSUME TypeOK, NEW self \in Procs, HandlerStep(self), ~WakePut(self)
  PROVE  Moves(self)
<1> USE DEF Moves
<1> DEFINE Out(l) == l \in PCs \ BuildPCs
<1>0. /\ Out("deploy") /\ Out("environments") /\ Out("list") /\ Out("tearNext")
      /\ Out("tearHost") /\ Out("wakeNext") /\ Out("wake") /\ Out("redeploy")
      /\ Out("probe") /\ Out("recreate") /\ Out("wakePut") /\ Out("touch")
      /\ Out("idle")
  BY DEF PCs, BuildPCs
<1>1. CASE HandleClosed(self)
  BY <1>0, <1>1 DEF HandleClosed, Goto, Jump, BuildPCs
<1>2. CASE PreviewEnvironments(self)
  BY <1>0, <1>2 DEF PreviewEnvironments, Goto, Jump, BuildPCs
<1>3. CASE HandleOpened(self)
  BY <1>0, <1>3, ReturnMoves DEF HandleOpened, BuildPCs
<1>4. CASE Redeploy(self)
  BY <1>0, <1>4, ReturnMoves DEF Redeploy, Exit, Jump, BuildPCs
<1>5. CASE ListForTeardown(self)
  BY <1>0, <1>5 DEF ListForTeardown, Goto, Jump, BuildPCs
<1>6. CASE TearNext(self)
  BY <1>0, <1>6 DEF TearNext, Goto, Jump, BuildPCs
<1>7. CASE TornDown(self)
  BY <1>0, <1>7 DEF TornDown, Exit, Jump, BuildPCs
<1>8. CASE WakeList(self)
  BY <1>0, <1>8 DEF WakeList, Goto, Jump, BuildPCs
<1>9. CASE WakeNext(self)
  BY <1>0, <1>9 DEF WakeNext, Goto, Jump, BuildPCs
<1>10. CASE WokenUp(self)
  BY <1>0, <1>10 DEF WokenUp, Exit, Jump, BuildPCs
<1>11. CASE Wake(self)
  BY <1>0, <1>11, WakeFailedMoves DEF Wake, Jump, BuildPCs
<1>12. CASE Recreate(self) \/ RunAgain(self)
  BY <1>12, RecreateMoves
<1>13. CASE Probe(self)
  BY <1>0, <1>13, WakeFailedMoves DEF Probe, Jump, BuildPCs
<1>14. CASE Resolve(self)
  BY <1>0, <1>14 DEF Resolve, Exit, Jump, BuildPCs
<1>15. CASE Touch(self)
  BY <1>0, <1>15 DEF Touch, Exit, Jump, BuildPCs
<1> QED
  BY <1>1, <1>2, <1>3, <1>4, <1>5, <1>6, <1>7, <1>8, <1>9, <1>10, <1>11, <1>12,
     <1>13, <1>14, <1>15 DEF HandlerStep

LEMMA LoopMoves ==
  ASSUME TypeOK, LoopStep \/ \E elapsed \in BOOLEAN : Tick(elapsed)
  PROVE  Moves(Loop) \/ (pc' = pc /\ sem' = sem)
<1> DEFINE Out(l) == l \in PCs \ BuildPCs
<1>0. /\ Out("ps") /\ Out("scan") /\ Out("sleep") /\ Out("sleepPut")
      /\ Out("tearHost") /\ Out("recreate") /\ Out("idle") /\ Loop \in Procs
  BY LoopInProcs DEF PCs, BuildPCs
<1>1. CASE ListManaged
  BY <1>0, <1>1 DEF Moves, ListManaged, LoopDo, Goto, Jump, BuildPCs
<1>2. CASE Scan
  <2>1. \A p, id : Out(Verdict(p, id))
    BY <1>0, VerdictSteps
  <2> QED
    BY <1>0, <1>2, <2>1 DEF Moves, Scan, Jump, BuildPCs
<1>3. CASE HealPut \/ HealFail \/ SleepPut
  BY <1>0, <1>3, PublishThenMoves
     DEF Moves, HealPut, HealFail, SleepPut, HealWrite, BuildPCs
<1>4. CASE Sleep
  BY <1>0, <1>4, ReturnMoves DEF Moves, Sleep, Jump, BuildPCs
<1>5. CASE Reap
  BY <1>5 DEF Reap
<1>6. CASE ReapDirs
  BY <1>0, <1>6 DEF Moves, ReapDirs, Exit, Jump, BuildPCs
<1>7. CASE Publish(Loop) \/ TearHost(Loop) \/ TearDelete(Loop)
  <2>1. DeployStep(Loop) /\ pc[Loop] \in {"publish", "tearHost", "tearDelete"}
    BY <1>7 DEF DeployStep, Publish, TearHost, TearDelete
  <2>2. ~Acquire(Loop) /\ ~Clean(Loop) /\ ~FetchSource(Loop) /\ ~BuildImage(Loop)
    BY <2>1 DEF Acquire, Clean, FetchSource, BuildImage
  <2> QED
    BY <1>0, <2>1, <2>2, DeployMoves
<1>8. CASE Recreate(Loop) \/ RunAgain(Loop)
  BY <1>0, <1>8, RecreateMoves
<1>9. CASE \E elapsed \in BOOLEAN : Tick(elapsed)
  BY <1>0, <1>9 DEF Moves, Tick, TickList, LoopDo, Goto, Jump, BuildPCs
<1> QED
  BY <1>1, <1>2, <1>3, <1>4, <1>5, <1>6, <1>7, <1>8, <1>9 DEF LoopStep

-----------------------------------------------------------------------------
(* Entering, staying in and leaving buildImage.                            *)

LEMMA AcquireKeepsSlots ==
  ASSUME IInv, NEW self \in Procs, Acquire(self)
  PROVE  BuildSlots'
<1>1. CASE sem < MaxBuilds /\ sem' = sem + 1 /\ Jump(self, "clean")
  <2>1. self \notin Builders /\ Builders' = Builders \cup {self}
    BY <1>1 DEF Acquire, Builders, BuildPCs, Jump, IInv
  <2>2. Cardinality(Builders') = Cardinality(Builders) + 1
    BY <2>1, BuildersFinite, FS_AddElement
  <2> QED
    BY <1>1, <2>2, BuildsAssumption DEF BuildSlots, Builders, IInv
<1>2. CASE Jump(self, "fail") /\ sem' = sem
  <2>1. Moves(self)
    BY <1>2 DEF Acquire, Moves, Jump, PCs, BuildPCs
  <2> QED
    BY <2>1, MovesKeepsSlots
<1> QED
  BY <1>1, <1>2 DEF Acquire

LEMMA LeaveBuildKeepsSlots ==
  ASSUME IInv, NEW self \in Procs, pc[self] \in BuildPCs,
         NEW l \in PCs \ BuildPCs, LeaveBuild(self, l)
  PROVE  BuildSlots'
<1>1. self \in Builders /\ Builders' = Builders \ {self}
  BY DEF Builders, LeaveBuild, Jump, IInv
<1>2. Cardinality(Builders') = Cardinality(Builders) - 1
  BY <1>1, BuildersFinite, FS_RemoveElement
<1>3. sem \in Nat \ {0} /\ sem' = sem - 1
  BY HoldsSlot DEF LeaveBuild, IInv
<1> QED
  BY <1>2, <1>3, BuildsAssumption DEF BuildSlots, Builders, IInv

\* From one step of buildImage to the next.
LEMMA StayKeepsSlots ==
  ASSUME IInv, NEW self \in Procs, pc[self] \in BuildPCs, NEW l \in BuildPCs,
         Jump(self, l), sem' = sem
  PROVE  BuildSlots'
<1>1. Builders' = Builders
  BY DEF Builders, Jump, IInv
<1> QED
  BY <1>1 DEF BuildSlots, Builders, IInv

LEMMA BuildKeepsSlots ==
  ASSUME IInv, NEW self \in Procs,
         Clean(self) \/ FetchSource(self) \/ BuildImage(self)
  PROVE  BuildSlots'
<1>1. /\ pc[self] \in BuildPCs /\ {"fetchSource", "build"} \subseteq BuildPCs
      /\ {"fail", "built"} \subseteq PCs \ BuildPCs
  BY DEF Clean, FetchSource, BuildImage, BuildPCs, PCs
<1>2. CASE Clean(self)
  BY <1>1, <1>2, LeaveBuildKeepsSlots, StayKeepsSlots DEF Clean
<1>3. CASE FetchSource(self)
  BY <1>1, <1>3, LeaveBuildKeepsSlots, StayKeepsSlots DEF FetchSource
<1>4. CASE BuildImage(self)
  BY <1>1, <1>4, LeaveBuildKeepsSlots DEF BuildImage
<1> QED
  BY <1>2, <1>3, <1>4

LEMMA DeployStepKeepsSlots ==
  ASSUME IInv, NEW self \in Procs, DeployStep(self)
  PROVE  BuildSlots'
<1>1. CASE Acquire(self)
  BY <1>1, AcquireKeepsSlots
<1>2. CASE Clean(self) \/ FetchSource(self) \/ BuildImage(self)
  BY <1>2, BuildKeepsSlots
<1>3. CASE ~(Acquire(self) \/ Clean(self) \/ FetchSource(self) \/ BuildImage(self))
  BY <1>3, DeployMoves, MovesKeepsSlots DEF IInv
<1> QED
  BY <1>1, <1>2, <1>3

LEMMA SameKeepsSlots ==
  ASSUME BuildSlots, pc' = pc, sem' = sem
  PROVE  BuildSlots'
BY DEF BuildSlots

LEMMA StartKeepsSlots ==
  ASSUME IInv, NEW lv, NEW l \in PCs \ BuildPCs, Start(lv, l), sem' = sem
  PROVE  BuildSlots'
<1>1. NewGoroutine \in Procs /\ Moves(NewGoroutine)
  BY NewGoroutineType DEF Start, Moves, Jump, Procs, BuildPCs
<1> QED
  BY <1>1, MovesKeepsSlots

LEMMA RebootKeepsSlots ==
  ASSUME Reboot
  PROVE  BuildSlots'
<1>1. {s \in Procs : pc'[s] \in BuildPCs} = {}
  BY DEF Reboot, BuildPCs
<1>2. Cardinality({}) = 0
  BY FS_EmptySet
<1> QED
  BY <1>1, <1>2, BuildsAssumption DEF Reboot, BuildSlots

LEMMA EnvironmentKeepsSlots ==
  ASSUME IInv, Environment
  PROVE  BuildSlots'
<1>0. {"opened", "closing", "resolve", "list", "wakeList", "redeploy"}
        \subseteq PCs \ BuildPCs
  BY DEF PCs, BuildPCs
<1>1. ASSUME NEW lv, NEW l \in PCs \ BuildPCs, Deliver(lv, l), sem' = sem
      PROVE  BuildSlots'
  BY <1>1, StartKeepsSlots, SameKeepsSlots DEF Deliver, IInv
<1>2. ASSUME NEW r \in PRs, Opened(r) \/ Updated(r) \/ Closed(r)
      PROVE  BuildSlots'
  BY <1>0, <1>1, <1>2 DEF Opened, Updated, Closed
<1>3. ASSUME NEW r \in PRs, Commented(r)
      PROVE  BuildSlots'
  <2>1. \E l \in PCs \ BuildPCs : \E lv : Start(lv, l)
    <3>1. PICK cmd \in Commands, S \in {Apps} \cup {{a} : a \in Apps} :
            Start([Blank EXCEPT !.ev = cmd, !.pr = r, !.apps = S],
                  CASE cmd = "destroy" -> "list" [] cmd = "wake" -> "wakeList"
                    [] cmd = "redeploy" -> "redeploy")
      BY <1>3 DEF Commented
    <3> DEFINE l == CASE cmd = "destroy" -> "list" [] cmd = "wake" -> "wakeList"
                      [] cmd = "redeploy" -> "redeploy"
    <3>2. cmd \in {"destroy", "wake", "redeploy"}
      BY BusyAssumption
    <3>3. l \in PCs \ BuildPCs
      BY <1>0, <3>2
    <3>4. Start([Blank EXCEPT !.ev = cmd, !.pr = r, !.apps = S], l)
      BY <3>1
    <3> HIDE DEF l
    <3> QED
      BY <3>3, <3>4
  <2> QED
    BY <1>3, <2>1, StartKeepsSlots DEF Commented
<1>4. ASSUME NEW k \in Keys, Requested(k)
      PROVE  BuildSlots'
  BY <1>0, <1>4, StartKeepsSlots DEF Requested
<1>5. CASE Outage \/ Recovery \/ (\E r \in PRs : ForgetPR(r))
             \/ \E k \in Keys : Prune(k) \/ AppExits(k)
  <2>1. pc' = pc /\ sem' = sem
    BY <1>5 DEF Outage, Recovery, ForgetPR, Prune, AppExits
  <2> QED
    BY <2>1, SameKeepsSlots DEF IInv
<1>6. CASE Restart \/ \E k \in Keys : CliDestroy(k)
  BY <1>6, RebootKeepsSlots DEF Restart, CliDestroy
<1> QED
  BY <1>2, <1>3, <1>4, <1>5, <1>6 DEF Environment

LEMMA NextBuildSlots ==
  ASSUME IInv, Next
  PROVE  BuildSlots'
<1>1. CASE Environment
  BY <1>1, EnvironmentKeepsSlots
<1>2. CASE LoopStep \/ \E elapsed \in BOOLEAN : Tick(elapsed)
  BY <1>2, LoopMoves, LoopInProcs, MovesKeepsSlots, SameKeepsSlots DEF IInv
<1>3. CASE \E g \in Goroutines : GoroutineStep(g)
  <2>1. PICK g \in Goroutines : DeployStep(g) \/ HandlerStep(g)
    BY <1>3 DEF GoroutineStep
  <2>2. g \in Procs
    BY DEF Procs
  <2> QED
    BY <2>1, <2>2, DeployStepKeepsSlots, WakePutKeepsSlots, HandlerMoves,
       MovesKeepsSlots DEF IInv
<1> QED
  BY <1>1, <1>2, <1>3 DEF Next

LEMMA InitBuildSlots == Init => BuildSlots
<1> SUFFICES ASSUME Init PROVE BuildSlots
  OBVIOUS
<1>1. {s \in Procs : pc[s] \in BuildPCs} = {}
  BY DEF Init, BuildPCs
<1>2. Cardinality({}) = 0 /\ sem = 0
  BY FS_EmptySet DEF Init
<1> QED
  BY <1>1, <1>2, BuildsAssumption DEF BuildSlots

LEMMA StutterIInv ==
  ASSUME IInv, UNCHANGED vars
  PROVE  IInv'
BY DEF IInv, BuildSlots, vars

-----------------------------------------------------------------------------
(* The theorems.                                                           *)

LEMMA Invariant == Spec => []IInv
<1>1. Init => IInv
  BY InitTypeOK, InitBuildSlots DEF IInv
<1>2. IInv /\ [Next]_vars => IInv'
  BY NextTypeOK, NextBuildSlots, StutterIInv DEF IInv
<1> QED
  BY <1>1, <1>2, PTL DEF Spec

\* For every number of pull requests, apps, goroutines, build slots and
\* commits, and whatever the outside world does: the store holds well-formed
\* records, docker and GitHub what the model says they can hold, and every
\* goroutine is at a step of the code with well-formed locals.
THEOREM TypeCorrect == Spec => []TypeOK
<1>1. IInv => TypeOK
  BY DEF IInv
<1> QED
  BY <1>1, Invariant, PTL

\* buildImage's semaphore: at every moment the slots taken are exactly the
\* goroutines between its send and its deferred receive, and never more than
\* Limits.MaxConcurrentBuilds, on every path through checkout, build, error
\* and restart.
THEOREM BuildSlotsHeld == Spec => []BuildSlots
<1>1. IInv => BuildSlots
  BY DEF IInv
<1> QED
  BY <1>1, Invariant, PTL
=============================================================================
