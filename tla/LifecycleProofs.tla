---------------------------- MODULE LifecycleProofs ---------------------------
(***************************************************************************)
(* How previews live and end, one thing at a time: a record that says      *)
(* building is being built, previews live as Lifecycle promises, and pull  *)
(* requests that are closed leave nothing behind.  Two more invariants, on *)
(* top of SerialProofs' SeqInv and HostProofs' HostInv:                    *)
(*                                                                         *)
(*   ClosedInv  nothing of a closed pull request is being built, and what  *)
(*              it has left is being torn down                             *)
(*   CleanInv   networks, checkouts and Deployments belong to a record     *)
(***************************************************************************)
EXTENDS HostProofs

USE DEF TypeOK, DaemonTypeOK, DockerTypeOK, GithubTypeOK, ThreadTypeOK,
        TickTypeOK, WorldTypeOK, daemonVars, dockerVars, githubVars, tickVars,
        worldVars

-----------------------------------------------------------------------------
(* What most steps leave alone.                                            *)

Keeps(self) ==
  /\ Only(self) /\ Elsewhere(self) /\ UNCHANGED <<closed, prs>>
  /\ pc'[self] \notin {"closing", "opened", "redeploy", "environments", "list"}
  /\ \/ pc'[self] = "idle"
     \/ /\ loc'[self].ev = loc[self].ev /\ loc'[self].pr = loc[self].pr
        /\ pc[self] # "deploy" => loc'[self].app = loc[self].app

LEMMA KeepsBy ==
  ASSUME TypeOK, NEW self \in Procs, NEW lv \in Locals,
         lv.ev = loc[self].ev, lv.pr = loc[self].pr,
         lv.app = loc[self].app \/ pc[self] = "deploy",
         NEW l,
         l \notin {"closing", "opened", "redeploy", "environments", "list"},
         \/ Return(self, lv, l)
         \/ l \in Returns /\ PublishThen(self, lv, l)
         \/ Exit(self)
         \/ Jump(self, l) /\ SetLoc(self, lv)
         \/ Jump(self, l) /\ loc' = loc,
         store' = store \/ (\E p : Put(Key(self), p)),
         closed' = closed, prs' = prs
  PROVE  Keeps(self)
<1>1. Elsewhere(self)
  BY PutElsewhere DEF Elsewhere
<1>2. CASE \/ Return(self, lv, l)
           \/ l \in Returns /\ PublishThen(self, lv, l)
           \/ Exit(self)
  <2>1. /\ Only(self) /\ pc'[self] \in {"idle", "publish", l}
        /\ \/ pc'[self] = "idle"
           \/ /\ loc'[self].ev = lv.ev /\ loc'[self].pr = lv.pr
              /\ loc'[self].app = lv.app
    BY <1>2, ReturnKeeps
  <2> QED
    BY <1>1, <2>1 DEF Keeps
<1>3. CASE Jump(self, l) /\ SetLoc(self, lv)
  BY <1>1, <1>3, JumpOnly DEF Keeps
<1>4. CASE Jump(self, l) /\ loc' = loc
  BY <1>1, <1>4, StayOnly DEF Keeps
<1> QED
  BY <1>2, <1>3, <1>4

LEMMA KeepsStay ==
  ASSUME TypeOK, NEW self \in Procs, NEW l,
         l \notin {"closing", "opened", "redeploy", "environments", "list"},
         Jump(self, l), loc' = loc, UNCHANGED <<store, closed, prs>>
  PROVE  Keeps(self)
BY StayOnly DEF Keeps, Elsewhere

\* The copy in hand may change.
LEMMA KeepsCopy ==
  ASSUME NEW lv \in Locals, NEW p \in Preview
  PROVE  LET new == [lv EXCEPT !.p = p] IN
           /\ new \in Locals /\ new.ev = lv.ev
           /\ new.pr = lv.pr /\ new.app = lv.app
BY InHand

LEMMA DeployKeeps ==
  ASSUME TypeOK, NEW self \in Procs, DeployStep(self)
  PROVE  Keeps(self)
<1> DEFINE lv == loc[self]
<1>1. lv \in Locals /\ lv.p \in Preview /\ lv.ret \in Returns /\ lv.sha \in Commits \cup {0}
  BY LocalType
<1>2. CASE NextApp(self)
  <2>1. PICK a \in lv.apps : SetLoc(self, [lv EXCEPT !.app = a, !.apps = @ \ {a},
                   !.p = [store[<<lv.pr, a>>] EXCEPT !.status = "building"]])
    BY <1>2 DEF NextApp
  <2> DEFINE new == [lv EXCEPT !.app = a, !.apps = @ \ {a},
                   !.p = [store[<<lv.pr, a>>] EXCEPT !.status = "building"]]
  <2>2. new.ev = lv.ev /\ new.pr = lv.pr
    BY <1>1 DEF Locals
  <2>3. \E l \in {"capacity", "put"} : Jump(self, l)
    BY <1>2 DEF NextApp
  <2>4. Only(self) /\ pc'[self] \in {"capacity", "put"} /\ loc'[self] = new
    BY <2>1, <2>3, JumpOnly
  <2> HIDE DEF new
  <2> QED
    BY <1>2, <2>2, <2>4 DEF Keeps, NextApp, Elsewhere
<1>3. CASE CheckCapacity(self) \/ RecordFailure(self) \/ TearDelete(self)
  <2>1. \E l \in Returns \cup {"put", "failPut"} : Return(self, lv, l)
    BY <1>1, <1>3 DEF CheckCapacity, RecordFailure, TearDelete, Returns, LoopHeads
  <2> QED
    BY <1>1, <1>3, <2>1, KeepsBy
       DEF CheckCapacity, RecordFailure, TearDelete, Returns, LoopHeads
<1>4. CASE PutBuilding(self)
  <2>1. "acquire" \in Returns
    BY DEF Returns
  <2> QED
    BY <1>1, <1>4, <2>1, KeepsBy DEF PutBuilding
<1>5. CASE Publish(self)
  <2>1. CASE CreateDeployment(self, Key(self))
    <3> DEFINE p == [lv.p EXCEPT !.dep = FreshDep]
    <3>1. FreshDep \in Deps
      BY <2>1, FreshDepType DEF CreateDeployment
    <3>2. p \in Preview
      BY <1>1, <3>1 DEF Preview
    <3>3. /\ Put(Key(self), p) /\ Return(self, [lv EXCEPT !.p = p], lv.ret)
          /\ UNCHANGED <<closed, prs>>
      BY <1>5, <2>1 DEF CreateDeployment, Publish
    <3> HIDE DEF p
    <3>4. lv.ret \notin {"closing", "opened", "redeploy", "environments", "list"}
      BY <1>1 DEF Returns, LoopHeads
    <3> QED
      BY <1>1, <3>2, <3>3, <3>4, KeepsCopy, KeepsBy
  <2>2. CASE SetDeploymentStatus(self, Key(self)) \/ PublishFails(self)
    <3>1. lv.ret \notin {"closing", "opened", "redeploy", "environments", "list"}
      BY <1>1 DEF Returns, LoopHeads
    <3> QED
      BY <1>1, <1>5, <2>2, <3>1, KeepsBy
         DEF SetDeploymentStatus, PublishFails, Publish
  <2> QED
    BY <1>5, <2>1, <2>2 DEF Publish
<1>6. CASE Acquire(self) \/ Clean(self) \/ FetchSource(self) \/ BuildImage(self)
             \/ EnsureNetwork(self) \/ AwaitReady(self) \/ TearHost(self)
  <2>1. \E l \in PCs \ {"closing", "opened", "redeploy", "environments", "list"} :
          Jump(self, l)
    BY <1>6 DEF Acquire, Clean, FetchSource, BuildImage, EnsureNetwork, AwaitReady,
                TearHost, LeaveBuild, PCs
  <2>2. UNCHANGED <<loc, store, closed, prs>>
    BY <1>6 DEF Acquire, Clean, FetchSource, BuildImage, EnsureNetwork, AwaitReady,
                TearHost
  <2> QED
    BY <1>1, <2>1, <2>2, KeepsBy
<1>7. CASE Built(self)
  <2>1. Return(self, lv, "deploy") \/ (Jump(self, "network") /\ loc' = loc)
    BY <1>7 DEF Built
  <2>2. UNCHANGED <<store, closed, prs>>
    BY <1>7 DEF Built
  <2> QED
    BY <1>1, <2>1, <2>2, KeepsBy
<1>8. CASE Run(self) \/ IsReady(self)
  <2>1. \E new \in Locals : \E l \in {"ready", "fail", "tearHost", "commit"} :
          /\ Jump(self, l) /\ (SetLoc(self, new) \/ loc' = loc)
          /\ new.ev = lv.ev /\ new.pr = lv.pr /\ new.app = lv.app
    <3>1. CASE Run(self)
      <4>1. CASE DockerRunOk(self, Key(self), lv.sha)
        <5> DEFINE new == [lv EXCEPT !.p.cid = FreshCid]
        <5>1. FreshCid \in Cids
          BY <4>1, FreshCidType DEF DockerRunOk
        <5>2. new \in Locals /\ new.ev = lv.ev /\ new.pr = lv.pr /\ new.app = lv.app
          BY <1>1, <5>1 DEF Locals, Preview
        <5>3. SetLoc(self, new)
          BY <4>1 DEF DockerRunOk
        <5>4. \E l \in {"ready", "fail", "tearHost", "commit"} : Jump(self, l)
          BY <3>1 DEF Run
        <5> HIDE DEF new
        <5> QED
          BY <5>2, <5>3, <5>4
      <4>2. CASE loc' = loc
        BY <1>1, <3>1, <4>2 DEF Run
      <4> QED
        BY <3>1, <4>1, <4>2 DEF Run
    <3>2. CASE IsReady(self)
      <4> DEFINE new == [lv EXCEPT !.p.img = lv.sha, !.ret = "deploy"]
      <4>1. new \in Locals /\ new.ev = lv.ev /\ new.pr = lv.pr /\ new.app = lv.app
        BY <1>1 DEF Locals, Preview, Returns, LoopHeads
      <4>2. SetLoc(self, new) \/ loc' = loc
        BY <3>2 DEF IsReady
      <4>3. \E l \in {"ready", "fail", "tearHost", "commit"} : Jump(self, l)
        BY <3>2 DEF IsReady
      <4> HIDE DEF new
      <4> QED
        BY <4>1, <4>2, <4>3
    <3> QED
      BY <1>8, <3>1, <3>2
  <2>2. UNCHANGED <<store, closed, prs>>
    BY <1>8 DEF Run, IsReady
  <2>3. PICK new \in Locals, l \in {"ready", "fail", "tearHost", "commit"} :
          /\ Jump(self, l) /\ (SetLoc(self, new) \/ loc' = loc)
          /\ new.ev = lv.ev /\ new.pr = lv.pr /\ new.app = lv.app
    BY <2>1
  <2> QED
    BY <2>2, <2>3, KeepsBy
<1>9. CASE Commit(self) \/ PutFailed(self)
  <2>1. \E p \in Preview : Put(Key(self), p)
                           /\ PublishThen(self, [lv EXCEPT !.p = p], "deploy")
    <3>1. CASE Commit(self)
      BY <1>1, <3>1, GoLiveType DEF Commit
    <3>2. CASE PutFailed(self)
      <4>1. [lv.p EXCEPT !.status = "failed"] \in Preview
        BY <1>1 DEF Preview, Status
      <4> QED
        BY <3>2, <4>1 DEF PutFailed
    <3> QED
      BY <1>9, <3>1, <3>2
  <2>2. "deploy" \in Returns /\ UNCHANGED <<closed, prs>>
    BY <1>9 DEF Returns, LoopHeads, Commit, PutFailed
  <2>3. PICK p \in Preview : Put(Key(self), p)
                           /\ PublishThen(self, [lv EXCEPT !.p = p], "deploy")
    BY <2>1
  <2> DEFINE new == [lv EXCEPT !.p = p]
  <2>4. new \in Locals /\ new.ev = lv.ev /\ new.pr = lv.pr /\ new.app = lv.app
    BY <1>1, KeepsCopy
  <2>5. PublishThen(self, new, "deploy") /\ (\E q : Put(Key(self), q))
    BY <2>3
  <2> HIDE DEF new
  <2> QED
    BY <2>2, <2>4, <2>5, KeepsBy
<1> QED
  BY <1>2, <1>3, <1>4, <1>5, <1>6, <1>7, <1>8, <1>9 DEF DeployStep

\* The steps of a request, of a redeploy and of Tick.
LEMMA HandlerKeeps ==
  ASSUME TypeOK, SeqInv, NEW self \in Procs,
         \/ Redeploy(self) \/ Resolve(self) \/ Touch(self) \/ Wake(self)
         \/ Recreate(self) \/ RunAgain(self) \/ Probe(self)
  PROVE  Keeps(self)
<1> DEFINE lv == loc[self]
<1>1. lv \in Locals /\ lv.p \in Preview /\ lv.ret \in Returns
  BY LocalType
<1>2. lv.ret \notin {"closing", "opened", "redeploy", "environments", "list"}
  BY <1>1 DEF Returns, LoopHeads
<1>3. CASE Redeploy(self)
  <2> DEFINE new == [lv EXCEPT !.sha = head[lv.pr]]
  <2>1. new \in Locals /\ new.ev = lv.ev /\ new.pr = lv.pr /\ new.app = lv.app
    BY <1>1 DEF Locals
  <2>2. /\ Return(self, new, "deploy") \/ Exit(self)
        /\ UNCHANGED <<store, closed, prs>>
    BY <1>3 DEF Redeploy
  <2> HIDE DEF new
  <2>3. CASE Return(self, new, "deploy")
    BY <2>1, <2>2, <2>3, KeepsBy
  <2>4. CASE Exit(self)
    <3>1. "idle" \notin {"closing", "opened", "redeploy", "environments", "list"}
      OBVIOUS
    <3> QED
      BY <2>1, <2>2, <2>4, <3>1, KeepsBy
  <2> QED
    BY <2>2, <2>3, <2>4
<1>4. CASE Resolve(self)
  <2>1. store[Key(self)] \in Preview
    BY KeyType
  <2> DEFINE new == [lv EXCEPT !.p = store[Key(self)]]
  <2>2. new \in Locals /\ new.ev = lv.ev /\ new.pr = lv.pr /\ new.app = lv.app
    BY <1>1, <2>1, KeepsCopy
  <2>3. /\ \/ Jump(self, "touch") /\ SetLoc(self, new)
           \/ Jump(self, "wake") /\ SetLoc(self, new)
           \/ Exit(self)
        /\ UNCHANGED <<store, closed, prs>>
    BY <1>4 DEF Resolve
  <2> HIDE DEF new
  <2>4. CASE \E l \in {"touch", "wake"} : Jump(self, l) /\ SetLoc(self, new)
    BY <2>2, <2>3, <2>4, KeepsBy
  <2>5. CASE Exit(self)
    <3>1. "idle" \notin {"closing", "opened", "redeploy", "environments", "list"}
      OBVIOUS
    <3> QED
      BY <1>1, <2>3, <2>5, <3>1, KeepsBy
  <2> QED
    BY <2>3, <2>4, <2>5
<1>5. CASE Touch(self)
  <2>1. Exit(self) /\ (\E p : Put(Key(self), p)) /\ UNCHANGED <<closed, prs>>
    BY <1>5 DEF Touch
  <2>2. "idle" \notin {"closing", "opened", "redeploy", "environments", "list"}
    OBVIOUS
  <2> QED
    BY <1>1, <2>1, <2>2, KeepsBy
<1>6. CASE Wake(self) \/ Recreate(self) \/ RunAgain(self) \/ Probe(self)
  <2>1. UNCHANGED <<store, closed, prs>>
    BY <1>6 DEF Wake, Recreate, RunAgain, Probe
  <2>2. CASE Return(self, lv, lv.ret)
    BY <1>1, <1>2, <2>1, <2>2, KeepsBy
  <2>3. CASE \E l \in {"probe", "recreate", "rerun", "wakePut", "healFail"} :
               Jump(self, l) /\ loc' = loc
    BY <1>1, <2>1, <2>3, KeepsBy
  <2>4. CASE \E l \in {"probe", "healPut"} :
               Jump(self, l) /\ DockerRunOk(self, Key(self), lv.p.img)
    <3> DEFINE new == [lv EXCEPT !.p.cid = FreshCid]
    <3>1. FreshCid \in Cids
      BY <2>4, FreshCidType DEF DockerRunOk
    <3>2. new \in Locals /\ new.ev = lv.ev /\ new.pr = lv.pr /\ new.app = lv.app
      BY <1>1, <3>1 DEF Locals, Preview
    <3>3. SetLoc(self, new)
      BY <2>4 DEF DockerRunOk
    <3> HIDE DEF new
    <3> QED
      BY <2>1, <2>4, <3>2, <3>3, KeepsBy
  <2> QED
    BY <1>6, <2>2, <2>3, <2>4
       DEF Wake, Recreate, RunAgain, Probe, WakeFailed, RecreateFailed
<1> QED
  BY <1>3, <1>4, <1>5, <1>6

\* Tick, but for Scan, which goes from preview to preview.
LEMMA LoopKeeps ==
  ASSUME TypeOK, SeqInv, LoopStep
  PROVE  /\ Only(Loop) /\ Elsewhere(Loop) /\ UNCHANGED <<closed, prs>>
         /\ pc'[Loop] \notin {"closing", "opened", "redeploy", "environments", "list"}
         /\ pc'[Loop] = "idle" \/ loc'[Loop].ev = loc[Loop].ev
         /\ ~Scan => Keeps(Loop)
<1> DEFINE lv == loc[Loop]
<1>1. Loop \in Procs /\ lv \in Locals /\ lv.p \in Preview
  BY LoopInProcs, LocalType
<1>2. CASE Scan
  <2>1. PICK k \in Pending(Loop) :
          /\ Jump(Loop, Verdict(lv.todo[k], managed[k]))
          /\ SetLoc(Loop, Take(Loop, k, "scan"))
          /\ UNCHANGED <<store, closed, prs>>
    BY <1>2 DEF Scan, Take
  <2>2. "scan" \in Returns
    BY DEF Returns, LoopHeads
  <2>3. Take(Loop, k, "scan").ev = lv.ev
    BY <1>1, <2>2, Taken
  <2>4. Verdict(lv.todo[k], managed[k]) \in {"tearHost", "recreate", "sleep", "scan"}
    BY VerdictSteps
  <2>5. /\ Only(Loop) /\ pc'[Loop] = Verdict(lv.todo[k], managed[k])
        /\ loc'[Loop] = Take(Loop, k, "scan")
    BY <1>1, <2>1, JumpOnly
  <2>6. ~Scan => Keeps(Loop)
    BY <1>2
  <2> QED
    BY <2>1, <2>3, <2>4, <2>5, <2>6 DEF Elsewhere
<1>3. CASE ListManaged
  <2> DEFINE todo == [k \in Keys |-> IF Verdict(lv.todo[k], managed'[k]) = "scan"
                                     THEN Absent ELSE lv.todo[k]]
             new  == [lv EXCEPT !.todo = todo]
  <2>1. todo \in [Keys -> Preview]
    BY <1>1, LocalType, AbsentType
  <2>2. new \in Locals /\ new.ev = lv.ev /\ new.pr = lv.pr /\ new.app = lv.app
    BY <1>1, <2>1 DEF Locals
  <2>3. /\ Jump(Loop, "scan") /\ SetLoc(Loop, new)
        /\ UNCHANGED <<store, closed, prs>>
    BY <1>3 DEF ListManaged, LoopDo, Goto
  <2> HIDE DEF new
  <2>4. Keeps(Loop)
    BY <1>1, <2>2, <2>3, KeepsBy
  <2> QED
    BY <2>4 DEF Keeps
<1>4. CASE HealPut \/ HealFail \/ SleepPut
  <2>1. PICK p \in Preview : HealWrite(p)
    <3>1. CASE HealPut
      BY <1>1, <3>1, LivePreview DEF HealPut
    <3>2. CASE HealFail
      BY <1>1, <3>2, PreviewFields DEF HealFail, Status
    <3>3. CASE SleepPut
      BY <1>1, <3>3, PreviewFields DEF SleepPut, Status
    <3> QED
      BY <1>4, <3>1, <3>2, <3>3
  <2> DEFINE new == [lv EXCEPT !.p = p]
  <2>2. new \in Locals /\ new.ev = lv.ev /\ new.pr = lv.pr /\ new.app = lv.app
    BY <1>1, KeepsCopy
  <2>3. /\ PublishThen(Loop, new, "scan") /\ (\E q : Put(Key(Loop), q))
        /\ UNCHANGED <<closed, prs>>
    BY <2>1 DEF HealWrite
  <2> HIDE DEF new
  <2>4. "scan" \in Returns
    BY DEF Returns, LoopHeads
  <2>5. Keeps(Loop)
    BY <1>1, <2>2, <2>3, <2>4, KeepsBy
  <2> QED
    BY <2>5 DEF Keeps
<1>5. CASE Sleep \/ Reap \/ ReapDirs
  <2>1. CASE Sleep
    <3>1. /\ \/ Jump(Loop, "sleepPut") /\ loc' = loc
             \/ Return(Loop, lv, "scan")
          /\ UNCHANGED <<store, closed, prs>>
      BY <2>1 DEF Sleep
    <3>2. ASSUME Jump(Loop, "sleepPut"), loc' = loc PROVE Keeps(Loop)
      BY <1>1, <3>1, <3>2, KeepsStay
    <3>3. ASSUME Return(Loop, lv, "scan") PROVE Keeps(Loop)
      BY <1>1, <3>1, <3>3, KeepsBy
    <3>4. Keeps(Loop)
      BY <3>1, <3>2, <3>3
    <3> QED
      BY <3>4 DEF Keeps
  <2>2. CASE Reap
    <3>1. Keeps(Loop)
      BY <1>1, <2>2 DEF Reap, Keeps, Only, Elsewhere
    <3> QED
      BY <3>1 DEF Keeps
  <2>3. CASE ReapDirs
    <3>1. Exit(Loop) /\ UNCHANGED <<store, closed, prs>>
      BY <2>3 DEF ReapDirs
    <3>2. "idle" \notin {"closing", "opened", "redeploy", "environments", "list"}
      OBVIOUS
    <3>3. Keeps(Loop)
      BY <1>1, <3>1, <3>2, KeepsBy
    <3> QED
      BY <3>3 DEF Keeps
  <2> QED
    BY <1>5, <2>1, <2>2, <2>3
<1>6. CASE \/ Publish(Loop) \/ TearHost(Loop) \/ TearDelete(Loop)
           \/ Recreate(Loop) \/ RunAgain(Loop)
  <2>1. Keeps(Loop)
    BY <1>1, <1>6, DeployKeeps, HandlerKeeps DEF DeployStep
  <2> QED
    BY <2>1 DEF Keeps
<1> QED
  BY <1>2, <1>3, <1>4, <1>5, <1>6 DEF LoopStep

-----------------------------------------------------------------------------
(* Closed pull requests.                                                   *)

\* No webhook is lost, and nobody comments on a closed pull request.
Heard == Faults \cap {"lost", "lateComment"} = {}

\* The teardown of the pull request's end, at s, is still to take preview k.
WillEnd(s, k) ==
  /\ loc[s].ev = "closed"
  /\ \/ pc[s] \in {"environments", "list"} /\ loc[s].pr = k[1]
     \/ pc[s] \in TearSteps \ {"list"} /\ loc[s].todo[k] # Absent
     \/ pc[s] \in Tearing /\ Key(s) = k

\* Goroutine s deploys for an event of a pull request.
Deploying(s) == /\ loc[s].ev \in {"opened", "redeploy"}
                /\ pc[s] \in DeploySteps \cup {"redeploy"}

ClosedInv ==
  /\ \A r \in closed : prs[r] = "open" =>
       \E s \in Procs : pc[s] = "opened" /\ loc[s].pr = r
  /\ \A s \in Procs : /\ pc[s] = "closing" => prs[loc[s].pr] # "open"
                      /\ Deploying(s) => loc[s].pr \notin closed
  /\ \A k \in Keys : k[1] \in closed /\ store[k] # Absent =>
       \E s \in Procs : WillEnd(s, k)

LEMMA OnlyOneBusy ==
  ASSUME TypeOK, SeqInv, NEW self \in Procs, pc[self] # "idle"
  PROVE  \A s \in Procs : pc[s] # "idle" => s = self
BY DEF SeqInv, Alone

\* Another event than its end finds nothing of a closed pull request.
LEMMA NoneClosed ==
  ASSUME TypeOK, SeqInv, ClosedInv, NEW self \in Procs, pc[self] # "idle",
         loc[self].ev # "closed" \/ pc[self] = "closing",
         NEW k \in Keys, k[1] \in closed
  PROVE  store[k] = Absent
<1>1. \A s \in Procs : WillEnd(s, k) => s = self
  BY OnlyOneBusy DEF WillEnd, TearSteps, Tearing
<1>2. ~WillEnd(self, k)
  BY DEF WillEnd, TearSteps, Tearing
<1> QED
  BY <1>1, <1>2 DEF ClosedInv

LEMMA NoneClosedAtRest ==
  ASSUME TypeOK, ClosedInv, \A s \in Procs : pc[s] = "idle"
  PROVE  /\ \A k \in Keys : k[1] \in closed => store[k] = Absent
         /\ \A r \in closed : prs[r] # "open"
BY DEF ClosedInv, WillEnd, TearSteps, Tearing

\* After a step of the goroutine that is busy.
LEMMA ClosedStep ==
  ASSUME TypeOK, SeqInv, ClosedInv, NEW self \in Procs, pc[self] # "idle",
         Only(self), prs' = prs, closed' \subseteq closed,
         pc[self] = "opened" => loc[self].pr \notin closed',
         pc'[self] \notin {"closing", "opened"},
         Deploying(self)' => loc'[self].pr \notin closed',
         \A k \in Keys : k[1] \in closed' /\ store'[k] # Absent => WillEnd(self, k)'
  PROVE  ClosedInv'
<1>1. \A s \in Procs \ {self} : pc[s] = "idle" /\ pc'[s] = "idle"
  BY OnlyOneBusy DEF Only
<1>2. \A r \in closed' : prs'[r] # "open"
  BY <1>1 DEF ClosedInv
<1>3. \A s \in Procs : /\ pc'[s] = "closing" => prs'[loc'[s].pr] # "open"
                       /\ Deploying(s)' => loc'[s].pr \notin closed'
  BY <1>1 DEF Deploying, DeploySteps
<1> QED
  BY <1>2, <1>3 DEF ClosedInv

\* Events other than the end of a pull request.
LEMMA OtherClosed ==
  ASSUME TypeOK, SeqInv, ClosedInv, NEW self \in Procs, pc[self] # "idle",
         loc[self].ev # "closed",
         Only(self), Elsewhere(self), prs' = prs, closed' \subseteq closed,
         pc[self] = "opened" => loc[self].pr \notin closed',
         pc'[self] \notin {"closing", "opened", "redeploy"},
         pc'[self] = "idle" \/
           /\ loc'[self].ev = loc[self].ev
           /\ loc[self].ev \in {"opened", "redeploy"} => loc'[self].pr = loc[self].pr,
         store[Key(self)] = Absent => store'[Key(self)] = Absent \/ Deploying(self)
  PROVE  ClosedInv'
<1>1. loc[self].ev \in {"opened", "redeploy"} =>
        Deploying(self) \/ pc[self] = "opened"
  BY Busy1 DEF OnItsWay, Deploying
<1>2. Deploying(self)' => loc'[self].pr \notin closed'
  BY <1>1 DEF ClosedInv, Deploying, DeploySteps
<1>3. \A k \in Keys : k[1] \in closed' => store'[k] = Absent
  <2> SUFFICES ASSUME NEW k \in Keys, k[1] \in closed' PROVE store'[k] = Absent
    OBVIOUS
  <2>1. store[k] = Absent
    BY NoneClosed
  <2>2. CASE k # Key(self)
    BY <2>1, <2>2 DEF Elsewhere
  <2>3. CASE k = Key(self)
    <3>1. loc[self].pr \in closed
      BY <2>3 DEF Key
    <3>2. ~Deploying(self)
      BY <3>1 DEF ClosedInv
    <3> QED
      BY <2>1, <2>3, <3>2
  <2> QED
    BY <2>2, <2>3
<1> QED
  BY <1>2, <1>3, ClosedStep

LEMMA KeepsClosed ==
  ASSUME TypeOK, SeqInv, ClosedInv, NEW self \in Procs, pc[self] # "idle",
         loc[self].ev # "closed", pc[self] # "opened", Keeps(self),
         store[Key(self)] = Absent => store'[Key(self)] = Absent \/ Deploying(self)
  PROVE  ClosedInv'
BY OtherClosed DEF Keeps

\* Where in an end its steps are.
LEMMA EndPlace ==
  ASSUME TypeOK, SeqInv, NEW self \in Procs, pc[self] # "idle"
  PROVE  /\ pc[self] \in {"closing", "environments"} => loc[self].ev = "closed"
         /\ loc[self].ev = "closed" =>
              pc[self] \in {"closing", "environments"} \cup TearSteps
         /\ loc[self].ev = "closed" /\ pc[self] \in Tearing =>
              loc[self].ret = "tearNext"
BY Busy1 DEF OnItsWay, TearSteps, Tearing, RequestSteps, TickSteps, DeploySteps

\* The steps of an end.
LEMMA EndClosed ==
  ASSUME TypeOK, SeqInv, ClosedInv, NEW self \in Procs, pc[self] # "idle",
         loc[self].ev = "closed", pc[self] # "closing",
         Only(self), prs' = prs, closed' = closed,
         pc'[self] \notin {"closing", "opened"},
         pc'[self] = "idle" \/ loc'[self].ev = "closed",
         \A k \in Keys : store'[k] # Absent /\ WillEnd(self, k) => WillEnd(self, k)',
         \A k \in Keys : store'[k] # Absent => store[k] # Absent
  PROVE  ClosedInv'
<1>1. pc[self] # "opened"
  BY EndPlace DEF TearSteps, Tearing
<1>2. ~Deploying(self)'
  BY DEF Deploying, DeploySteps
<1>3. \A k \in Keys : k[1] \in closed' /\ store'[k] # Absent => WillEnd(self, k)'
  <2> SUFFICES ASSUME NEW k \in Keys, k[1] \in closed, store'[k] # Absent
               PROVE  WillEnd(self, k)'
    OBVIOUS
  <2>1. PICK s \in Procs : WillEnd(s, k)
    BY DEF ClosedInv
  <2>2. s = self
    BY <2>1, OnlyOneBusy DEF WillEnd, TearSteps, Tearing
  <2> QED
    BY <2>1, <2>2
<1> QED
  BY <1>1, <1>2, <1>3, ClosedStep

LEMMA DeployWrites ==
  ASSUME TypeOK, SeqInv, NEW self \in Procs, DeployStep(self)
  PROVE  /\ pc[self] # "idle"
         /\ store[Key(self)] = Absent => store' = store \/ pc[self] = "put"
<1>1. pc[self] # "idle"
  BY DEF DeployStep, NextApp, CheckCapacity, PutBuilding, Publish, Acquire, Clean,
         FetchSource, BuildImage, Built, EnsureNetwork, Run, AwaitReady, IsReady,
         Commit, RecordFailure, PutFailed, TearHost, TearDelete
<1>2. store' = store \/ pc[self] \in {"put"} \cup Same \cup Ahead \cup Tearing
  BY DEF DeployStep, NextApp, CheckCapacity, PutBuilding, Publish, Acquire, Clean,
         FetchSource, BuildImage, Built, EnsureNetwork, Run, AwaitReady, IsReady,
         Commit, RecordFailure, PutFailed, TearHost, TearDelete, Same, Ahead, Tearing
<1> QED
  BY <1>1, <1>2, WritesOver

\* The two steps of a teardown.
LEMMA TearWillEnd ==
  ASSUME TypeOK, SeqInv, NEW self \in Procs, TearHost(self) \/ TearDelete(self),
         loc[self].ev = "closed"
  PROVE  /\ pc'[self] = "idle" \/ loc'[self].ev = "closed"
         /\ \A k \in Keys : store'[k] # Absent /\ WillEnd(self, k) => WillEnd(self, k)'
         /\ \A k \in Keys : store'[k] # Absent => store[k] # Absent
<1>1. loc[self] \in Locals /\ loc[self].ret = "tearNext"
  BY LocalType, EndPlace DEF TearHost, TearDelete, Tearing
<1>2. CASE TearHost(self)
  <2>1. pc[self] = "tearHost" /\ Jump(self, "tearDelete") /\ loc' = loc /\ store' = store
    BY <1>2 DEF TearHost
  <2>2. pc'[self] = "tearDelete" /\ loc'[self] = loc[self]
    BY <2>1, StayOnly
  <2> QED
    BY <2>1, <2>2 DEF WillEnd, TearSteps, Tearing, Key
<1>3. CASE TearDelete(self)
  <2>1. /\ pc[self] = "tearDelete" /\ Put(Key(self), Absent)
        /\ Return(self, loc[self], "tearNext")
    BY <1>1, <1>3 DEF TearDelete
  <2>2. Only(self) /\ pc'[self] = "tearNext"
    BY <2>1, ReturnOnly DEF Return, Exit, Jump
  <2>3. loc'[self].ev = loc[self].ev /\ loc'[self].todo = loc[self].todo
    BY <1>1, <2>1, <2>2, ReturnKeeps
  <2>4. Elsewhere(self) /\ store'[Key(self)] = Absent
    BY <2>1, PutElsewhere
  <2>5. \A k \in Keys : store'[k] # Absent => k # Key(self) /\ store[k] # Absent
    BY <2>4 DEF Elsewhere
  <2> QED
    BY <2>1, <2>2, <2>3, <2>5 DEF WillEnd, TearSteps, Tearing
<1> QED
  BY <1>2, <1>3

LEMMA DeployClosed ==
  ASSUME TypeOK, SeqInv, ClosedInv, NEW self \in Procs, DeployStep(self)
  PROVE  ClosedInv'
<1>1. /\ pc[self] \notin {"idle", "opened", "closing"} /\ Keeps(self)
      /\ store[Key(self)] = Absent => store' = store \/ pc[self] = "put"
  <2>1. pc[self] \notin {"opened", "closing"}
    BY DEF DeployStep, NextApp, CheckCapacity, PutBuilding, Publish, Acquire, Clean,
           FetchSource, BuildImage, Built, EnsureNetwork, Run, AwaitReady, IsReady,
           Commit, RecordFailure, PutFailed, TearHost, TearDelete
  <2> QED
    BY <2>1, DeployKeeps, DeployWrites
<1>2. CASE loc[self].ev # "closed"
  <2>1. pc[self] = "put" => Deploying(self)
    BY DeployPlace DEF Deploying, DeploySteps, Tearing
  <2> QED
    BY <1>1, <1>2, <2>1, KeepsClosed
<1>3. CASE loc[self].ev = "closed"
  <2>1. pc[self] \in Tearing
    <3>1. pc[self] \in TearSteps
      BY <1>1, <1>3, EndPlace
           DEF DeployStep, NextApp, CheckCapacity, PutBuilding, Publish, Acquire,
               Clean, FetchSource, BuildImage, Built, EnsureNetwork, Run,
               AwaitReady, IsReady, Commit, RecordFailure, PutFailed, TearHost,
               TearDelete
    <3> QED
      BY <3>1 DEF TearSteps, Tearing, DeployStep, NextApp, CheckCapacity,
               PutBuilding, Publish, Acquire, Clean, FetchSource, BuildImage, Built,
               EnsureNetwork, Run, AwaitReady, IsReady, Commit, RecordFailure,
               PutFailed, TearHost, TearDelete
  <2>2. TearHost(self) \/ TearDelete(self)
    BY <2>1 DEF Tearing, DeployStep, NextApp, CheckCapacity, PutBuilding,
               Publish, Acquire, Clean, FetchSource, BuildImage, Built,
               EnsureNetwork, Run, AwaitReady, IsReady, Commit, RecordFailure,
               PutFailed
  <2>3. /\ pc'[self] = "idle" \/ loc'[self].ev = "closed"
        /\ \A k \in Keys : store'[k] # Absent /\ WillEnd(self, k) => WillEnd(self, k)'
        /\ \A k \in Keys : store'[k] # Absent => store[k] # Absent
    BY <1>3, <2>2, TearWillEnd
  <2> QED
    BY <1>1, <1>3, <2>3, EndClosed DEF Keeps
<1> QED
  BY <1>2, <1>3

LEMMA HandleClosedClosed ==
  ASSUME TypeOK, SeqInv, ClosedInv, NEW self \in Procs, HandleClosed(self)
  PROVE  ClosedInv'
<1>1. /\ pc[self] = "closing" /\ loc[self].ev = "closed"
      /\ Only(self) /\ pc'[self] = "environments" /\ loc'[self] = loc[self]
      /\ closed' = closed \cup {loc[self].pr} /\ store' = store /\ prs' = prs
  BY EndPlace, StayOnly DEF HandleClosed, Goto
<1>2. \A s \in Procs \ {self} : pc[s] = "idle" /\ pc'[s] = "idle"
  BY <1>1, OnlyOneBusy DEF Only
<1>3. \A r \in closed' : prs'[r] # "open"
  BY <1>1, <1>2 DEF ClosedInv
<1>4. \A k \in Keys : k[1] \in closed' /\ store'[k] # Absent => WillEnd(self, k)'
  BY <1>1, NoneClosed DEF WillEnd
<1>5. \A s \in Procs : pc'[s] # "closing" /\ ~Deploying(s)'
  BY <1>1, <1>2 DEF Deploying, DeploySteps
<1> QED
  BY <1>3, <1>4, <1>5 DEF ClosedInv

LEMMA EndsClosed ==
  ASSUME TypeOK, SeqInv, ClosedInv, NEW self \in Procs,
         \/ PreviewEnvironments(self) \/ ListForTeardown(self)
         \/ TearNext(self) \/ TornDown(self)
  PROVE  ClosedInv'
<1> DEFINE lv == loc[self]
<1>0. /\ lv \in Locals /\ lv.todo \in [Keys -> Preview]
      /\ pc[self] \in {"environments", "list", "tearNext"}
      /\ UNCHANGED <<store, closed, prs>>
  BY LocalType DEF PreviewEnvironments, ListForTeardown, TearNext, TornDown, Goto
<1>1. CASE PreviewEnvironments(self)
  <2> DEFINE new == [lv EXCEPT !.apps = {a \in Apps : <<lv.pr, a>> \in Live}]
  <2>1. /\ new.ev = lv.ev /\ new.pr = lv.pr
    BY <1>0 DEF Locals
  <2>2. /\ pc[self] = "environments" /\ Only(self) /\ pc'[self] = "list"
        /\ loc'[self] = new
    BY <1>1, JumpOnly DEF PreviewEnvironments, Goto
  <2> HIDE DEF new
  <2>3. lv.ev = "closed"
    BY <2>2, EndPlace
  <2> QED
    BY <1>0, <2>1, <2>2, <2>3, EndClosed DEF WillEnd, TearSteps, Tearing
<1>2. CASE ListForTeardown(self)
  <2> DEFINE new == [lv EXCEPT !.todo = Snapshot(OfCommand(self))]
  <2>1. /\ new.ev = lv.ev /\ new.pr = lv.pr /\ new.todo = Snapshot(OfCommand(self))
    BY <1>0 DEF Locals
  <2>2. /\ pc[self] = "list" /\ Only(self) /\ pc'[self] = "tearNext"
        /\ loc'[self] = new
    BY <1>2, JumpOnly DEF ListForTeardown, Goto
  <2> HIDE DEF new
  <2>3. CASE lv.ev = "closed"
    <3>1. \A k \in Keys : k[1] = lv.pr => new.todo[k] = store[k]
      BY <2>1, <2>3 DEF Snapshot, OfCommand
    <3> QED
      BY <1>0, <2>1, <2>2, <2>3, <3>1, EndClosed DEF WillEnd, TearSteps, Tearing
  <2>4. CASE lv.ev # "closed"
    <3>1. lv.ev = "destroy"
      BY <2>2, <2>4, Busy1 DEF OnItsWay, DeploySteps, RequestSteps, TickSteps
    <3> QED
      BY <1>0, <2>1, <2>2, <3>1, OtherClosed DEF Elsewhere
  <2> QED
    BY <2>3, <2>4
<1>3. CASE TearNext(self)
  <2>1. PICK k \in Pending(self) :
          pc[self] = "tearNext" /\ Jump(self, "tearHost")
            /\ SetLoc(self, Take(self, k, "tearNext"))
    BY <1>3 DEF TearNext, Goto, Take
  <2>2. "tearNext" \in Returns /\ k \in Keys
    BY DEF Returns, LoopHeads, Pending
  <2>3. /\ Only(self) /\ pc'[self] = "tearHost"
        /\ loc'[self] = Take(self, k, "tearNext")
    BY <2>1, JumpOnly
  <2>4. /\ loc'[self].ev = lv.ev /\ KeyOf(loc'[self]) = k
        /\ \A x \in Keys : loc'[self].todo[x] = IF x = k THEN Absent ELSE lv.todo[x]
    BY <2>2, <2>3, Taken
  <2>5. CASE lv.ev = "closed"
    <3>1. \A x \in Keys : WillEnd(self, x) => WillEnd(self, x)'
      BY <2>1, <2>3, <2>4 DEF WillEnd, TearSteps, Tearing, Key, KeyOf
    <3> QED
      BY <1>0, <2>1, <2>3, <2>4, <2>5, <3>1, EndClosed
  <2>6. CASE lv.ev # "closed"
    <3>1. lv.ev = "destroy"
      BY <2>1, <2>6, Busy1 DEF OnItsWay, DeploySteps, RequestSteps, TickSteps
    <3> QED
      BY <1>0, <2>1, <2>3, <2>4, <3>1, OtherClosed DEF Elsewhere
  <2> QED
    BY <2>5, <2>6
<1>4. CASE TornDown(self)
  <2>1. pc[self] = "tearNext" /\ Only(self) /\ pc'[self] = "idle" /\ Pending(self) = {}
    BY <1>4, JumpOnly DEF TornDown, Exit
  <2>2. CASE lv.ev = "closed"
    <3>1. \A k \in Keys : ~WillEnd(self, k)
      BY <2>1 DEF WillEnd, TearSteps, Tearing, Pending
    <3> QED
      BY <1>0, <2>1, <2>2, <3>1, EndClosed
  <2>3. CASE lv.ev # "closed"
    BY <1>0, <2>1, <2>3, OtherClosed DEF Elsewhere
  <2> QED
    BY <2>2, <2>3
<1> QED
  BY <1>1, <1>2, <1>3, <1>4

LEMMA OpenedClosed ==
  ASSUME TypeOK, SeqInv, ClosedInv, NEW self \in Procs, HandleOpened(self)
  PROVE  ClosedInv'
<1>1. /\ pc[self] = "opened" /\ loc[self].ev \in {"opened", "redeploy"}
      /\ closed' = closed \ {loc[self].pr} /\ store' = store /\ prs' = prs
  BY DeployPlace DEF HandleOpened
<1>2. PICK S \in SUBSET Apps : Return(self, [loc[self] EXCEPT !.apps = S], "deploy")
  BY DEF HandleOpened
<1> DEFINE new == [loc[self] EXCEPT !.apps = S]
<1>3. new \in Locals /\ new.ev = loc[self].ev /\ new.pr = loc[self].pr
  <2>1. loc[self] \in Locals
    BY LocalType
  <2> QED
    BY <2>1, LocalsApps DEF Locals
<1>4. Return(self, new, "deploy")
  BY <1>2
<1> HIDE DEF new
<1>5. /\ Only(self) /\ pc'[self] \in {"idle", "deploy"}
      /\ pc'[self] = "idle" \/ (loc'[self].ev = new.ev /\ loc'[self].pr = new.pr)
  <2>1. Only(self) /\ pc'[self] \in {"idle", "deploy"}
    BY <1>4, ReturnOnly
  <2>2. pc'[self] = "idle" \/ (loc'[self].ev = new.ev /\ loc'[self].pr = new.pr)
    BY <1>3, <1>4, ReturnKeeps
  <2> QED
    BY <2>1, <2>2
<1> QED
  BY <1>1, <1>3, <1>5, OtherClosed DEF Elsewhere

\* Nothing is left that the invariant asks anything of.
LEMMA QuietClosed ==
  ASSUME \A r \in closed' : prs'[r] # "open",
         \A s \in Procs : pc'[s] # "closing" /\ ~Deploying(s)',
         \A k \in Keys : k[1] \in closed' => store'[k] = Absent
  PROVE  ClosedInv'
BY DEF ClosedInv

LEMMA WakePutClosed ==
  ASSUME TypeOK, SeqInv, ClosedInv, NEW self \in Procs, WakePut(self)
  PROVE  ClosedInv'
<1>1. /\ pc[self] = "wakePut" /\ self # Loop /\ loc[self].ret = "idle"
      /\ loc[self].ev = "request" /\ UNCHANGED <<closed, prs>>
  BY TickPlace DEF WakePut
<1>2. \A s \in Procs \ {self} : pc[s] = "idle"
  BY <1>1, OnlyOneBusy
<1>3. \A r \in closed' : prs'[r] # "open"
  BY <1>1, <1>2 DEF ClosedInv
<1>4. \A s \in Procs : pc'[s] \in {"idle", "publish"}
                       /\ (pc'[s] = "publish" => loc'[s].ev = "publish")
  <2>1. CASE Installed
    <3> DEFINE p == [loc[self].p EXCEPT !.status = "running", !.age = 0]
               publisher == [Blank EXCEPT !.ev = "publish", !.p = p,
                                  !.pr = Key(self)[1], !.app = Key(self)[2]]
    <3>1. /\ Free # {}
          /\ pc' = [pc EXCEPT ![self] = "idle", ![NewGoroutine] = "publish"]
          /\ loc' = [loc EXCEPT ![self] = Blank, ![NewGoroutine] = publisher]
      BY <1>1, <2>1 DEF WakePut
    <3>2. publisher.ev = "publish"
      BY BlankType DEF Locals
    <3> HIDE DEF publisher
    <3>3. NewGoroutine \in Procs /\ NewGoroutine # self
      BY <1>1, <3>1, NewGoroutineType DEF Procs
    <3> QED
      BY <1>2, <3>1, <3>2, <3>3
  <2>2. CASE ~Installed
    <3>1. pc' = [pc EXCEPT ![self] = "idle"]
      BY <1>1, <2>2 DEF WakePut, Jump
    <3> QED
      BY <1>2, <3>1
  <2> QED
    BY <2>1, <2>2
<1>5. \A k \in Keys : k[1] \in closed' => store'[k] = Absent
  <2> SUFFICES ASSUME NEW k \in Keys, k[1] \in closed PROVE store'[k] = Absent
    BY <1>1
  <2>1. store[k] = Absent
    BY <1>1, NoneClosed
  <2>2. store[Key(self)] # Absent
    BY <1>1, WritesOver DEF Ahead
  <2>3. Elsewhere(self)
    BY PutElsewhere DEF WakePut
  <2> QED
    BY <2>1, <2>2, <2>3 DEF Elsewhere
<1> QED
  BY <1>3, <1>4, <1>5, QuietClosed DEF Deploying, DeploySteps

LEMMA HandlerClosed ==
  ASSUME TypeOK, SeqInv, ClosedInv, NEW self \in Procs, HandlerStep(self)
  PROVE  ClosedInv'
<1>1. CASE \/ PreviewEnvironments(self) \/ ListForTeardown(self)
           \/ TearNext(self) \/ TornDown(self)
  BY <1>1, EndsClosed
<1>2. CASE HandleClosed(self) \/ HandleOpened(self) \/ WakePut(self)
  BY <1>2, HandleClosedClosed, OpenedClosed, WakePutClosed
<1>3. CASE \/ Redeploy(self) \/ Resolve(self) \/ Touch(self) \/ Wake(self)
           \/ Recreate(self) \/ RunAgain(self) \/ Probe(self)
  <2>1. /\ pc[self] \in {"redeploy", "resolve", "touch", "wake", "recreate",
                        "rerun", "probe"}
        /\ store' = store \/ pc[self] = "touch"
    BY <1>3 DEF Redeploy, Resolve, Touch, Wake, Recreate, RunAgain, Probe
  <2>2. loc[self].ev # "closed"
    BY <2>1, EndPlace DEF TearSteps, Tearing
  <2>3. store[Key(self)] = Absent => store' = store
    BY <2>1, WritesOver DEF Same
  <2> QED
    BY <1>3, <2>1, <2>2, <2>3, HandlerKeeps, KeepsClosed
<1>4. CASE WakeList(self) \/ WakeNext(self) \/ WokenUp(self)
  <2>1. pc[self] \in {"wakeList", "wakeNext"}
    BY <1>4 DEF WakeList, WakeNext, WokenUp, Goto
  <2> QED
    BY <2>1, Busy1 DEF OnItsWay, DeploySteps, TearSteps, RequestSteps, TickSteps,
                       Tearing
<1> QED
  BY <1>1, <1>2, <1>3, <1>4 DEF HandlerStep

LEMMA LoopClosed ==
  ASSUME TypeOK, SeqInv, ClosedInv, LoopStep
  PROVE  ClosedInv'
<1>1. Loop \in Procs /\ pc[Loop] # "idle"
  BY LoopInProcs
     DEF LoopStep, ListManaged, Scan, HealPut, HealFail, Sleep, SleepPut, Reap,
         ReapDirs, Publish, TearHost, TearDelete, Recreate, RunAgain, LoopDo, Goto
<1>2. loc[Loop].ev = "tick"
  BY <1>1, Busy1
<1>3. pc[Loop] # "opened"
  BY <1>1, <1>2, Busy1 DEF OnItsWay, TickSteps
<1>4. store[Key(Loop)] = Absent => store' = store
  <2>1. store' = store \/ pc[Loop] \in Same \cup Ahead \cup Tearing
    BY DEF LoopStep, ListManaged, Scan, HealPut, HealFail, Sleep, SleepPut, Reap,
           ReapDirs, Publish, TearHost, TearDelete, Recreate, RunAgain, LoopDo,
           Goto, Same, Ahead, Tearing
  <2> QED
    BY <1>1, <2>1, WritesOver
<1> QED
  BY <1>1, <1>2, <1>3, <1>4, LoopKeeps, OtherClosed

\* The first step of something that finds everybody at rest.
LEMMA BeginsClosed ==
  ASSUME TypeOK, ClosedInv, \A s \in Procs : pc[s] = "idle",
         NEW g \in Procs, \A s \in Procs \ {g} : pc'[s] = "idle",
         closed' = closed, \A k \in Keys : store[k] = Absent => store'[k] = Absent,
         \A r \in closed : prs'[r] = "open" =>
                              pc'[g] = "opened" /\ loc'[g].pr = r,
         pc'[g] = "closing" => prs'[loc'[g].pr] # "open",
         Deploying(g)' => loc'[g].pr \notin closed
  PROVE  ClosedInv'
<1>1. \A k \in Keys : k[1] \in closed' => store'[k] = Absent
  BY NoneClosedAtRest
<1>2. \A s \in Procs \ {g} : pc'[s] # "closing" /\ ~Deploying(s)'
  BY DEF Deploying, DeploySteps
<1> QED
  BY <1>1, <1>2 DEF ClosedInv

LEMMA EventClosed ==
  ASSUME TypeOK, ClosedInv, Sequential, Heard,
         \/ \E r \in PRs : Opened(r) \/ Updated(r) \/ Closed(r) \/ Commented(r)
         \/ \E k \in Keys : Requested(k)
  PROVE  ClosedInv'
<1>1. CASE \E r \in PRs : Opened(r) \/ Updated(r)
  <2>1. PICK r \in PRs : Opened(r) \/ Updated(r)
    BY <1>1
  <2>2. Begins("opened", "opened", r)
    BY <2>1, WebhookMoves DEF Heard
  <2>3. PICK g \in Goroutines :
          /\ \A s \in Procs : pc[s] = "idle" /\ Only(g) /\ pc'[g] = "opened"
          /\ loc'[g].pr = r
    BY <2>2, Began
  <2>4. /\ closed' = closed /\ store' = store
        /\ \A x \in PRs \ {r} : prs'[x] = prs[x]
    BY <2>1 DEF Opened, Updated
  <2>5. \A x \in closed : prs'[x] = "open" => x = r
    BY <2>3, <2>4, NoneClosedAtRest
  <2>6. g \in Procs
    BY InGoroutines
  <2> QED
    BY <2>3, <2>4, <2>5, <2>6, BeginsClosed DEF Only, Deploying, DeploySteps
<1>2. CASE \E r \in PRs : Closed(r)
  <2>1. PICK r \in PRs : Closed(r)
    BY <1>2
  <2>2. Begins("closing", "closed", r)
    BY <2>1, WebhookMoves DEF Heard
  <2>3. PICK g \in Goroutines :
          /\ \A s \in Procs : pc[s] = "idle" /\ Only(g) /\ pc'[g] = "closing"
          /\ loc'[g].pr = r
    BY <2>2, Began
  <2>4. /\ closed' = closed /\ store' = store /\ prs'[r] = "closed"
        /\ \A x \in PRs \ {r} : prs'[x] = prs[x]
    BY <2>1 DEF Closed
  <2>5. \A x \in closed : prs'[x] # "open"
    BY <2>3, <2>4, NoneClosedAtRest
  <2>6. g \in Procs
    BY InGoroutines
  <2> QED
    BY <2>3, <2>4, <2>5, <2>6, BeginsClosed DEF Only, Deploying, DeploySteps
<1>3. CASE \E r \in PRs : Commented(r)
  <2>1. PICK r \in PRs : Commented(r)
    BY <1>3
  <2>2. Begins("list", "destroy", r) \/ Begins("redeploy", "redeploy", r)
    BY <2>1, CommentMoves DEF Sequential
  <2>3. PICK g \in Goroutines :
          /\ \A s \in Procs : pc[s] = "idle" /\ Only(g)
          /\ pc'[g] \in {"list", "redeploy"} /\ loc'[g].pr = r
    BY <2>2, Began
  <2>4. UNCHANGED <<closed, store, prs>> /\ prs[r] = "open"
    BY <2>1 DEF Commented, Heard
  <2>5. \A x \in closed : prs'[x] # "open" /\ x # r
    BY <2>3, <2>4, NoneClosedAtRest
  <2>6. g \in Procs
    BY InGoroutines
  <2> QED
    BY <2>3, <2>4, <2>5, <2>6, BeginsClosed DEF Only
<1>4. CASE \E k \in Keys : Requested(k)
  <2>1. PICK k \in Keys : Requested(k)
    BY <1>4
  <2>2. Begins("resolve", "request", k[1])
    BY <2>1, RequestMoves
  <2>3. PICK g \in Goroutines :
          \A s \in Procs : pc[s] = "idle" /\ Only(g) /\ pc'[g] = "resolve"
    BY <2>2, Began
  <2>4. UNCHANGED <<closed, store, prs>>
    BY <2>1 DEF Requested
  <2>5. \A x \in closed : prs'[x] # "open"
    BY <2>3, <2>4, NoneClosedAtRest
  <2>6. g \in Procs
    BY InGoroutines
  <2> QED
    BY <2>3, <2>4, <2>5, <2>6, BeginsClosed DEF Only, Deploying, DeploySteps
<1> QED
  BY <1>1, <1>2, <1>3, <1>4

\* Pull requests are forgotten, or everybody dies.
LEMMA StillClosed ==
  ASSUME ClosedInv, UNCHANGED <<store, prs, pc, loc>>, closed' \subseteq closed
  PROVE  ClosedInv'
BY DEF ClosedInv, Deploying, WillEnd, Key

LEMMA RebootClosed ==
  ASSUME Reboot
  PROVE  ClosedInv'
BY DEF Reboot, ClosedInv, Deploying, DeploySteps

LEMMA EnvironmentClosed ==
  ASSUME TypeOK, ClosedInv, Sequential, Heard, Environment
  PROVE  ClosedInv'
<1>1. ASSUME NEW r \in PRs, Opened(r) \/ Updated(r) \/ Closed(r) \/ Commented(r)
      PROVE  ClosedInv'
  BY <1>1, EventClosed
<1>2. ASSUME NEW k \in Keys, Requested(k) PROVE ClosedInv'
  BY <1>2, EventClosed
<1>3. ASSUME NEW r \in PRs, ForgetPR(r) PROVE ClosedInv'
  BY <1>3, StillClosed DEF ForgetPR
<1>4. ASSUME NEW k \in Keys, Prune(k) \/ AppExits(k) PROVE ClosedInv'
  BY <1>4, StillClosed DEF Prune, AppExits
<1>5. ASSUME NEW k \in Keys, CliDestroy(k) PROVE ClosedInv'
  BY <1>5, RebootClosed DEF CliDestroy
<1>6. CASE Restart
  BY <1>6, RebootClosed DEF Restart
<1>7. CASE Outage \/ Recovery
  BY <1>7, StillClosed DEF Outage, Recovery
<1> QED
  BY <1>1, <1>2, <1>3, <1>4, <1>5, <1>6, <1>7 DEF Environment

LEMMA TickClosed ==
  ASSUME TypeOK, ClosedInv, Sequential, NEW elapsed \in BOOLEAN, Tick(elapsed)
  PROVE  ClosedInv'
<1>1. TickList(elapsed) /\ \A s \in Procs : pc[s] = "idle"
  BY Rested DEF Tick
<1>2. /\ Loop \in Procs /\ \A s \in Procs \ {Loop} : pc'[s] = "idle"
      /\ pc'[Loop] = "ps" /\ UNCHANGED <<closed, prs>>
  BY <1>1, LoopInProcs, TickBegins DEF TickList
<1>3. \A k \in Keys : store[k] = Absent => store'[k] = Absent
  BY <1>1, TickBegins, OlderKeeps
<1>4. \A r \in closed : prs'[r] # "open"
  BY <1>1, <1>2, NoneClosedAtRest
<1> QED
  BY <1>1, <1>2, <1>3, <1>4, BeginsClosed DEF Deploying, DeploySteps

LEMMA InitClosed == Init => ClosedInv
BY DEF Init, ClosedInv, Deploying, DeploySteps

LEMMA NextClosed ==
  ASSUME TypeOK, SeqInv, ClosedInv, Sequential, Heard, [Next]_vars
  PROVE  ClosedInv'
<1>1. CASE Environment
  BY <1>1, EnvironmentClosed
<1>2. CASE \E elapsed \in BOOLEAN : Tick(elapsed)
  BY <1>2, TickClosed
<1>3. CASE LoopStep
  BY <1>3, LoopClosed
<1>4. CASE \E g \in Goroutines : GoroutineStep(g)
  BY <1>4, InGoroutines, DeployClosed, HandlerClosed DEF GoroutineStep
<1>5. CASE UNCHANGED vars
  BY <1>5, StillClosed DEF vars
<1> QED
  BY <1>1, <1>2, <1>3, <1>4, <1>5 DEF Next

LEMMA ClosedCorrect ==
  ASSUME Sequential, Heard
  PROVE  Spec => []ClosedInv
BY InitFits, NextFits, InitClosed, NextClosed, TypeCorrect, PTL DEF Spec

-----------------------------------------------------------------------------
(* Whoever is building.                                                    *)

\* The daemon does not die: a record that says building would keep saying it.
Survives == Faults \cap {"crash", "cli"} = {}

LEMMA BuilderStep ==
  ASSUME TypeOK, SeqInv, BuildingHasBuilder, NEW self \in Procs,
         pc[self] # "idle", Elsewhere(self),
         store'[Key(self)].status = "building" =>
           pc'[self] \in DeployPCs /\ Key(self)' = Key(self)
  PROVE  BuildingHasBuilder'
<1>1. \A s \in Procs : pc[s] \in DeployPCs => s = self
  BY OnlyOneBusy DEF DeployPCs
<1>2. \A k \in Keys \ {Key(self)} : store'[k].status # "building"
  BY <1>1 DEF BuildingHasBuilder, Elsewhere
<1> QED
  BY <1>2 DEF BuildingHasBuilder

\* A step outside a deploy leaves no record building.
LEMMA OffDeploy ==
  ASSUME TypeOK, SeqInv, BuildingHasBuilder, NEW self \in Procs,
         pc[self] \notin DeployPCs \cup {"idle"}, Elsewhere(self),
         store' = store \/ store'[Key(self)].status # "building"
  PROVE  BuildingHasBuilder'
<1>1. \A s \in Procs : pc[s] \notin DeployPCs
  BY OnlyOneBusy DEF DeployPCs
<1>2. store[Key(self)].status # "building"
  BY <1>1, KeyType DEF BuildingHasBuilder
<1> QED
  BY <1>2, BuilderStep

\* Nothing of a closed pull request is deployed.
LEMMA NotAbandoned ==
  ASSUME TypeOK, SeqInv, ClosedInv, NEW self \in Procs,
         pc[self] \in {"built", "isReady", "fail"}
  PROVE  ~Abandoned(Key(self))
<1>1. loc[self].pr \notin closed
  BY DeployPlace DEF ClosedInv, Deploying, DeploySteps, Tearing
<1> QED
  BY <1>1, KeyType, ClosedMeans DEF Key

LEMMA DeployBuilder ==
  ASSUME TypeOK, SeqInv, ClosedInv, BuildingHasBuilder,
         NEW self \in Procs, DeployStep(self)
  PROVE  BuildingHasBuilder'
<1>1. Keeps(self) /\ pc[self] # "idle"
  BY DeployKeeps, DeployWrites
<1>2. /\ loc[self] \in Locals /\ loc[self].p \in Preview
      /\ pc[self] \in InHandSteps =>
           Copied(pc[self], loc[self].p, loc[self].ret, store[Key(self)])
  BY LocalType, InHandAlone
<1>3. CASE NextApp(self) \/ CheckCapacity(self)
  BY <1>1, <1>3, OffDeploy DEF NextApp, CheckCapacity, Keeps, DeployPCs
<1>4. CASE \/ PutBuilding(self) \/ Acquire(self) \/ Clean(self) \/ FetchSource(self)
           \/ BuildImage(self) \/ Built(self) \/ EnsureNetwork(self) \/ Run(self)
           \/ AwaitReady(self) \/ IsReady(self) \/ RecordFailure(self)
           \/ TearHost(self)
  <2>1. pc[self] # "deploy" /\ pc'[self] \in DeployPCs
    <3>1. CASE PutBuilding(self)
      <4>1. PublishThen(self, loc[self], "acquire") /\ pc[self] = "put"
        BY <3>1 DEF PutBuilding
      <4> QED
        BY <4>1 DEF PublishThen, Return, Jump, DeployPCs, LoopHeads
    <3>2. CASE Built(self) \/ RecordFailure(self)
      <4>1. ~Abandoned(Key(self))
        BY <3>2, NotAbandoned DEF Built, RecordFailure
      <4> QED
        BY <3>2, <4>1 DEF Built, RecordFailure, Return, Jump, DeployPCs, LoopHeads
    <3>3. CASE \/ Acquire(self) \/ Clean(self) \/ FetchSource(self)
               \/ BuildImage(self) \/ EnsureNetwork(self) \/ Run(self)
               \/ AwaitReady(self) \/ IsReady(self) \/ TearHost(self)
      BY <3>3 DEF Acquire, Clean, FetchSource, BuildImage, LeaveBuild,
                  EnsureNetwork, Run, AwaitReady, IsReady, TearHost, Jump, DeployPCs
    <3> QED
      BY <1>4, <3>1, <3>2, <3>3
  <2>2. Key(self)' = Key(self)
    BY <1>1, <2>1 DEF Keeps, DeployPCs, Key
  <2> QED
    BY <1>1, <2>1, <2>2, BuilderStep DEF Keeps
<1>5. CASE Publish(self)
  <2>1. /\ pc[self] = "publish"
        /\ store[Key(self)].status = "building" <=> loc[self].ret = "acquire"
        /\ loc[self].p = store[Key(self)]
    BY <1>2, <1>5 DEF Publish, Copied, InHandSteps, Same
  <2>2. store'[Key(self)].status = store[Key(self)].status
    <3>1. CASE store' = store
      BY <3>1
    <3>2. CASE CreateDeployment(self, Key(self))
      <4>1. /\ Put(Key(self), [loc[self].p EXCEPT !.dep = FreshDep])
            /\ FreshDep \in Deps
        BY <3>2, FreshDepType DEF CreateDeployment
      <4>2. [loc[self].p EXCEPT !.dep = FreshDep].status = loc[self].p.status
        BY <1>2 DEF Preview
      <4> QED
        BY <2>1, <4>1, <4>2, PutElsewhere
    <3> QED
      BY <1>5, <3>1, <3>2 DEF Publish, SetDeploymentStatus, PublishFails
  <2>3. loc[self].ret = "acquire" => pc'[self] = "acquire"
    <3>1. \E lv : Return(self, lv, loc[self].ret)
      BY <1>5 DEF Publish, CreateDeployment, SetDeploymentStatus, PublishFails
    <3> QED
      BY <3>1 DEF Return, Jump, LoopHeads
  <2>4. Key(self)' = Key(self) \/ pc'[self] = "idle"
    BY <1>1, <2>1 DEF Keeps, Key
  <2> QED
    BY <1>1, <2>1, <2>2, <2>3, <2>4, BuilderStep DEF Keeps, DeployPCs
<1>6. CASE Commit(self) \/ PutFailed(self) \/ TearDelete(self)
  <2>1. \E p : Put(Key(self), p) /\ p.status # "building"
    <3>1. CASE Commit(self)
      <4>1. GoLive(loc[self].p, loc[self].sha).status = "running"
        BY <1>2 DEF GoLive, Preview
      <4> QED
        BY <3>1, <4>1 DEF Commit
    <3>2. CASE PutFailed(self)
      <4>1. [loc[self].p EXCEPT !.status = "failed"].status = "failed"
        BY <1>2 DEF Preview
      <4> QED
        BY <3>2, <4>1 DEF PutFailed
    <3>3. CASE TearDelete(self)
      BY <3>3 DEF TearDelete, Absent
    <3> QED
      BY <1>6, <3>1, <3>2, <3>3
  <2>2. store'[Key(self)].status # "building"
    BY <2>1, PutElsewhere
  <2> QED
    BY <1>1, <2>2, BuilderStep DEF Keeps
<1> QED
  BY <1>3, <1>4, <1>5, <1>6 DEF DeployStep

LEMMA HandlerBuilder ==
  ASSUME TypeOK, SeqInv, BuildingHasBuilder, NEW self \in Procs, HandlerStep(self)
  PROVE  BuildingHasBuilder'
<1>1. pc[self] \notin DeployPCs \cup {"idle"}
  BY DEF HandlerStep, HandleClosed, PreviewEnvironments, HandleOpened, Redeploy,
         ListForTeardown, TearNext, TornDown, WakeList, WakeNext, WokenUp, Wake,
         Recreate, RunAgain, Probe, WakePut, Resolve, Touch, Goto, DeployPCs
<1>2. CASE store' = store
  BY <1>1, <1>2, OffDeploy DEF Elsewhere
<1>3. CASE WakePut(self) \/ Touch(self)
  <2>1. /\ loc[self].p \in Preview
        /\ Copied(pc[self], loc[self].p, loc[self].ret, store[Key(self)])
        /\ pc[self] \in {"wakePut", "touch"}
    BY <1>3, LocalType, InHandAlone DEF WakePut, Touch, InHandSteps, Same, Ahead
  <2>2. \E p : Put(Key(self), p) /\ p.status # "building"
    <3>1. CASE WakePut(self)
      <4>1. [loc[self].p EXCEPT !.status = "running", !.age = 0].status = "running"
        BY <2>1 DEF Preview
      <4> QED
        BY <3>1, <4>1 DEF WakePut
    <3>2. CASE Touch(self)
      <4>1. [loc[self].p EXCEPT !.age = 0].status = "running"
        BY <2>1, <3>2 DEF Preview, Copied, Same, Touch
      <4> QED
        BY <3>2, <4>1 DEF Touch
    <3> QED
      BY <1>3, <3>1, <3>2
  <2>3. Elsewhere(self) /\ store'[Key(self)].status # "building"
    BY <2>2, PutElsewhere
  <2> QED
    BY <1>1, <2>3, OffDeploy
<1> QED
  BY <1>2, <1>3
     DEF HandlerStep, HandleClosed, PreviewEnvironments, HandleOpened, Redeploy,
         ListForTeardown, TearNext, TornDown, WakeList, WakeNext, WokenUp, Wake,
         Recreate, RunAgain, Probe, Resolve

LEMMA LoopBuilder ==
  ASSUME TypeOK, SeqInv, ClosedInv, BuildingHasBuilder, LoopStep
  PROVE  BuildingHasBuilder'
<1>0. Loop \in Procs
  BY LoopInProcs
<1>1. CASE Publish(Loop) \/ TearHost(Loop) \/ TearDelete(Loop)
  BY <1>0, <1>1, DeployBuilder DEF DeployStep
<1>2. CASE Recreate(Loop) \/ RunAgain(Loop)
  BY <1>0, <1>2, HandlerBuilder DEF HandlerStep
<1>3. CASE ListManaged \/ Scan \/ Sleep \/ Reap \/ ReapDirs
  <2>1. store' = store /\ pc[Loop] \notin DeployPCs \cup {"idle"}
    BY <1>3 DEF ListManaged, Scan, Sleep, Reap, ReapDirs, LoopDo, Goto, DeployPCs
  <2> QED
    BY <1>0, <2>1, OffDeploy DEF Elsewhere
<1>4. CASE HealPut \/ HealFail \/ SleepPut
  <2>1. loc[Loop].p \in Preview /\ pc[Loop] \notin DeployPCs \cup {"idle"}
    BY <1>0, <1>4, LocalType DEF HealPut, HealFail, SleepPut, DeployPCs
  <2>2. \E p : Put(Key(Loop), p) /\ p.status # "building"
    <3>1. /\ [loc[Loop].p EXCEPT !.status = "running", !.age = 0].status = "running"
          /\ [loc[Loop].p EXCEPT !.status = "failed"].status = "failed"
          /\ [loc[Loop].p EXCEPT !.status = "sleeping"].status = "sleeping"
      BY <2>1 DEF Preview
    <3> QED
      BY <1>4, <3>1 DEF HealPut, HealFail, SleepPut, HealWrite
  <2>3. Elsewhere(Loop) /\ store'[Key(Loop)].status # "building"
    BY <1>0, <2>2, PutElsewhere
  <2> QED
    BY <1>0, <2>1, <2>3, OffDeploy
<1> QED
  BY <1>1, <1>2, <1>3, <1>4 DEF LoopStep

\* Nobody is at work, or nobody moves.
LEMMA RestedBuilder ==
  ASSUME BuildingHasBuilder, \A s \in Procs : pc[s] = "idle",
         \A k \in Keys : store'[k].status = store[k].status
  PROVE  BuildingHasBuilder'
BY DEF BuildingHasBuilder, DeployPCs

LEMMA StillBuilder ==
  ASSUME BuildingHasBuilder, UNCHANGED <<store, pc, loc>>
  PROVE  BuildingHasBuilder'
BY DEF BuildingHasBuilder, Key

LEMMA EnvironmentBuilder ==
  ASSUME TypeOK, BuildingHasBuilder, Sequential, Heard, Survives, Environment
  PROVE  BuildingHasBuilder'
<1>1. ASSUME NEW r \in PRs, Opened(r) \/ Updated(r) \/ Closed(r) \/ Commented(r)
      PROVE  BuildingHasBuilder'
  <2>1. \E l, ev : Begins(l, ev, r)
    BY <1>1, WebhookMoves, CommentMoves DEF Sequential, Heard
  <2>2. store' = store
    BY <1>1 DEF Opened, Updated, Closed, Commented
  <2> QED
    BY <2>1, <2>2, Began, RestedBuilder
<1>2. ASSUME NEW k \in Keys, Requested(k) PROVE BuildingHasBuilder'
  <2>1. Begins("resolve", "request", k[1]) /\ store' = store
    BY <1>2, RequestMoves DEF Requested
  <2> QED
    BY <2>1, Began, RestedBuilder
<1>3. ASSUME NEW r \in PRs, ForgetPR(r) PROVE BuildingHasBuilder'
  BY <1>3, StillBuilder DEF ForgetPR
<1>4. ASSUME NEW k \in Keys, Prune(k) \/ AppExits(k) PROVE BuildingHasBuilder'
  BY <1>4, StillBuilder DEF Prune, AppExits
<1>5. ASSUME NEW k \in Keys, CliDestroy(k) \/ Restart PROVE BuildingHasBuilder'
  BY <1>5 DEF CliDestroy, Restart, Survives
<1>6. CASE Outage \/ Recovery
  BY <1>6, StillBuilder DEF Outage, Recovery
<1>7. Keys # {}
  BY SomeKeyType
<1> QED
  BY <1>1, <1>2, <1>3, <1>4, <1>5, <1>6, <1>7 DEF Environment

LEMMA TickBuilder ==
  ASSUME TypeOK, BuildingHasBuilder, Sequential, NEW elapsed \in BOOLEAN, Tick(elapsed)
  PROVE  BuildingHasBuilder'
<1>1. TickList(elapsed) /\ \A s \in Procs : pc[s] = "idle"
  BY Rested DEF Tick
<1>2. \A k \in Keys : store'[k].status = store[k].status
  BY <1>1, TickBegins, OlderKeeps
<1> QED
  BY <1>1, <1>2, RestedBuilder

LEMMA InitBuilder == Init => BuildingHasBuilder
BY DEF Init, BuildingHasBuilder, If, DeployedPreview, Absent

LEMMA NextBuilder ==
  ASSUME TypeOK, SeqInv, ClosedInv, BuildingHasBuilder, Sequential, Heard,
         Survives, [Next]_vars
  PROVE  BuildingHasBuilder'
<1>1. CASE Environment
  BY <1>1, EnvironmentBuilder
<1>2. CASE \E elapsed \in BOOLEAN : Tick(elapsed)
  BY <1>2, TickBuilder
<1>3. CASE LoopStep
  BY <1>3, LoopBuilder
<1>4. CASE \E g \in Goroutines : GoroutineStep(g)
  BY <1>4, InGoroutines, DeployBuilder, HandlerBuilder DEF GoroutineStep
<1>5. CASE UNCHANGED vars
  BY <1>5, StillBuilder DEF vars
<1> QED
  BY <1>1, <1>2, <1>3, <1>4, <1>5 DEF Next

\* A record says building only while a goroutine is between the write of that
\* status and the write that ends it, whatever fails in docker or at GitHub.
THEOREM BuildingHasBuilderHeld ==
  ASSUME Sequential, Heard, Survives
  PROVE  Spec => []BuildingHasBuilder
BY InitFits, NextFits, ClosedCorrect, InitBuilder, NextBuilder, TypeCorrect, PTL
   DEF Spec

-----------------------------------------------------------------------------
(* Reconciler implements Lifecycle.                                        *)

LivesOn == [Promised!LNext]_(Promised!lvars)

LEMMA StandStill ==
  ASSUME closed' = closed, \A k \in Keys : store'[k].status = store[k].status
  PROVE  LivesOn
BY DEF LivesOn, Promised!lvars

LEMMA AliveIsLive ==
  ASSUME TypeOK, Whole(store)
  PROVE  Promised!Alive = Live
BY DEF Promised!Alive, Promised!Previews, Keys, Live, Whole, Absent

LEMMA SameCardinality == \A S : Promised!Cardinality(S) = Cardinality(S)
BY Zenon DEF Promised!Cardinality, Cardinality

LEMMA StepMoves ==
  ASSUME TypeOK, TypeOK', Whole(store), NEW k \in Keys, k[1] \notin closed,
         closed' = closed,
         \A x \in Keys \ {k} : store'[x] = store[x],
         store'[k].status \in allowedTransitions[store[k].status],
         store[k] = Absent => Cardinality(Live) < MaxPreviews
  PROVE  LivesOn
<1> DEFINE old == [x \in Keys |-> store[x].status]
           new == [x \in Keys |-> store'[x].status]
           s   == store'[k].status
<1>1. s \in Status /\ store[k].status \in Status
  BY DEF Preview
<1>2. new = [old EXCEPT ![k] = s]
  OBVIOUS
<1>3. store[k].status = "destroyed" => Cardinality(Promised!Alive) < MaxPreviews
  BY AliveIsLive DEF Whole
<1>4. Promised!CanTransition(store[k].status, s)
  BY DEF Promised!CanTransition, Promised!allowedTransitions, allowedTransitions
<1>5. old[k] = store[k].status
  OBVIOUS
<1>6. Promised!Move(k)
  <2>1. s \in Promised!Status
    BY <1>1 DEF Promised!Status, Status
  <2>2. Promised!CanTransition(old[k], s)
    BY <1>4, <1>5
  <2>3. [x \in Keys |-> store[x].status]' = [old EXCEPT ![k] = s]
    BY <1>2
  <2>4. \E t \in Promised!Status :
          /\ Promised!CanTransition(old[k], t)
          /\ [x \in Keys |-> store[x].status]' = [old EXCEPT ![k] = t]
    BY <2>1, <2>2, <2>3, Zenon
  <2>5. old[k] = "destroyed" => Promised!Cardinality(Promised!Alive) < MaxPreviews
    BY <1>3, <1>5, SameCardinality
  <2> QED
    BY <2>4, <2>5, Zenon DEF Promised!Move
<1> QED
  BY <1>6 DEF LivesOn, Promised!LNext, Promised!Previews, Keys

LEMMA StepEnds ==
  ASSUME TypeOK, Whole(store), NEW k \in Keys, store[k] # Absent, closed' = closed,
         Put(k, Absent)
  PROVE  LivesOn
<1> DEFINE old == [x \in Keys |-> store[x].status]
           new == [x \in Keys |-> store'[x].status]
<1>1. new = [old EXCEPT ![k] = "destroyed"]
  BY DEF Put, Absent
<1>2. k \in Promised!Alive
  BY AliveIsLive DEF Live
<1>3. Promised!End(k)
  BY <1>1, <1>2 DEF Promised!End
<1> QED
  BY <1>3 DEF LivesOn, Promised!LNext, Promised!Previews, Keys

LEMMA StepShuts ==
  ASSUME TypeOK, store' = store, NEW r \in PRs,
         closed' = closed \cup {r} \/ closed' = closed \ {r}
  PROVE  LivesOn
<1>1. CASE closed' = closed
  BY <1>1, StandStill
<1>2. CASE r \notin closed /\ closed' = closed \cup {r}
  BY <1>2 DEF LivesOn, Promised!LNext, Promised!Close
<1>3. CASE r \in closed /\ closed' = closed \ {r}
  BY <1>3 DEF LivesOn, Promised!LNext, Promised!Reopen
<1> QED
  BY <1>1, <1>2, <1>3

\* What a goroutine writes has a preview that is not of a closed pull request.
LEMMA OpenInHand ==
  ASSUME TypeOK, SeqInv, ClosedInv, NEW self \in Procs, pc[self] # "idle",
         loc[self].ev # "closed",
         Deploying(self) \/ store[Key(self)] # Absent
  PROVE  Key(self)[1] \notin closed
<1>1. CASE Deploying(self)
  BY <1>1 DEF ClosedInv, Key
<1>2. CASE store[Key(self)] # Absent
  BY <1>2, NoneClosed, KeyType
<1> QED
  BY <1>1, <1>2

\* The copy in hand is written with status s.
LEMMA WriteMoves ==
  ASSUME TypeOK, TypeOK', SeqInv, ClosedInv, NEW self \in Procs, pc[self] # "idle",
         loc[self].ev # "closed", Deploying(self) \/ store[Key(self)] # Absent,
         NEW p, Put(Key(self), p), closed' = closed,
         p.status \in allowedTransitions[store[Key(self)].status],
         store[Key(self)] = Absent => Cardinality(Live) < MaxPreviews
  PROVE  LivesOn
<1>1. Whole(store) /\ Key(self) \in Keys /\ Key(self)[1] \notin closed
  BY Busy1, KeyType, OpenInHand
<1>2. Elsewhere(self) /\ store'[Key(self)] = p
  BY PutElsewhere
<1> QED
  BY <1>1, <1>2, StepMoves DEF Elsewhere

LEMMA DeployLives ==
  ASSUME TypeOK, TypeOK', SeqInv, CapInv, ClosedInv, NEW self \in Procs, DeployStep(self)
  PROVE  LivesOn
<1>1. /\ Keeps(self) /\ pc[self] # "idle" /\ loc[self].p \in Preview
      /\ Whole(store) /\ store[Key(self)] \in Preview
      /\ pc[self] \in InHandSteps =>
           Copied(pc[self], loc[self].p, loc[self].ret, store[Key(self)])
  BY DeployKeeps, DeployWrites, LocalType, KeyType, InHandAlone, Busy1
<1>2. CASE store' = store
  BY <1>1, <1>2, StandStill DEF Keeps
<1>3. CASE PutBuilding(self) \/ Commit(self) \/ PutFailed(self)
  <2>1. /\ Deploying(self) /\ loc[self].ev # "closed"
        /\ pc[self] \in {"put", "commit", "failPut"}
    BY <1>3, DeployPlace
       DEF PutBuilding, Commit, PutFailed, Deploying, DeploySteps, Tearing
  <2>2. CASE PutBuilding(self)
    <3>1. /\ pc[self] = "put" /\ Put(Key(self), loc[self].p)
          /\ loc[self].p = [store[Key(self)] EXCEPT !.status = "building"]
      BY <1>1, <2>2 DEF PutBuilding, Copied, InHandSteps
    <3>2. loc[self].p.status = "building"
      BY <1>1, <3>1 DEF Preview
    <3>3. store[Key(self)].status \in Status
      BY <1>1 DEF Preview
    <3>4. CASE store[Key(self)].status = "building"
      <4>1. \A k \in Keys : store'[k].status = store[k].status
        BY <3>1, <3>2, <3>4 DEF Put
      <4> QED
        BY <1>1, <4>1, StandStill DEF Keeps
    <3>5. CASE store[Key(self)].status # "building"
      <4>1. "building" \in allowedTransitions[store[Key(self)].status]
        BY <3>3, <3>5 DEF Status, allowedTransitions
      <4>2. store[Key(self)] = Absent => Cardinality(Live) < MaxPreviews
        BY <3>1 DEF CapInv
      <4> QED
        BY <1>1, <2>1, <3>1, <3>2, <4>1, <4>2, WriteMoves DEF Keeps
    <3> QED
      BY <3>4, <3>5
  <2>3. CASE Commit(self) \/ PutFailed(self)
    <3>1. \E p : Put(Key(self), p) /\ p.status \in {"running", "failed"}
      <4>1. /\ GoLive(loc[self].p, loc[self].sha).status = "running"
            /\ [loc[self].p EXCEPT !.status = "failed"].status = "failed"
        BY <1>1 DEF GoLive, Preview
      <4> QED
        BY <2>3, <4>1 DEF Commit, PutFailed
    <3>2. PICK p : Put(Key(self), p) /\ p.status \in {"running", "failed"}
      BY <3>1
    <3>3. store[Key(self)].status = "building" /\ store[Key(self)] # Absent
      BY <1>1, <2>3 DEF Commit, PutFailed, Copied, InHandSteps, Ahead, Building
    <3>4. p.status \in allowedTransitions[store[Key(self)].status]
      BY <3>2, <3>3 DEF allowedTransitions
    <3> QED
      BY <1>1, <2>1, <3>2, <3>3, <3>4, WriteMoves DEF Keeps
  <2> QED
    BY <1>3, <2>2, <2>3
<1>4. CASE CreateDeployment(self, Key(self)) /\ Publish(self)
  <2>1. /\ Put(Key(self), [loc[self].p EXCEPT !.dep = FreshDep])
        /\ FreshDep \in Deps
    BY <1>4, FreshDepType DEF CreateDeployment
  <2>2. [loc[self].p EXCEPT !.dep = FreshDep].status = loc[self].p.status
    BY <1>1 DEF Preview
  <2>3. loc[self].p = store[Key(self)]
    BY <1>1, <1>4 DEF Publish, Copied, InHandSteps, Same
  <2>4. \A k \in Keys : store'[k].status = store[k].status
    BY <2>1, <2>2, <2>3 DEF Put
  <2> QED
    BY <1>1, <2>4, StandStill DEF Keeps
<1>5. CASE TearDelete(self)
  <2>1. pc[self] = "tearDelete" /\ Put(Key(self), Absent)
    BY <1>5 DEF TearDelete
  <2>2. store[Key(self)] # Absent
    BY <2>1, WritesOver DEF Tearing
  <2> QED
    BY <1>1, <2>1, <2>2, StepEnds, KeyType DEF Keeps
<1> QED
  BY <1>2, <1>3, <1>4, <1>5
     DEF DeployStep, NextApp, CheckCapacity, Publish, SetDeploymentStatus,
         PublishFails, Acquire, Clean, FetchSource, BuildImage, Built,
         EnsureNetwork, Run, AwaitReady, IsReady, RecordFailure, TearHost

LEMMA HandlerLives ==
  ASSUME TypeOK, TypeOK', SeqInv, ClosedInv, NEW self \in Procs, HandlerStep(self)
  PROVE  LivesOn
<1>1. loc[self].pr \in PRs /\ loc[self].p \in Preview
  BY LocalType DEF Locals
<1>2. CASE HandleClosed(self) \/ HandleOpened(self)
  BY <1>1, <1>2, StepShuts DEF HandleClosed, HandleOpened
<1>3. CASE UNCHANGED <<store, closed>>
  BY <1>3, StandStill
<1>4. CASE Touch(self)
  <2>1. /\ Put(Key(self), [loc[self].p EXCEPT !.age = 0]) /\ closed' = closed
        /\ pc[self] = "touch"
    BY <1>4 DEF Touch
  <2>2. loc[self].p = store[Key(self)]
    BY <2>1, InHandAlone DEF Copied, InHandSteps, Same
  <2>3. [loc[self].p EXCEPT !.age = 0].status = loc[self].p.status
    BY <1>1 DEF Preview
  <2>4. \A k \in Keys : store'[k].status = store[k].status
    BY <2>1, <2>2, <2>3 DEF Put
  <2> QED
    BY <2>1, <2>4, StandStill
<1>5. CASE WakePut(self)
  <2> DEFINE p == [loc[self].p EXCEPT !.status = "running", !.age = 0]
  <2>1. Put(Key(self), p) /\ closed' = closed /\ pc[self] = "wakePut"
    BY <1>5 DEF WakePut
  <2>2. p.status = "running"
    BY <1>1 DEF Preview
  <2> HIDE DEF p
  <2>3. /\ store[Key(self)].status \in {"running", "sleeping"}
        /\ store[Key(self)] # Absent
    BY <2>1, InHandAlone DEF Copied, InHandSteps, Ahead, Waking
  <2>4. loc[self].ev # "closed" /\ pc[self] # "idle"
    BY <2>1, TickPlace
  <2>5. CASE store[Key(self)].status = "running"
    <3>1. \A k \in Keys : store'[k].status = store[k].status
      BY <2>1, <2>2, <2>5 DEF Put
    <3> QED
      BY <2>1, <3>1, StandStill
  <2>6. CASE store[Key(self)].status = "sleeping"
    <3>1. p.status \in allowedTransitions[store[Key(self)].status]
      BY <2>2, <2>6 DEF allowedTransitions
    <3> QED
      BY <2>1, <2>3, <2>4, <3>1, WriteMoves
  <2> QED
    BY <2>3, <2>5, <2>6
<1> QED
  BY <1>2, <1>3, <1>4, <1>5
     DEF HandlerStep, PreviewEnvironments, Redeploy, ListForTeardown, TearNext,
         TornDown, WakeList, WakeNext, WokenUp, Wake, Recreate, RunAgain, Probe,
         Resolve

LEMMA LoopLives ==
  ASSUME TypeOK, TypeOK', SeqInv, CapInv, HostInv, ClosedInv, LoopStep
  PROVE  LivesOn
<1>1. Loop \in Procs /\ closed' = closed /\ loc[Loop].p \in Preview
  BY LoopInProcs, LoopKeeps, LocalType
<1>2. CASE Publish(Loop) \/ TearHost(Loop) \/ TearDelete(Loop)
  BY <1>1, <1>2, DeployLives DEF DeployStep
<1>3. CASE store' = store
  BY <1>1, <1>3, StandStill
<1>4. CASE HealPut \/ HealFail
  BY <1>1, <1>4 DEF HealPut, HealFail, HostInv, AtHost, HostAt, Repairing
<1>5. CASE SleepPut
  <2> DEFINE p == [loc[Loop].p EXCEPT !.status = "sleeping"]
  <2>1. Put(Key(Loop), p) /\ pc[Loop] = "sleepPut"
    BY <1>5 DEF SleepPut, HealWrite
  <2>2. p.status = "sleeping"
    BY <1>1 DEF Preview
  <2> HIDE DEF p
  <2>3. store[Key(Loop)].status = "running" /\ store[Key(Loop)] # Absent
    BY <1>1, <2>1, InHandAlone DEF Copied, InHandSteps, Same
  <2>4. loc[Loop].ev # "closed" /\ pc[Loop] # "idle"
    BY <1>1, <2>1, Busy1
  <2>5. p.status \in allowedTransitions[store[Key(Loop)].status]
    BY <2>2, <2>3 DEF allowedTransitions
  <2> QED
    BY <1>1, <2>1, <2>3, <2>4, <2>5, WriteMoves
<1> QED
  BY <1>2, <1>3, <1>4, <1>5
     DEF LoopStep, ListManaged, Scan, Sleep, Reap, ReapDirs, Recreate, RunAgain

LEMMA EnvironmentLives ==
  ASSUME TypeOK, HostSteady, Environment
  PROVE  LivesOn
<1>1. CASE UNCHANGED <<store, closed>>
  BY <1>1, StandStill
<1>2. CASE \E r \in PRs : ForgetPR(r)
  BY <1>2, StepShuts DEF ForgetPR
<1>3. ASSUME NEW r \in PRs, Opened(r) \/ Updated(r) \/ Closed(r) \/ Commented(r)
      PROVE  UNCHANGED <<store, closed>>
  BY <1>3 DEF Opened, Updated, Closed, Commented
<1>4. ASSUME NEW k \in Keys,
             Requested(k) \/ Prune(k) \/ AppExits(k) \/ CliDestroy(k)
      PROVE  UNCHANGED <<store, closed>>
  BY <1>4 DEF Requested, Prune, AppExits, CliDestroy, HostSteady
<1>5. CASE Restart \/ Outage \/ Recovery
  BY <1>1, <1>5 DEF Restart, Outage, Recovery, HostSteady
<1> QED
  BY <1>1, <1>2, <1>3, <1>4, <1>5 DEF Environment

LEMMA NextLives ==
  ASSUME TypeOK, TypeOK', SeqInv, CapInv, HostInv, ClosedInv, HostSteady,
         Next \/ UNCHANGED vars
  PROVE  LivesOn
<1>1. CASE Environment
  BY <1>1, EnvironmentLives
<1>2. ASSUME NEW elapsed \in BOOLEAN, Tick(elapsed) PROVE LivesOn
  <2>1. TickList(elapsed) /\ closed' = closed
    BY <1>2 DEF Tick, TickList
  <2>2. \A k \in Keys : store'[k].status = store[k].status
    BY <2>1, TickBegins, OlderKeeps
  <2> QED
    BY <2>1, <2>2, StandStill
<1>3. CASE LoopStep
  BY <1>3, LoopLives
<1>4. CASE \E g \in Goroutines : GoroutineStep(g)
  BY <1>4, InGoroutines, DeployLives, HandlerLives DEF GoroutineStep
<1>5. CASE UNCHANGED vars
  BY <1>5, StandStill DEF vars
<1> QED
  BY <1>1, <1>2, <1>3, <1>4, <1>5 DEF Next

LEMMA CapCorrect ==
  ASSUME Sequential, IsFiniteSet(Deployed), Cardinality(Deployed) <= MaxPreviews
  PROVE  Spec => []CapInv
BY InitFits, NextFits, InitCap, NextCap, TypeCorrect, PTL DEF Spec

\* The reconciler implements Lifecycle: every write to a record is a transition
\* of model.allowedTransitions, a preview is admitted below the limit only, and
\* once its pull request is closed a preview only ends.
THEOREM LifecycleImplemented ==
  ASSUME Sequential, Heard, HostSteady,
         IsFiniteSet(Deployed), Cardinality(Deployed) <= MaxPreviews
  PROVE  Spec => LifecycleKept
<1>1. Init => Promised!LInit
  <2> SUFFICES ASSUME Init PROVE Promised!LInit
    OBVIOUS
  <2>1. store \in [Keys -> Preview]
    BY InitTypeOK
  <2> QED
    BY <2>1 DEF Init, Promised!LInit, Promised!Previews, Promised!Status, Keys,
                Preview, Status
<1>2. TypeOK /\ TypeOK' /\ SeqInv /\ CapInv /\ HostInv /\ ClosedInv /\ [Next]_vars
        => [Promised!LNext]_(Promised!lvars)
  BY NextLives DEF LivesOn
<1> QED
  BY <1>1, <1>2, TypeCorrect, SeqCorrect, CapCorrect, HostCorrect, ClosedCorrect, PTL
     DEF Spec, LifecycleKept, Promised!LSpec

-----------------------------------------------------------------------------
(* What a preview has beside its container.                                *)

\* docker run and GitHub do what they are asked.
CallsReach == Faults \cap {"run", "github"} = {}

\* s has made the network of its preview, for a container that the record does
\* not name yet.
Connecting(s) ==
  \/ pc[s] = "run"
  \/ /\ pc[s] \in {"ready", "isReady", "commit", "fail", "failPut"}
     /\ loc[s].p.cid # 0

\* Checkout and Deployment belong to a record, ...
Tidy(k) == /\ dir[k] # NoDir => store[k] # Absent
           /\ green[k] \subseteq {store[k].dep}

\* ... a network to one with a container.
Linked(k) == k \in nets => \/ store[k].cid # 0
                           \/ \E s \in Procs : Key(s) = k /\ Connecting(s)

CleanAt(s) ==
  /\ pc[s] \in {"built", "network", "run"} =>
       loc[s].sha \in Commits /\ image[Key(s)][loc[s].sha] # 0
  /\ pc[s] = "run" => Key(s) \in nets
  /\ pc[s] = "tearDelete" => Key(s) \notin nets /\ dir[Key(s)] = NoDir
  /\ pc[s] \in Tearing => loc[s].ret # "deploy"

CleanInv == /\ \A k \in Keys : Tidy(k) /\ Linked(k)
            /\ \A s \in Procs : CleanAt(s)

\* Steps at which CleanAt asks something.
Asking == {"built", "network", "run"} \cup Tearing

LEMMA CleanStep ==
  ASSUME TypeOK, SeqInv, CleanInv, NEW self \in Procs, pc[self] # "idle",
         Only(self), NEW k \in Keys, k = Key(self),
         \A x \in Keys \ {k} : /\ store'[x] = store[x]
                               /\ x \in nets' => x \in nets
                               /\ dir'[x] \in {dir[x], NoDir}
                               /\ green'[x] \subseteq green[x],
         dir'[k] # NoDir => store'[k] # Absent,
         green'[k] \subseteq {store'[k].dep},
         k \in nets' => store'[k].cid # 0 \/ (Key(self)' = k /\ Connecting(self)'),
         CleanAt(self)'
  PROVE  CleanInv'
<1>1. \A s \in Procs \ {self} : pc[s] = "idle" /\ pc'[s] = "idle"
  BY OnlyOneBusy DEF Only
<1>2. \A s \in Procs : CleanAt(s)'
  BY <1>1 DEF CleanAt, Tearing
<1>3. \A x \in Keys : Tidy(x)'
  BY DEF CleanInv, Tidy
<1>4. \A x \in Keys \ {k} : Linked(x)'
  <2> SUFFICES ASSUME NEW x \in Keys \ {k}, x \in nets'
               PROVE  store'[x].cid # 0
    BY DEF Linked
  <2>1. \A s \in Procs : Connecting(s) => s = self
    BY <1>1 DEF Connecting
  <2>2. Linked(x) /\ x \in nets
    BY DEF CleanInv
  <2> QED
    BY <2>1, <2>2 DEF Linked
<1>5. Linked(k)'
  BY DEF Linked
<1> QED
  BY <1>2, <1>3, <1>4, <1>5 DEF CleanInv

\* What the invariant says of the preview in hand.
LEMMA CleanInHand ==
  ASSUME TypeOK, SeqInv, CleanInv, NEW self \in Procs, pc[self] # "idle"
  PROVE  /\ CleanAt(self)
         /\ dir[Key(self)] # NoDir => store[Key(self)] # Absent
         /\ green[Key(self)] \subseteq {store[Key(self)].dep}
         /\ Key(self) \in nets => store[Key(self)].cid # 0 \/ Connecting(self)
         /\ \A k \in Keys \ {Key(self)} : k \in nets => store[k].cid # 0
<1>1. \A s \in Procs : Connecting(s) => s = self
  BY OnlyOneBusy DEF Connecting
<1> QED
  BY <1>1, KeyType DEF CleanInv, Tidy, Linked

\* The preview in hand has what it had.
LEMMA CalmClean ==
  ASSUME TypeOK, SeqInv, CleanInv, NEW self \in Procs, pc[self] # "idle",
         ~Connecting(self), Only(self), UNCHANGED <<store, nets>>,
         \A k \in Keys : /\ dir'[k] \in {dir[k], NoDir}
                         /\ green'[k] \subseteq green[k],
         pc'[self] \notin Asking
  PROVE  CleanInv'
<1>1. CleanAt(self)'
  BY DEF CleanAt, Asking, Tearing
<1> QED
  BY <1>1, KeyType, CleanInHand, CleanStep

\* Record p is written.
LEMMA WriteClean ==
  ASSUME TypeOK, SeqInv, CleanInv, NEW self \in Procs, pc[self] # "idle",
         Only(self), NEW p, Put(Key(self), p), p # Absent,
         UNCHANGED <<nets, dir>>,
         \A k \in Keys \ {Key(self)} : green'[k] = green[k],
         green'[Key(self)] \subseteq {p.dep},
         store[Key(self)].cid # 0 \/ Connecting(self) => p.cid # 0,
         pc'[self] \notin Asking
  PROVE  CleanInv'
<1>1. CleanAt(self)'
  BY DEF CleanAt, Asking, Tearing
<1>2. Elsewhere(self) /\ store'[Key(self)] = p
  BY PutElsewhere
<1> QED
  BY <1>1, <1>2, KeyType, CleanInHand, CleanStep DEF Elsewhere

\* On the way to a container; only the preview in hand changes.
LEMMA BuildClean ==
  ASSUME TypeOK, SeqInv, CleanInv, NEW self \in Procs,
         \/ Acquire(self) \/ Clean(self) \/ FetchSource(self)
  PROVE  CleanInv'
<1>1. /\ pc[self] \in {"acquire", "clean", "fetchSource"} /\ pc[self] # "idle"
      /\ UNCHANGED <<store, nets, green, loc>>
      /\ \A k \in Keys \ {Key(self)} : dir'[k] = dir[k]
      /\ \E l \in {"clean", "fetchSource", "build", "fail"} : Jump(self, l)
  BY DEF Acquire, Clean, FetchSource, LeaveBuild
<1>2. Only(self) /\ pc'[self] \in {"clean", "fetchSource", "build", "fail"}
  BY <1>1, StayOnly
<1>3. store[Key(self)] # Absent
  BY <1>1, WritesOver DEF Same
<1>4. CleanAt(self)'
  BY <1>2 DEF CleanAt, Tearing
<1>5. ~Connecting(self)
  BY <1>1 DEF Connecting
<1> QED
  BY <1>1, <1>2, <1>3, <1>4, <1>5, KeyType, CleanInHand, CleanStep

LEMMA BuildImageClean ==
  ASSUME TypeOK, SeqInv, HostInv, CleanInv, NEW self \in Procs,
         BuildImage(self) \/ (Built(self) /\ ~Abandoned(Key(self)))
  PROVE  CleanInv'
<1>1. /\ pc[self] \in {"build", "built"} /\ pc[self] # "idle"
      /\ UNCHANGED <<store, nets, dir, green, loc>>
      /\ \E l \in {"built", "network", "fail"} : Jump(self, l)
  BY DEF BuildImage, Built, LeaveBuild
<1>2. Only(self) /\ pc'[self] \in {"built", "network", "fail"}
      /\ loc'[self] = loc[self] /\ Key(self)' = Key(self)
  BY <1>1, StayOnly DEF Key
<1>3. CleanAt(self)'
  <2>1. CASE pc'[self] = "fail"
    BY <2>1 DEF CleanAt, Tearing
  <2>2. CASE Built(self) /\ ~Abandoned(Key(self))
    <3>1. image' = image /\ pc[self] = "built" /\ pc'[self] = "network"
      BY <1>1, <2>2 DEF Built, Jump
    <3>2. loc[self].sha \in Commits /\ image[Key(self)][loc[self].sha] # 0
      BY <1>1, <3>1, CleanInHand DEF CleanAt
    <3> QED
      BY <1>2, <3>1, <3>2 DEF CleanAt, Tearing
  <2>3. CASE BuildImage(self) /\ pc'[self] # "fail"
    <3>1. /\ pc[self] = "build" /\ dir[Key(self)] \in Commits
          /\ image' = [image EXCEPT ![Key(self)][loc[self].sha] = dir[Key(self)]]
          /\ pc'[self] = "built"
      BY <1>1, <2>3 DEF BuildImage, LeaveBuild, Jump
    <3>2. loc[self].sha = dir[Key(self)]
      BY <3>1 DEF HostInv, AtHost, HostAt
    <3>3. Key(self) \in Keys /\ dir[Key(self)] # 0
      BY <3>1, KeyType DEF Commits
    <3>4. image'[Key(self)][loc[self].sha] = dir[Key(self)]
      BY <3>1, <3>2, <3>3
    <3> QED
      BY <1>2, <3>1, <3>2, <3>3, <3>4 DEF CleanAt, Tearing
  <2> QED
    BY <2>1, <2>2, <2>3
<1>4. ~Connecting(self)
  BY <1>1 DEF Connecting
<1> QED
  BY <1>1, <1>2, <1>3, <1>4, KeyType, CleanInHand, CleanStep

LEMMA NetworkClean ==
  ASSUME TypeOK, SeqInv, CleanInv, CallsReach, NEW self \in Procs, EnsureNetwork(self)
  PROVE  CleanInv'
<1>1. /\ pc[self] = "network" /\ Jump(self, "run")
      /\ nets' = nets \cup {Key(self)} /\ UNCHANGED <<store, dir, green, image, loc>>
  BY DEF EnsureNetwork, CallsReach
<1>2. /\ Only(self) /\ pc'[self] = "run" /\ loc'[self] = loc[self]
      /\ Key(self)' = Key(self) /\ Key(self) \in Keys
  BY <1>1, StayOnly, KeyType DEF Key
<1>3. loc[self].sha \in Commits /\ image[Key(self)][loc[self].sha] # 0
  BY <1>1, CleanInHand DEF CleanAt
<1>4. CleanAt(self)' /\ Connecting(self)'
  BY <1>1, <1>2, <1>3 DEF CleanAt, Tearing, Connecting
<1> QED
  BY <1>1, <1>2, <1>4, CleanInHand, CleanStep

\* docker run has all it needs.
LEMMA RunClean ==
  ASSUME TypeOK, SeqInv, HostInv, CleanInv, HostSteady, CallsReach,
         NEW self \in Procs, Run(self)
  PROVE  CleanInv'
<1>1. pc[self] = "run" /\ UNCHANGED <<store, nets, dir, green, image>>
  BY DEF Run
<1>2. CanRun(Key(self), loc[self].sha)
  <2>1. ctr[Key(self)] = NoContainer
    BY <1>1 DEF HostInv, AtHost, HostAt
  <2> QED
    BY <1>1, <2>1, CleanInHand DEF CleanAt, CanRun
<1>3. DockerRunOk(self, Key(self), loc[self].sha) /\ Jump(self, "ready")
  BY <1>2 DEF Run, DockerRunFails, HostSteady, CallsReach
<1> DEFINE lv == [loc[self] EXCEPT !.p.cid = FreshCid]
<1>4. FreshCid \in Cids /\ SetLoc(self, lv)
  BY <1>3, FreshCidType DEF DockerRunOk
<1>5. lv.p.cid # 0 /\ lv.pr = loc[self].pr /\ lv.app = loc[self].app
  BY <1>4, LocalType, IdsAssumption DEF Locals, Preview
<1>6. Only(self) /\ pc'[self] = "ready" /\ loc'[self] = lv
  BY <1>3, <1>4, JumpOnly
<1> HIDE DEF lv
<1>7. Key(self)' = Key(self) /\ Connecting(self)' /\ CleanAt(self)'
  BY <1>5, <1>6 DEF Key, Connecting, CleanAt, Tearing
<1> QED
  BY <1>1, <1>6, <1>7, KeyType, CleanInHand, CleanStep

LEMMA ReadyClean ==
  ASSUME TypeOK, SeqInv, ClosedInv, CleanInv, NEW self \in Procs,
         AwaitReady(self) \/ IsReady(self) \/ RecordFailure(self)
  PROVE  CleanInv'
<1>1. /\ pc[self] \in {"ready", "isReady", "fail"}
      /\ UNCHANGED <<store, nets, dir, green>>
  BY DEF AwaitReady, IsReady, RecordFailure
<1>2. /\ loc' = loc
      /\ \E l \in {"isReady", "commit", "fail", "failPut"} : Jump(self, l)
  <2>1. CASE AwaitReady(self)
    BY <2>1 DEF AwaitReady
  <2>2. CASE IsReady(self)
    BY <2>2, NotAbandoned DEF IsReady
  <2>3. CASE RecordFailure(self)
    <3>1. Return(self, loc[self], "failPut")
      BY <2>3, NotAbandoned DEF RecordFailure
    <3>2. Jump(self, "failPut") /\ SetLoc(self, loc[self])
      BY <3>1 DEF Return, LoopHeads
    <3>3. loc' = loc
      BY <3>2 DEF SetLoc
    <3> QED
      BY <3>2, <3>3
  <2> QED
    BY <2>1, <2>2, <2>3
<1>3. /\ Only(self) /\ pc'[self] \in {"isReady", "commit", "fail", "failPut"}
      /\ loc'[self] = loc[self] /\ Key(self)' = Key(self)
  BY <1>2, StayOnly DEF Key
<1>4. Connecting(self) => Connecting(self)'
  BY <1>1, <1>3 DEF Connecting
<1>5. CleanAt(self)'
  BY <1>3 DEF CleanAt, Tearing
<1> QED
  BY <1>1, <1>3, <1>4, <1>5, KeyType, CleanInHand, CleanStep

\* A step that saves a record.
LEMMA SaveClean ==
  ASSUME TypeOK, SeqInv, CleanInv, NEW self \in Procs, pc[self] \in InHandSteps,
         NEW p, Put(Key(self), p), p # Absent,
         NEW lv \in Locals, NEW l \in Returns,
         PublishThen(self, lv, l) \/ Return(self, lv, l) \/ Exit(self),
         UNCHANGED <<nets, dir, green>>,
         p.dep = store[Key(self)].dep,
         store[Key(self)].cid # 0 \/ Connecting(self) => p.cid # 0
  PROVE  CleanInv'
<1>1. pc[self] # "idle"
  BY DEF InHandSteps, Same, Ahead, Tearing
<1>2. Only(self) /\ pc'[self] \in {"idle", "publish", l}
  BY ReturnKeeps
<1>3. pc'[self] \notin Asking
  BY <1>2 DEF Returns, LoopHeads, Asking, Tearing
<1>4. green[Key(self)] \subseteq {p.dep}
  BY <1>1, CleanInHand
<1> QED
  BY <1>1, <1>2, <1>3, <1>4, WriteClean

LEMMA PutBuildingClean ==
  ASSUME TypeOK, SeqInv, CleanInv, NEW self \in Procs, PutBuilding(self)
  PROVE  CleanInv'
<1> DEFINE p == loc[self].p
<1>1. /\ pc[self] = "put" /\ pc[self] \in InHandSteps /\ loc[self] \in Locals
      /\ Put(Key(self), p) /\ UNCHANGED <<nets, dir, green>>
      /\ PublishThen(self, loc[self], "acquire") /\ "acquire" \in Returns
      /\ store[Key(self)] \in Preview
  BY LocalType, KeyType DEF PutBuilding, InHandSteps, Returns
<1>2. p = [store[Key(self)] EXCEPT !.status = "building"]
  BY <1>1, InHandAlone DEF Copied
<1>3. /\ p.dep = store[Key(self)].dep /\ p.cid = store[Key(self)].cid
      /\ p.status = "building"
  BY <1>1, <1>2 DEF Preview
<1>4. p # Absent /\ ~Connecting(self)
  BY <1>1, <1>3 DEF Absent, Connecting
<1> QED
  BY <1>1, <1>3, <1>4, SaveClean

LEMMA SettleClean ==
  ASSUME TypeOK, SeqInv, CleanInv, NEW self \in Procs, Commit(self) \/ PutFailed(self)
  PROVE  CleanInv'
<1> DEFINE old == loc[self].p
           c   == store[Key(self)]
<1>1. PICK p \in Preview :
        /\ Put(Key(self), p) /\ p.dep = old.dep /\ p.cid = old.cid
        /\ p.status # "destroyed"
        /\ PublishThen(self, [loc[self] EXCEPT !.p = p], "deploy")
  <2>1. old \in Preview /\ loc[self].sha \in Commits \cup {0}
    BY LocalType
  <2>2. CASE Commit(self)
    <3> DEFINE p == GoLive(old, loc[self].sha)
    <3>1. /\ p \in Preview /\ p.dep = old.dep /\ p.cid = old.cid
          /\ p.status # "destroyed"
      BY <2>1, GoLiveType DEF GoLive, Preview
    <3> QED
      BY <2>2, <3>1 DEF Commit
  <2>3. CASE PutFailed(self)
    <3> DEFINE p == [old EXCEPT !.status = "failed"]
    <3>1. /\ p \in Preview /\ p.dep = old.dep /\ p.cid = old.cid
          /\ p.status # "destroyed"
      BY <2>1 DEF Preview, Status
    <3> QED
      BY <2>3, <3>1 DEF PutFailed
  <2> QED
    BY <2>2, <2>3
<1>2. /\ pc[self] \in {"commit", "failPut"} /\ pc[self] \in InHandSteps
      /\ UNCHANGED <<nets, dir, green>> /\ "deploy" \in Returns
  BY DEF Commit, PutFailed, InHandSteps, Ahead, Returns, LoopHeads
<1>3. c = [old EXCEPT !.cid = c.cid] /\ (old.cid = 0 => old = c)
  BY <1>2, InHandAlone DEF Copied, Ahead
<1>4. c.dep = old.dep
  BY <1>3, LocalType DEF Preview
<1>5. c.cid # 0 \/ Connecting(self) => p.cid # 0
  BY <1>1, <1>2, <1>3 DEF Connecting
<1>6. p # Absent /\ [loc[self] EXCEPT !.p = p] \in Locals
  BY <1>1, LocalType, InHand DEF Absent
<1> QED
  BY <1>1, <1>2, <1>4, <1>5, <1>6, SaveClean

\* Touch and SleepPut.
LEMMA KeepClean ==
  ASSUME TypeOK, SeqInv, CleanInv, NEW self \in Procs,
         Touch(self) \/ (self = Loop /\ SleepPut)
  PROVE  CleanInv'
<1> DEFINE old == loc[self].p
           c   == store[Key(self)]
<1>1. /\ pc[self] \in {"touch", "sleepPut"} /\ pc[self] \in InHandSteps
      /\ UNCHANGED <<nets, dir, green>>
      /\ loc[self] \in Locals /\ old \in Preview /\ {"idle", "scan"} \subseteq Returns
  BY LocalType DEF Touch, SleepPut, HealWrite, InHandSteps, Same, Returns, LoopHeads
<1>2. old = c /\ c.status = "running"
  BY <1>1, InHandAlone DEF Copied, Same
<1>3. PICK p \in Preview, lv \in Locals, l \in Returns :
        /\ Put(Key(self), p) /\ p.dep = old.dep /\ p.cid = old.cid
        /\ p.status # "destroyed"
        /\ PublishThen(self, lv, l) \/ Exit(self)
  <2>1. CASE Touch(self)
    <3> DEFINE p == [old EXCEPT !.age = 0]
    <3>1. /\ p \in Preview /\ p.dep = old.dep /\ p.cid = old.cid
          /\ p.status = old.status
      BY <1>1, PreviewFields DEF Preview
    <3> QED
      BY <1>1, <1>2, <2>1, <3>1 DEF Touch
  <2>2. CASE self = Loop /\ SleepPut
    <3> DEFINE p == [old EXCEPT !.status = "sleeping"]
    <3>1. /\ p \in Preview /\ p.dep = old.dep /\ p.cid = old.cid
          /\ p.status # "destroyed"
      BY <1>1 DEF Preview, Status
    <3>2. [loc[self] EXCEPT !.p = p] \in Locals
      BY <1>1, <3>1, InHand
    <3> QED
      BY <1>1, <2>2, <3>1, <3>2 DEF SleepPut, HealWrite
  <2> QED
    BY <2>1, <2>2
<1>4. p # Absent /\ ~Connecting(self)
  BY <1>1, <1>3 DEF Absent, Connecting
<1> QED
  BY <1>1, <1>2, <1>3, <1>4, SaveClean

LEMMA PublishClean ==
  ASSUME TypeOK, SeqInv, CleanInv, NEW self \in Procs, Publish(self)
  PROVE  CleanInv'
<1> DEFINE k == Key(self)
           old == loc[self].p
<1>1. /\ pc[self] = "publish" /\ pc[self] \in InHandSteps /\ pc[self] # "idle"
      /\ loc[self] \in Locals /\ loc[self].ret \in Returns /\ old \in Preview
      /\ UNCHANGED <<nets, dir>> /\ k \in Keys /\ ~Connecting(self)
  BY LocalType, KeyType DEF Publish, InHandSteps, Same, Connecting
<1>2. old = store[k] /\ store[k] # Absent
  BY <1>1, InHandAlone DEF Copied, Same
<1>3. green[k] \subseteq {old.dep}
  BY <1>1, <1>2, CleanInHand
<1>4. ASSUME NEW lv \in Locals, Return(self, lv, loc[self].ret)
      PROVE  Only(self) /\ pc'[self] \notin Asking
  <2>1. Only(self) /\ pc'[self] \in {"idle", "publish", loc[self].ret}
    BY <1>4, ReturnKeeps
  <2> QED
    BY <1>1, <2>1 DEF Returns, LoopHeads, Asking, Tearing
<1>5. CASE CreateDeployment(self, k)
  <2> DEFINE p == [old EXCEPT !.dep = FreshDep]
  <2>1. FreshDep \in Deps
    BY <1>5, FreshDepType DEF CreateDeployment
  <2>2. p \in Preview /\ p.dep = FreshDep /\ p.cid = old.cid
    BY <1>1, <2>1 DEF Preview
  <2>3. /\ Put(k, p) /\ Return(self, [loc[self] EXCEPT !.p = p], loc[self].ret)
        /\ green' = [green EXCEPT ![k] = @ \cup {p.dep}] /\ old.dep = 0
    BY <1>5 DEF CreateDeployment
  <2> HIDE DEF p
  <2>4. p # Absent
    BY <2>1, <2>2, IdsAssumption DEF Absent
  <2>5. green[k] = {}
    BY <1>1, <1>3, <2>3, IdsAssumption
  <2>6. /\ green'[k] \subseteq {p.dep}
        /\ \A x \in Keys \ {k} : green'[x] = green[x]
    BY <1>1, <2>3, <2>5
  <2>7. [loc[self] EXCEPT !.p = p] \in Locals
    BY <1>1, <2>2, InHand
  <2> QED
    BY <1>1, <1>2, <1>4, <2>2, <2>3, <2>4, <2>6, <2>7, WriteClean
<1>6. CASE SetDeploymentStatus(self, k)
  <2>1. /\ green' = [green EXCEPT ![k] = @ \cup {old.dep}] /\ store' = store
        /\ Return(self, loc[self], loc[self].ret)
    BY <1>6 DEF SetDeploymentStatus
  <2>2. /\ green'[k] \subseteq {old.dep}
        /\ \A x \in Keys \ {k} : green'[x] = green[x]
    BY <1>1, <1>3, <2>1
  <2>3. Put(k, old)
    BY <1>2, <2>1 DEF Put
  <2> QED
    BY <1>1, <1>2, <1>4, <2>1, <2>2, <2>3, WriteClean
<1>7. CASE PublishFails(self)
  BY <1>1, <1>4, <1>7, CalmClean DEF PublishFails
<1> QED
  BY <1>5, <1>6, <1>7 DEF Publish

-----------------------------------------------------------------------------
(* Steps that add nothing to what a preview has.                           *)

LEMMA QuietClean ==
  ASSUME TypeOK, SeqInv, CleanInv, NEW self \in Goroutines,
         \/ NextApp(self) \/ CheckCapacity(self)
         \/ HandleClosed(self) \/ PreviewEnvironments(self)
         \/ HandleOpened(self) \/ Redeploy(self)
         \/ ListForTeardown(self) \/ TornDown(self)
  PROVE  CleanInv'
<1>1. self \in Procs
  BY InGoroutines
<1>2. /\ pc[self] # "idle" /\ ~Connecting(self)
      /\ UNCHANGED <<store, nets, dir>>
  BY DEF NextApp, CheckCapacity, HandleClosed, PreviewEnvironments, HandleOpened,
         Redeploy, ListForTeardown, TornDown, Goto, Connecting
<1>3. Only(self) /\ pc'[self] \notin Asking
  BY QuietMoves DEF Asking, Tearing
<1>4. \A k \in Keys : green'[k] \subseteq green[k]
  <2>1. CASE TornDown(self)
    BY <2>1 DEF TornDown
  <2>2. CASE ~TornDown(self)
    <3>1. green' = green
      BY <2>2 DEF NextApp, CheckCapacity, HandleClosed, PreviewEnvironments,
                  HandleOpened, Redeploy, ListForTeardown
    <3> QED
      BY <3>1
  <2> QED
    BY <2>1, <2>2
<1> QED
  BY <1>1, <1>2, <1>3, <1>4, CalmClean

LEMMA RequestClean ==
  ASSUME TypeOK, SeqInv, CleanInv, NEW self \in Procs,
         Resolve(self) \/ Probe(self) \/ (self # Loop /\ Wake(self))
  PROVE  CleanInv'
<1>1. /\ pc[self] \in {"resolve", "wake", "probe"}
      /\ UNCHANGED <<store, nets, dir, green>>
      /\ loc[self] \in Locals /\ loc[self].ret \in Returns
  BY LocalType DEF Resolve, Probe, Wake
<1>2. pc[self] # "idle" /\ ~Connecting(self)
  BY <1>1 DEF Connecting
<1>3. Only(self) /\ pc'[self] \notin Asking
  <2>1. CASE \E l \in {"touch", "wake", "probe", "recreate", "wakePut"} :
               Jump(self, l) /\ \E lv : SetLoc(self, lv)
    BY <2>1, JumpOnly DEF Asking, Tearing
  <2>2. CASE \E l \in {"probe", "recreate", "wakePut"} : Jump(self, l) /\ loc' = loc
    BY <2>2, StayOnly DEF Asking, Tearing
  <2>3. CASE Return(self, loc[self], loc[self].ret) \/ Exit(self)
    <3>1. "idle" \in Returns
      BY DEF Returns
    <3>2. Only(self) /\ pc'[self] \in {"idle", "publish", loc[self].ret}
      BY <1>1, <2>3, <3>1, ReturnKeeps
    <3> QED
      BY <1>1, <3>2 DEF Returns, LoopHeads, Asking, Tearing
  <2> QED
    BY <2>1, <2>2, <2>3 DEF Resolve, Probe, Wake, WakeFailed
<1> QED
  BY <1>1, <1>2, <1>3, CalmClean

\* Tick's own steps.
LEMMA TickClean ==
  ASSUME TypeOK, SeqInv, CleanInv,
         ListManaged \/ Sleep \/ Reap \/ ReapDirs
  PROVE  CleanInv'
<1>1. /\ Loop \in Procs /\ pc[Loop] \in {"ps", "sleep", "scan"}
      /\ UNCHANGED <<store, nets, green>> /\ loc[Loop] \in Locals
      /\ \A k \in Keys : dir'[k] \in {dir[k], NoDir}
  BY LoopInProcs, LocalType DEF ListManaged, LoopDo, Goto, Sleep, Reap, ReapDirs
<1>2. pc[Loop] # "idle" /\ ~Connecting(Loop)
  BY <1>1 DEF Connecting
<1>3. Only(Loop) /\ pc'[Loop] \notin Asking
  <2>1. CASE ListManaged
    <3>1. Jump(Loop, "scan") /\ \E lv : SetLoc(Loop, lv)
      BY <2>1 DEF ListManaged, LoopDo, Goto
    <3> QED
      BY <1>1, <3>1, JumpOnly DEF Asking, Tearing
  <2>2. CASE Sleep
    <3>1. \/ Jump(Loop, "sleepPut") /\ loc' = loc
          \/ Return(Loop, loc[Loop], "scan")
      BY <2>2 DEF Sleep
    <3>2. Only(Loop) /\ pc'[Loop] \in {"idle", "scan", "sleepPut"}
      BY <1>1, <3>1, StayOnly, ReturnOnly
    <3> QED
      BY <3>2 DEF Asking, Tearing
  <2>3. CASE Reap
    BY <1>1, <2>3 DEF Reap, Only, Asking, Tearing
  <2>4. CASE ReapDirs
    BY <1>1, <2>4, JumpOnly DEF ReapDirs, Exit, Asking, Tearing
  <2> QED
    BY <2>1, <2>2, <2>3, <2>4
<1> QED
  BY <1>1, <1>2, <1>3, CalmClean

\* The next record of a list.
LEMMA TakeClean ==
  ASSUME TypeOK, SeqInv, CleanInv, NEW self \in Procs,
         TearNext(self) \/ (self = Loop /\ Scan)
  PROVE  CleanInv'
<1>1. PICK k \in Pending(self), ret \in {"tearNext", "scan"},
           l \in {"tearHost", "recreate", "sleep", "scan"} :
        Jump(self, l) /\ SetLoc(self, Take(self, k, ret))
  <2>1. CASE TearNext(self)
    BY <2>1 DEF TearNext, Goto, Take
  <2>2. CASE self = Loop /\ Scan
    <3>1. PICK k \in Pending(Loop) :
            /\ Jump(Loop, Verdict(loc[Loop].todo[k], managed[k]))
            /\ SetLoc(Loop, Take(Loop, k, "scan"))
      BY <2>2 DEF Scan, Take
    <3>2. Verdict(loc[Loop].todo[k], managed[k])
            \in {"tearHost", "recreate", "sleep", "scan"}
      BY VerdictSteps
    <3> QED
      BY <2>2, <3>1, <3>2
  <2> QED
    BY <2>1, <2>2
<1>2. /\ pc[self] \in {"tearNext", "scan"} /\ ret \in Returns
      /\ UNCHANGED <<store, nets, dir, green>>
  BY DEF TearNext, Goto, Scan, Returns, LoopHeads
<1>3. pc[self] # "idle" /\ ~Connecting(self)
  BY <1>2 DEF Connecting
<1>4. /\ Only(self) /\ pc'[self] = l /\ loc'[self].ret = ret
  BY <1>1, <1>2, JumpOnly, Taken
<1>5. CleanAt(self)'
  BY <1>4 DEF CleanAt, Tearing
<1> QED
  BY <1>2, <1>3, <1>4, <1>5, KeyType, CleanInHand, CleanStep

\* Container, network and checkout go ...
LEMMA TearHostClean ==
  ASSUME TypeOK, SeqInv, HostInv, CleanInv, HostSteady, NEW self \in Procs,
         TearHost(self)
  PROVE  CleanInv'
<1> DEFINE k == Key(self)
           p == loc[self].p
<1>1. /\ pc[self] = "tearHost" /\ pc[self] \in InHandSteps /\ pc[self] # "idle"
      /\ k \in Keys /\ UNCHANGED <<store, green>>
      /\ Jump(self, "tearDelete") /\ loc' = loc
      /\ Remove(k, p.cid) /\ FreeNetwork(k, p.cid)
      /\ dir' = [dir EXCEPT ![k] = NoDir]
  BY KeyType DEF TearHost, InHandSteps, Tearing
<1>2. Only(self) /\ pc'[self] = "tearDelete" /\ loc'[self] = loc[self]
  BY <1>1, StayOnly
<1>3. loc[self].ret # "deploy" /\ p = store[k] /\ ~Connecting(self)
  <2>1. CleanAt(self)
    BY <1>1, CleanInHand
  <2>2. loc[self].ret # "deploy"
    BY <1>1, <2>1 DEF CleanAt, Tearing
  <2> QED
    BY <1>1, <2>2, InHandAlone DEF Copied, Tearing, Connecting
<1>4. ctr'[k] = NoContainer
  <2>1. ctr' = [ctr EXCEPT ![k] = IF @.cid = p.cid THEN NoContainer ELSE @]
    BY <1>1, DockerWorks
  <2>2. ctr[k] = NoContainer \/ Names(p, ctr[k])
    BY <1>1 DEF HostInv, AtHost, HostAt
  <2> QED
    BY <1>1, <2>1, <2>2 DEF Names
<1>5. nets' = nets \ {k}
  <2>1. nets' = IF p.cid # 0 THEN nets \ {k} ELSE nets
    BY <1>1, <1>4, DockerWorks DEF FreeNetwork
  <2>2. p.cid = 0 => k \notin nets
    BY <1>1, <1>3, CleanInHand
  <2> QED
    BY <2>1, <2>2
<1>6. dir'[k] = NoDir /\ \A x \in Keys : dir'[x] \in {dir[x], NoDir}
  BY <1>1
<1>7. CleanAt(self)'
  <2>1. Key(self)' = k
    BY <1>2 DEF Key
  <2> QED
    BY <1>2, <1>3, <1>5, <1>6, <2>1 DEF CleanAt, Tearing
<1> QED
  BY <1>1, <1>2, <1>5, <1>6, <1>7, CleanInHand, CleanStep

\* ... and then Deployment and record.
LEMMA TearDeleteClean ==
  ASSUME TypeOK, SeqInv, HostInv, CleanInv, CallsReach, NEW self \in Procs,
         TearDelete(self)
  PROVE  CleanInv'
<1> DEFINE k == Key(self)
           p == loc[self].p
<1>1. /\ pc[self] = "tearDelete" /\ pc[self] \in InHandSteps /\ pc[self] # "idle"
      /\ k \in Keys /\ UNCHANGED <<nets, dir>> /\ Put(k, Absent)
      /\ loc[self] \in Locals /\ loc[self].ret \in Returns
      /\ Return(self, loc[self], loc[self].ret)
  BY KeyType, LocalType DEF TearDelete, InHandSteps, Tearing
<1>2. Only(self) /\ pc'[self] \notin Asking
  <2>1. Only(self) /\ pc'[self] \in {"idle", "publish", loc[self].ret}
    BY <1>1, ReturnKeeps
  <2> QED
    BY <1>1, <2>1 DEF Returns, LoopHeads, Asking, Tearing
<1>3. k \notin nets /\ dir[k] = NoDir
  BY <1>1, CleanInHand DEF CleanAt
<1>4. green' = [green EXCEPT ![k] = @ \ {p.dep}]
  BY DEF TearDelete, HostInv, CallsReach
<1>5. green[k] \subseteq {p.dep}
  BY <1>1, CleanInHand, InHandAlone DEF Copied, Tearing
<1>6. green'[k] = {} /\ \A x \in Keys : green'[x] \subseteq green[x]
  BY <1>1, <1>4, <1>5
<1>7. Elsewhere(self) /\ store'[k] = Absent
  BY <1>1, PutElsewhere
<1>8. CleanAt(self)'
  BY <1>2 DEF CleanAt, Asking, Tearing
<1> QED
  BY <1>1, <1>2, <1>3, <1>6, <1>7, <1>8, CleanInHand, CleanStep DEF Elsewhere

-----------------------------------------------------------------------------
(* Any step.                                                               *)

LEMMA EasyClean ==
  ASSUME \A s \in Procs : pc'[s] \notin Asking,
         \A k \in Keys : Tidy(k)' /\ (k \in nets' => store'[k].cid # 0)
  PROVE  CleanInv'
BY DEF CleanInv, CleanAt, Linked, Asking, Tearing

LEMMA StillClean ==
  ASSUME CleanInv, UNCHANGED <<store, dockerVars, green, pc, loc>>
  PROVE  CleanInv'
<1>1. \A s \in Procs : /\ Key(s)' = Key(s)
                       /\ CleanAt(s) => CleanAt(s)'
                       /\ Connecting(s) => Connecting(s)'
  BY DEF Key, CleanAt, Connecting
<1> QED
  BY <1>1 DEF CleanInv, Tidy, Linked

LEMMA RestedClean ==
  ASSUME CleanInv, \A s \in Procs : pc[s] = "idle"
  PROVE  \A k \in Keys : Tidy(k) /\ (k \in nets => store[k].cid # 0)
BY DEF CleanInv, Linked, Connecting

LEMMA WakePutClean ==
  ASSUME TypeOK, SeqInv, HostInv, CleanInv, NEW self \in Goroutines, WakePut(self)
  PROVE  CleanInv'
<1> DEFINE k == Key(self)
           old == loc[self].p
           p == [old EXCEPT !.status = "running", !.age = 0]
<1>1. /\ self \in Procs /\ k \in Keys /\ pc[self] = "wakePut" /\ pc[self] # "idle"
      /\ UNCHANGED <<nets, dir, green>> /\ Put(k, p)
      /\ loc[self].ret = "idle" /\ old \in Preview
      /\ HostAt("wakePut", loc[self], ctr[k], dir[k], store[k], closed)
  BY InGoroutines, KeyType, LocalType, TickPlace DEF WakePut, HostInv, AtHost
<1>2. old = store[k]
  BY <1>1 DEF HostAt
<1>3. p.cid = old.cid /\ p.dep = old.dep /\ p.status = "running"
  BY <1>1 DEF Preview
<1> HIDE DEF p
<1>4. store'[k] = p /\ \A x \in Keys \ {k} : store'[x] = store[x]
  BY <1>1 DEF Put
<1>5. \A x \in Keys : /\ store'[x].cid = store[x].cid
                      /\ store'[x].dep = store[x].dep
                      /\ store[x] # Absent => store'[x] # Absent
  BY <1>2, <1>3, <1>4 DEF Absent
<1>6. \A x \in Keys : x \in nets => store[x].cid # 0
  <2>1. ~Connecting(self)
    BY <1>1 DEF Connecting
  <2> QED
    BY <1>1, <2>1, CleanInHand
<1>7. \A x \in Keys : Tidy(x)'
  BY <1>1, <1>5 DEF CleanInv, Tidy
<1>8. \A s \in Procs : pc'[s] \in {"idle", "publish"}
  <2>1. \A s \in Procs \ {self} : pc[s] = "idle"
    BY <1>1, OnlyOneBusy
  <2> QED
    BY <1>1, <2>1 DEF WakePut, Jump
<1>9. \A s \in Procs : pc'[s] \notin Asking
  BY <1>8 DEF Asking, Tearing
<1> QED
  BY <1>1, <1>5, <1>6, <1>7, <1>9, EasyClean

LEMMA DeployClean ==
  ASSUME TypeOK, SeqInv, HostInv, ClosedInv, CleanInv, HostSteady, CallsReach,
         NEW self \in Goroutines, DeployStep(self)
  PROVE  CleanInv'
<1>1. self \in Procs
  BY InGoroutines
<1>2. Built(self) => ~Abandoned(Key(self))
  BY <1>1, NotAbandoned DEF Built
<1> QED
  BY <1>1, <1>2, QuietClean, PutBuildingClean, PublishClean, BuildClean,
     BuildImageClean, NetworkClean, RunClean, ReadyClean, SettleClean,
     TearHostClean, TearDeleteClean DEF DeployStep

LEMMA HandlerClean ==
  ASSUME TypeOK, SeqInv, HostInv, CleanInv, NEW self \in Goroutines,
         HandlerStep(self)
  PROVE  CleanInv'
<1>1. self \in Procs /\ self # Loop
  BY InGoroutines
<1>2. pc[self] \notin {"recreate", "rerun"}
  BY <1>1 DEF HostInv, AtHost, HostAt, Repairing
<1>3. pc[self] # "idle" => pc[self] \notin {"wakeList", "wakeNext"}
  BY <1>1, Busy1 DEF OnItsWay, DeploySteps, TearSteps, RequestSteps, TickSteps
<1>4. /\ ~WakeList(self) /\ ~WakeNext(self) /\ ~WokenUp(self)
      /\ ~Recreate(self) /\ ~RunAgain(self)
  BY <1>2, <1>3 DEF WakeList, WakeNext, WokenUp, Goto, Recreate, RunAgain
<1> QED
  BY <1>1, <1>4, QuietClean, RequestClean, TakeClean, WakePutClean, KeepClean
     DEF HandlerStep

LEMMA LoopClean ==
  ASSUME TypeOK, SeqInv, HostInv, CleanInv, HostSteady, CallsReach, LoopStep
  PROVE  CleanInv'
<1>1. Loop \in Procs /\ pc[Loop] \notin Repairing
  BY LoopInProcs DEF HostInv, AtHost, HostAt
<1>2. ~HealPut /\ ~HealFail /\ ~Recreate(Loop) /\ ~RunAgain(Loop)
  BY <1>1 DEF HealPut, HealFail, Recreate, RunAgain, Repairing
<1> QED
  BY <1>1, <1>2, TickClean, TakeClean, KeepClean, PublishClean, TearHostClean,
     TearDeleteClean DEF LoopStep

LEMMA BeginsClean ==
  ASSUME TypeOK, CleanInv, Sequential, NEW l, NEW ev, NEW r,
         Begins(l, ev, r), UNCHANGED <<store, nets, dir, green>>,
         l \in {"opened", "closing", "list", "redeploy", "resolve"}
  PROVE  CleanInv'
<1>1. PICK g \in Goroutines :
        /\ \A s \in Procs : pc[s] = "idle"
        /\ Only(g) /\ pc'[g] = l
  BY Began
<1>2. \A s \in Procs : pc'[s] \in {"idle", l}
  BY <1>1 DEF Only
<1>3. \A s \in Procs : pc'[s] \notin Asking
  BY <1>2 DEF Asking, Tearing
<1>4. \A k \in Keys : Tidy(k)' /\ (k \in nets' => store'[k].cid # 0)
  BY <1>1, RestedClean DEF Tidy
<1> QED
  BY <1>3, <1>4, EasyClean

LEMMA EnvironmentClean ==
  ASSUME TypeOK, CleanInv, Sequential, HostSteady, Environment
  PROVE  CleanInv'
<1>1. ASSUME NEW r \in PRs, Opened(r) \/ Updated(r) \/ Closed(r) PROVE CleanInv'
  <2>1. UNCHANGED <<store, dockerVars, green>>
    BY <1>1 DEF Opened, Updated, Closed
  <2> QED
    BY <1>1, <2>1, WebhookMoves, BeginsClean, StillClean
<1>2. ASSUME NEW r \in PRs, Commented(r) PROVE CleanInv'
  <2>1. UNCHANGED <<store, nets, dir, green>> /\ "wake" \notin Commands
    BY <1>2 DEF Commented, Sequential
  <2> QED
    BY <1>2, <2>1, CommentMoves, BeginsClean
<1>3. ASSUME NEW r \in PRs, ForgetPR(r) PROVE CleanInv'
  BY <1>3, StillClean DEF ForgetPR
<1>4. ASSUME NEW k \in Keys, Requested(k) PROVE CleanInv'
  <2>1. UNCHANGED <<store, nets, dir, green>>
    BY <1>4 DEF Requested
  <2> QED
    BY <1>4, <2>1, RequestMoves, BeginsClean
<1>5. ASSUME NEW k \in Keys, Prune(k) \/ AppExits(k) \/ CliDestroy(k) PROVE CleanInv'
  BY <1>5 DEF Prune, AppExits, CliDestroy, HostSteady
<1>6. CASE Restart
  BY <1>6 DEF Restart, HostSteady
<1>7. CASE Outage \/ Recovery
  BY <1>7, StillClean DEF Outage, Recovery
<1> QED
  BY <1>1, <1>2, <1>3, <1>4, <1>5, <1>6, <1>7, Zenon DEF Environment

LEMMA TickStartsClean ==
  ASSUME TypeOK, CleanInv, Sequential, NEW elapsed \in BOOLEAN, Tick(elapsed)
  PROVE  CleanInv'
<1>1. TickList(elapsed) /\ \A s \in Procs : pc[s] = "idle"
  BY Rested DEF Tick
<1>2. UNCHANGED <<nets, dir, green>> /\ \A s \in Procs : pc'[s] \in {"idle", "ps"}
  BY <1>1, TickBegins DEF TickList
<1>3. \A s \in Procs : pc'[s] \notin Asking
  BY <1>2 DEF Asking, Tearing
<1>4. \A k \in Keys : /\ store'[k].cid = store[k].cid
                      /\ store'[k].dep = store[k].dep
                      /\ store[k] # Absent => store'[k] # Absent
  BY <1>1, TickBegins, OlderKeeps
<1>5. \A k \in Keys : Tidy(k)' /\ (k \in nets' => store'[k].cid # 0)
  BY <1>1, <1>2, <1>4, RestedClean DEF Tidy
<1> QED
  BY <1>3, <1>5, EasyClean

LEMMA InitClean == Init => CleanInv
<1> SUFFICES ASSUME Init PROVE CleanInv
  OBVIOUS
<1>1. FirstCid # 0
  BY PartsAssumption, IdsAssumption DEF FirstCid
<1>2. \A k \in Keys : Tidy(k) /\ Linked(k)
  BY <1>1 DEF Init, If, DeployedPreview, Absent, Tidy, Linked
<1>3. \A s \in Procs : CleanAt(s)
  BY DEF Init, CleanAt, Tearing
<1> QED
  BY <1>2, <1>3 DEF CleanInv

LEMMA NextClean ==
  ASSUME TypeOK, SeqInv, HostInv, ClosedInv, CleanInv, Sequential, HostSteady,
         CallsReach, [Next]_vars
  PROVE  CleanInv'
<1>1. CASE Environment
  BY <1>1, EnvironmentClean
<1>2. CASE \E elapsed \in BOOLEAN : Tick(elapsed)
  BY <1>2, TickStartsClean
<1>3. CASE LoopStep
  BY <1>3, LoopClean
<1>4. CASE \E g \in Goroutines : GoroutineStep(g)
  BY <1>4, DeployClean, HandlerClean DEF GoroutineStep
<1>5. CASE UNCHANGED vars
  BY <1>5, StillClean DEF vars
<1> QED
  BY <1>1, <1>2, <1>3, <1>4, <1>5 DEF Next

\* Once a closed webhook is handled, the pull request has no record, container,
\* network, checkout or active Deployment left, and none comes back.
THEOREM ClosedLeavesNothingHeld ==
  ASSUME Sequential, Heard, HostSteady, CallsReach
  PROVE  Spec => []ClosedLeavesNothing
<1>1. TypeOK /\ HostInv /\ ClosedInv /\ CleanInv => ClosedLeavesNothing
  <2> SUFFICES ASSUME TypeOK, HostInv, ClosedInv, CleanInv, Quiet,
                      NEW k \in Keys, k[1] \in closed
               PROVE  /\ store[k] = Absent /\ ctr[k] = NoContainer /\ k \notin nets
                      /\ dir[k] = NoDir /\ green[k] = {}
    BY DEF ClosedLeavesNothing
  <2>1. \A s \in Procs : pc[s] = "idle"
    BY DEF Quiet, Busy
  <2>2. store[k] = Absent
    BY <2>1, NoneClosedAtRest
  <2>3. Matches(ctr[k], Absent)
    BY <2>1, <2>2, RestedHost
  <2>4. Tidy(k) /\ (k \in nets => store[k].cid # 0)
    BY <2>1, RestedClean
  <2>5. ctr[k] = NoContainer /\ k \notin nets
    BY <2>2, <2>3, <2>4 DEF Matches, Names, Absent
  <2>6. green[k] \subseteq {0} /\ green[k] \subseteq Deps
    BY <2>2, <2>4 DEF Tidy, Absent
  <2> QED
    BY <2>2, <2>4, <2>5, <2>6, IdsAssumption DEF Tidy
<1> QED
  BY <1>1, InitClean, NextClean, TypeCorrect, SeqCorrect, HostCorrect,
     ClosedCorrect, PTL DEF Spec
=============================================================================
