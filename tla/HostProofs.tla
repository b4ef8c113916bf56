------------------------------ MODULE HostProofs -----------------------------
(***************************************************************************)
(* One thing at a time on a host that does what it is asked: containers    *)
(* are those the records name.  The invariant, on top of SerialProofs'     *)
(* SeqInv, is HostInv: a container is the one its record names, but for    *)
(* the one being changed, and there it is what the step needs.             *)
(***************************************************************************)
EXTENDS SerialProofs

USE DEF TypeOK, DaemonTypeOK, DockerTypeOK, GithubTypeOK, ThreadTypeOK,
        TickTypeOK, WorldTypeOK, daemonVars, dockerVars, githubVars, tickVars,
        worldVars

-----------------------------------------------------------------------------
(* Containers and records.                                                 *)

\* docker does what it is asked, nobody else touches its containers, and the
\* daemon does not die.
HostSteady ==
  Faults \cap {"prune", "exit", "crash", "cli", "docker", "leftover"} = {}

\* Record p names container c.
Names(p, c) == p.cid # 0 /\ c.cid = p.cid

\* There is at most the container that record p names, as p says it is.
Matches(c, p) ==
  /\ c = NoContainer \/ Names(p, c)
  /\ p.status \in {"running", "sleeping"} => Names(p, c) /\ c.src = p.img
  /\ p.status = "running" => c.up

\* The steps between a change of the container and that of the record.
Between == {"ready", "isReady", "commit", "fail", "failPut", "tearHost",
            "tearDelete", "sleepPut"}

Unsettled(k) == \E s \in Procs : pc[s] \in Between /\ Key(s) = k

\* The steps that start from a record that is not missing its container.
Repairing == {"recreate", "rerun", "healPut", "healFail"}

\* What step l of a goroutine with locals lv finds: container c, checkout d and
\* record r of the preview in hand, shut the closed pull requests.
HostAt(l, lv, c, d, r, shut) ==
  /\ l = "build" => d = lv.sha
  /\ l = "run" => c = NoContainer
  /\ l \in Finishing => Names(lv.p, c) /\ c.src = lv.sha /\ c.up
  /\ l \in {"fail", "failPut", "tearHost"} => c = NoContainer \/ Names(lv.p, c)
  /\ l = "fail" => lv.pr \notin shut \/ lv.p = r
  /\ l \in {"network", "run"} \cup Finishing => lv.pr \notin shut
  /\ l = "tearDelete" => c = NoContainer
  /\ l = "sleepPut" => Names(lv.p, c) /\ c.src = lv.p.img
  /\ l \in {"wake", "probe", "wakePut"} => lv.p = r
  /\ l \in {"probe", "wakePut"} => c.up
  /\ l \notin Repairing

AtHost(s) == HostAt(pc[s], loc[s], ctr[Key(s)], dir[Key(s)], store[Key(s)], closed)

ImagesTrue == \A k \in Keys, c \in Commits : image[k][c] \in {0, c}

\* What Tick still has to look at has the container docker listed.
ListTrue ==
  pc[Loop] \notin {"idle", "ps"} =>
    \A k \in Keys : loc[Loop].todo[k] # Absent => managed[k] = ctr[k].cid

HostInv ==
  /\ flaky \subseteq Faults /\ ImagesTrue /\ ListTrue
  /\ \A k \in Keys : Unsettled(k) \/ Matches(ctr[k], store[k])
  /\ \A s \in Procs : AtHost(s)

-----------------------------------------------------------------------------
(* A step of the goroutine that is busy.                                   *)

\* At these steps a goroutine asks nothing of the container in hand.
Calm == PCs \ (Between \cup Repairing
                 \cup {"build", "run", "network", "wake", "probe", "wakePut"})

LEMMA CalmHost ==
  ASSUME NEW l \in Calm
  PROVE  /\ l \notin Between
         /\ \A lv, c, d, r, shut : HostAt(l, lv, c, d, r, shut)
BY DEF Calm, HostAt, Between, Finishing, Repairing

LEMMA IdleCalm == "idle" \in Calm
BY DEF Calm, PCs, Between, Repairing

LEMMA HostStep ==
  ASSUME TypeOK, SeqInv, HostInv, SeqInv', NEW self \in Procs,
         pc[self] # "idle", Only(self),
         flaky' = flaky, ImagesTrue', ListTrue', AtHost(self)',
         \A k \in Keys : \/ pc'[self] \in Between /\ Key(self)' = k
                         \/ Matches(ctr'[k], store'[k])
  PROVE  HostInv'
<1>1. \A s \in Procs \ {self} : pc'[s] = "idle"
  BY DEF SeqInv, Alone, Only
<1>2. \A s \in Procs : AtHost(s)'
  BY <1>1, IdleCalm, CalmHost DEF AtHost
<1>3. \A k \in Keys : Unsettled(k)' \/ Matches(ctr'[k], store'[k])
  BY DEF Unsettled
<1> QED
  BY <1>2, <1>3 DEF HostInv

\* Nothing of another preview is between its container and its record.
LEMMA SettledElse ==
  ASSUME TypeOK, SeqInv, HostInv, NEW self \in Procs, pc[self] # "idle",
         NEW k \in Keys, k # Key(self) \/ pc[self] \notin Between
  PROVE  Matches(ctr[k], store[k])
<1>1. \A s \in Procs : pc[s] \in Between => s = self
  BY DEF SeqInv, Alone, Between
<1> QED
  BY <1>1 DEF HostInv, Unsettled

LEMMA ListTrueGoroutine ==
  ASSUME TypeOK, SeqInv, NEW self \in Procs, pc[self] # "idle", self # Loop,
         Only(self)
  PROVE  ListTrue'
BY LoopInProcs DEF SeqInv, Alone, Only, ListTrue

\* Tick goes on with what is left of its list.
LEMMA ListTrueLoop ==
  ASSUME TypeOK, SeqInv, HostInv, pc[Loop] \notin {"idle", "ps"},
         managed' = managed,
         \A k \in Keys : loc'[Loop].todo[k] # Absent =>
            loc[Loop].todo[k] # Absent /\ ctr'[k].cid = ctr[k].cid
  PROVE  ListTrue'
BY DEF HostInv, ListTrue

\* Only the preview in hand is touched, and it is settled or still being so.
LEMMA MoveStep ==
  ASSUME TypeOK, SeqInv, HostInv, SeqInv', NEW self \in Procs,
         pc[self] # "idle", Only(self),
         flaky' = flaky, ImagesTrue', ListTrue', AtHost(self)',
         \A k \in Keys \ {Key(self)} : ctr'[k] = ctr[k] /\ store'[k] = store[k],
         \/ pc'[self] \in Between /\ Key(self)' = Key(self)
         \/ Matches(ctr'[Key(self)], store'[Key(self)])
  PROVE  HostInv'
<1>1. \A k \in Keys \ {Key(self)} : Matches(ctr'[k], store'[k])
  BY SettledElse
<1>2. \A k \in Keys : \/ pc'[self] \in Between /\ Key(self)' = k
                      \/ Matches(ctr'[k], store'[k])
  BY <1>1
<1> QED
  BY <1>2, HostStep

LEMMA CalmStep ==
  ASSUME TypeOK, SeqInv, HostInv, SeqInv', NEW self \in Procs,
         pc[self] # "idle", Only(self), pc'[self] \in Calm,
         flaky' = flaky, ImagesTrue', ListTrue',
         \A k \in Keys \ {Key(self)} : ctr'[k] = ctr[k] /\ store'[k] = store[k],
         Matches(ctr'[Key(self)], store'[Key(self)])
  PROVE  HostInv'
<1>1. AtHost(self)'
  BY CalmHost DEF AtHost
<1> QED
  BY <1>1, MoveStep

\* Neither container nor record changes.
LEMMA CalmStill ==
  ASSUME TypeOK, SeqInv, HostInv, SeqInv', NEW self \in Procs,
         pc[self] \notin Between \cup {"idle"}, Only(self), pc'[self] \in Calm,
         flaky' = flaky, ImagesTrue', ListTrue', ctr' = ctr, store' = store
  PROVE  HostInv'
<1>1. Matches(ctr[Key(self)], store[Key(self)])
  BY SettledElse, KeyType
<1> QED
  BY <1>1, CalmStep

\* What a return keeps of the locals.
LEMMA ReturnKeeps ==
  ASSUME TypeOK, NEW self \in Procs, NEW lv \in Locals, NEW l,
         \/ Return(self, lv, l)
         \/ l \in Returns /\ PublishThen(self, lv, l)
         \/ Exit(self)
  PROVE  /\ Only(self) /\ pc'[self] \in {"idle", "publish", l}
         /\ \/ pc'[self] = "idle"
            \/ /\ loc'[self].todo = lv.todo /\ loc'[self].ev = lv.ev
               /\ loc'[self].pr = lv.pr /\ loc'[self].app = lv.app
               /\ pc'[self] \notin LoopHeads =>
                    loc'[self].p = lv.p /\ loc'[self].sha = lv.sha
<1>1. LET new == [lv EXCEPT !.p = Absent] IN
        new.todo = lv.todo /\ new.ev = lv.ev /\ new.pr = lv.pr /\ new.app = lv.app
  BY AbsentType, InHand
<1>2. CASE Return(self, lv, l)
  BY <1>1, <1>2, ReturnOnly
<1>3. CASE l \in Returns /\ PublishThen(self, lv, l)
  <2> DEFINE pub == [lv EXCEPT !.ret = l]
             old == [lv EXCEPT !.p = Absent]
  <2>1. /\ pub.todo = lv.todo /\ pub.ev = lv.ev /\ pub.pr = lv.pr
        /\ pub.app = lv.app /\ pub.p = lv.p /\ pub.sha = lv.sha
    BY <1>3 DEF Locals
  <2>2. /\ Only(self)
        /\ \/ pc'[self] = "publish" /\ loc'[self] = pub
           \/ pc'[self] = "idle"
           \/ pc'[self] = l /\ l \in LoopHeads /\ loc'[self] = old
           \/ pc'[self] = l /\ loc'[self] = lv
    BY <1>3, PublishThenOnly
  <2> HIDE DEF pub
  <2>3. /\ old.todo = lv.todo /\ old.ev = lv.ev /\ old.pr = lv.pr
        /\ old.app = lv.app
    BY <1>1
  <2> HIDE DEF old
  <2> QED
    BY <2>1, <2>2, <2>3
<1>4. CASE Exit(self)
  BY <1>4, JumpOnly DEF Exit
<1> QED
  BY <1>2, <1>3, <1>4

\* The list of Tick, whoever steps.
LEMMA ListKept ==
  ASSUME TypeOK, SeqInv, HostInv, NEW self \in Procs,
         pc[self] \notin {"idle", "ps"}, Only(self), managed' = managed,
         \/ self # Loop \/ pc'[self] = "idle"
         \/ \A k \in Keys : loc'[self].todo[k] # Absent =>
              loc[self].todo[k] # Absent /\ ctr'[k].cid = ctr[k].cid
  PROVE  ListTrue'
<1>1. CASE self # Loop
  BY <1>1, ListTrueGoroutine
<1>2. CASE pc'[Loop] = "idle"
  BY <1>2 DEF ListTrue
<1>3. CASE self = Loop /\ pc'[self] # "idle"
  BY <1>3, ListTrueLoop
<1> QED
  BY <1>1, <1>2, <1>3

\* Whom each step of a deploy belongs to.
LEMMA DeployPlace ==
  ASSUME TypeOK, SeqInv, NEW self \in Procs,
         pc[self] \in {"opened", "redeploy"}
                        \cup (DeploySteps \ ({"publish"} \cup Tearing))
  PROVE  /\ self # Loop /\ pc[self] # "idle"
         /\ loc[self].ev \in {"opened", "redeploy"}
BY Busy1 DEF OnItsWay, DeploySteps, TearSteps, RequestSteps, TickSteps, Tearing

LEMMA ClosedMeans ==
  ASSUME NEW k \in Keys
  PROVE  Abandoned(k) <=> k[1] \in closed
BY DEF Abandoned, Get

-----------------------------------------------------------------------------
(* The steps of a deploy and of a teardown.                                *)

LEMMA DockerWorks ==
  ASSUME HostInv, HostSteady
  PROVE  /\ "docker" \notin flaky /\ "leftover" \notin Faults
         /\ \A k, id : Remove(k, id) =>
              ctr' = [ctr EXCEPT ![k] = IF @.cid = id THEN NoContainer ELSE @]
BY DEF HostInv, HostSteady, Remove

LEMMA InGoroutines ==
  ASSUME NEW self \in Goroutines
  PROVE  self \in Procs /\ self # Loop
BY ThreadsAssumption DEF Procs

LEMMA MatchesSame ==
  ASSUME NEW c, NEW p, NEW q, q.cid = p.cid, q.img = p.img,
         q.status = p.status, Matches(c, p)
  PROVE  Matches(c, q)
BY DEF Matches, Names

LEMMA QuietMoves ==
  ASSUME TypeOK, NEW self \in Goroutines,
         \/ NextApp(self) \/ CheckCapacity(self)
         \/ HandleClosed(self) \/ PreviewEnvironments(self)
         \/ HandleOpened(self) \/ Redeploy(self)
         \/ ListForTeardown(self) \/ TornDown(self)
  PROVE  Only(self) /\ pc'[self] \in {"idle", "capacity", "put", "deploy",
                                     "environments", "list", "tearNext"}
<1>1. self \in Procs
  BY InGoroutines
<1>2. CASE NextApp(self)
  <2>1. /\ \E lv : SetLoc(self, lv)
        /\ Jump(self, "capacity") \/ Jump(self, "put")
    BY <1>2 DEF NextApp
  <2> QED
    BY <1>1, <2>1, JumpOnly
<1>3. CASE CheckCapacity(self) \/ HandleOpened(self) \/ Redeploy(self)
  <2>1. \/ Exit(self)
        \/ \E lv : Return(self, lv, "put") \/ Return(self, lv, "deploy")
    BY <1>3 DEF CheckCapacity, HandleOpened, Redeploy
  <2> QED
    BY <1>1, <2>1, ReturnOnly, JumpOnly DEF Exit
<1>4. CASE HandleClosed(self)
  BY <1>1, <1>4, StayOnly DEF HandleClosed, Goto
<1>5. CASE PreviewEnvironments(self) \/ ListForTeardown(self) \/ TornDown(self)
  BY <1>1, <1>5, JumpOnly DEF PreviewEnvironments, ListForTeardown, TornDown,
                              Goto, Exit
<1> QED
  BY <1>2, <1>3, <1>4, <1>5

\* A step that touches neither docker nor the store.
LEMMA QuietHost ==
  ASSUME TypeOK, SeqInv, HostInv, SeqInv', NEW self \in Goroutines,
         \/ NextApp(self) \/ CheckCapacity(self)
         \/ HandleClosed(self) \/ PreviewEnvironments(self)
         \/ HandleOpened(self) \/ Redeploy(self)
         \/ ListForTeardown(self) \/ TornDown(self)
  PROVE  HostInv'
<1>1. self \in Procs /\ self # Loop /\ loc[self] \in Locals
  BY InGoroutines, LocalType
<1>2. /\ pc[self] \notin Between \cup {"idle"}
      /\ ctr' = ctr /\ store' = store /\ image' = image /\ flaky' = flaky
  BY DEF NextApp, CheckCapacity, HandleClosed, PreviewEnvironments, HandleOpened,
         Redeploy, ListForTeardown, TornDown, Goto, Between
<1>3. Only(self) /\ pc'[self] \in {"idle", "capacity", "put", "deploy",
                                  "environments", "list", "tearNext"}
  BY QuietMoves
<1>4. pc'[self] \in Calm
  BY <1>3 DEF Calm, PCs, Between, Repairing
<1>5. ImagesTrue' /\ ListTrue'
  BY <1>1, <1>2, <1>3, ListTrueGoroutine DEF HostInv, ImagesTrue
<1> QED
  BY <1>1, <1>2, <1>3, <1>4, <1>5, CalmStill

\* A record p is written that the container there matches.
LEMMA WriteHost ==
  ASSUME TypeOK, SeqInv, HostInv, SeqInv', NEW self \in Procs,
         pc[self] \in InHandSteps, NEW p, Put(Key(self), p),
         NEW lv \in Locals, lv.todo = loc[self].todo, NEW l \in Returns,
         PublishThen(self, lv, l) \/ Return(self, lv, l) \/ Exit(self),
         UNCHANGED <<ctr, image, flaky, managed>>,
         Matches(ctr[Key(self)], p)
  PROVE  HostInv'
<1>1. pc[self] \notin {"idle", "ps"}
  BY DEF InHandSteps, Same, Ahead, Tearing
<1>2. /\ Only(self) /\ pc'[self] \in {"idle", "publish", l}
      /\ pc'[self] = "idle" \/ loc'[self].todo = loc[self].todo
  BY ReturnKeeps
<1>3. pc'[self] \in Calm
  BY <1>2 DEF Returns, LoopHeads, Calm, PCs, Between, Repairing
<1>4. ImagesTrue' /\ ListTrue'
  BY <1>1, <1>2, ListKept DEF HostInv, ImagesTrue
<1>5. Elsewhere(self) /\ store'[Key(self)] = p
  BY PutElsewhere
<1> QED
  BY <1>1, <1>2, <1>3, <1>4, <1>5, CalmStep DEF Elsewhere

LEMMA PutBuildingHost ==
  ASSUME TypeOK, SeqInv, HostInv, SeqInv', NEW self \in Procs, PutBuilding(self)
  PROVE  HostInv'
<1>1. /\ pc[self] = "put" /\ pc[self] \in InHandSteps /\ loc[self] \in Locals
      /\ Put(Key(self), loc[self].p)
      /\ PublishThen(self, loc[self], "acquire") /\ "acquire" \in Returns
      /\ UNCHANGED <<ctr, image, flaky, managed>> /\ Key(self) \in Keys
  BY LocalType, KeyType DEF PutBuilding, InHandSteps, Returns
<1>2. loc[self].p = [store[Key(self)] EXCEPT !.status = "building"]
  BY <1>1, InHandAlone DEF Copied
<1>3. Matches(ctr[Key(self)], store[Key(self)]) /\ store[Key(self)] \in Preview
  BY <1>1, SettledElse DEF Between
<1>4. Matches(ctr[Key(self)], loc[self].p)
  BY <1>2, <1>3 DEF Matches, Names, Preview
<1> QED
  BY <1>1, <1>4, WriteHost

LEMMA PublishHost ==
  ASSUME TypeOK, SeqInv, HostInv, SeqInv', NEW self \in Procs, Publish(self)
  PROVE  HostInv'
<1>1. /\ pc[self] = "publish" /\ pc[self] \in InHandSteps
      /\ loc[self] \in Locals /\ loc[self].ret \in Returns
      /\ UNCHANGED <<ctr, image, flaky, managed>> /\ Key(self) \in Keys
  BY LocalType, KeyType DEF Publish, InHandSteps, Same
<1>2. /\ Matches(ctr[Key(self)], store[Key(self)])
      /\ loc[self].p = store[Key(self)]
  BY <1>1, SettledElse, InHandAlone DEF Between, Copied, Same
<1>3. CASE CreateDeployment(self, Key(self))
  <2> DEFINE p == [loc[self].p EXCEPT !.dep = FreshDep]
             lv == [loc[self] EXCEPT !.p = p]
  <2>1. /\ p \in Preview /\ p.cid = loc[self].p.cid /\ p.img = loc[self].p.img
        /\ p.status = loc[self].p.status
    <3>1. FreshDep \in Deps
      BY <1>3, FreshDepType DEF CreateDeployment
    <3> QED
      BY <3>1, LocalType DEF Preview
  <2>2. Put(Key(self), p) /\ Return(self, lv, loc[self].ret)
    BY <1>3 DEF CreateDeployment
  <2> HIDE DEF p
  <2>3. lv \in Locals /\ lv.todo = loc[self].todo
    BY <1>1, <2>1, InHand
  <2>4. Matches(ctr[Key(self)], p)
    BY <1>2, <2>1, MatchesSame
  <2> HIDE DEF lv
  <2> QED
    BY <1>1, <2>2, <2>3, <2>4, WriteHost
<1>4. CASE SetDeploymentStatus(self, Key(self)) \/ PublishFails(self)
  <2>1. store' = store /\ Return(self, loc[self], loc[self].ret)
    BY <1>4 DEF SetDeploymentStatus, PublishFails
  <2>2. /\ Only(self) /\ pc'[self] \in {"idle", "publish", loc[self].ret}
        /\ pc'[self] = "idle" \/ loc'[self].todo = loc[self].todo
    BY <1>1, <2>1, ReturnKeeps
  <2>3. pc'[self] \in Calm
    BY <1>1, <2>2 DEF Returns, LoopHeads, Calm, PCs, Between, Repairing
  <2>4. ImagesTrue' /\ ListTrue'
    BY <1>1, <2>2, ListKept DEF HostInv, ImagesTrue
  <2> QED
    BY <1>1, <2>1, <2>2, <2>3, <2>4, CalmStill DEF Between
<1> QED
  BY <1>3, <1>4 DEF Publish

\* A deploy that fails before it has a container: the record stays as it is.
LEMMA ToFail ==
  ASSUME TypeOK, SeqInv, HostInv, SeqInv', NEW self \in Goroutines,
         pc[self] \in Building \cap Same, Jump(self, "fail"),
         UNCHANGED <<store, ctr, image, loc, flaky>>
  PROVE  HostInv'
<1>1. /\ self \in Procs /\ self # Loop /\ Key(self) \in Keys
      /\ pc[self] \notin Between \cup {"idle"} /\ pc[self] \in InHandSteps
  BY InGoroutines, KeyType DEF Building, Same, Between, InHandSteps
<1>2. /\ Matches(ctr[Key(self)], store[Key(self)])
      /\ loc[self].p = store[Key(self)]
  BY <1>1, SettledElse, InHandAlone DEF Copied
<1>3. Only(self) /\ pc'[self] = "fail" /\ Key(self)' = Key(self)
  BY <1>1, StayOnly DEF Key
<1>4. AtHost(self)'
  BY <1>2, <1>3 DEF AtHost, HostAt, Matches, Finishing, Repairing, Key
<1>5. ImagesTrue' /\ ListTrue'
  BY <1>1, <1>3, ListTrueGoroutine DEF HostInv, ImagesTrue
<1> QED
  BY <1>1, <1>3, <1>4, <1>5, MoveStep DEF Between

LEMMA BuildHost ==
  ASSUME TypeOK, SeqInv, HostInv, SeqInv', NEW self \in Goroutines,
         Acquire(self) \/ Clean(self) \/ FetchSource(self) \/ BuildImage(self)
  PROVE  HostInv'
<1> DEFINE k == Key(self)
<1>1. /\ self \in Procs /\ self # Loop /\ k \in Keys
      /\ pc[self] \in {"acquire", "clean", "fetchSource", "build"}
      /\ UNCHANGED <<store, ctr, loc, flaky>>
  BY InGoroutines, KeyType DEF Acquire, Clean, FetchSource, BuildImage
<1>2. /\ pc[self] \in Building \cap Same
      /\ pc[self] \notin Between \cup {"idle"}
  BY <1>1 DEF Building, Same, Between
<1>3. ImagesTrue
  BY DEF HostInv
<1>4. \/ Jump(self, "fail") /\ image' = image
      \/ \E l \in {"clean", "fetchSource"} : Jump(self, l) /\ image' = image
      \/ Jump(self, "build") /\ image' = image /\ dir'[k] = loc[self].sha
      \/ /\ Jump(self, "built") /\ pc[self] = "build"
         /\ image' = [image EXCEPT ![k][loc[self].sha] = dir[k]]
  BY <1>1 DEF Acquire, Clean, FetchSource, BuildImage, LeaveBuild
<1>5. ASSUME NEW l \in {"clean", "fetchSource", "built"}, Jump(self, l), ImagesTrue'
      PROVE  HostInv'
  <2>1. Only(self) /\ pc'[self] \in Calm
    BY <1>1, <1>5, StayOnly DEF Calm, PCs, Between, Repairing
  <2> QED
    BY <1>1, <1>2, <1>5, <2>1, ListTrueGoroutine, CalmStill
<1>6. CASE Jump(self, "fail") /\ image' = image
  BY <1>1, <1>2, <1>6, ToFail
<1>7. CASE \E l \in {"clean", "fetchSource"} : Jump(self, l) /\ image' = image
  BY <1>3, <1>5, <1>7 DEF ImagesTrue
<1>8. CASE Jump(self, "build") /\ image' = image /\ dir'[k] = loc[self].sha
  <2>1. Only(self) /\ pc'[self] = "build"
    BY <1>1, <1>8, StayOnly
  <2>2. AtHost(self)'
    BY <1>1, <1>8, <2>1 DEF AtHost, HostAt, Finishing, Repairing, Key
  <2>3. Matches(ctr[k], store[k])
    BY <1>1, <1>2, SettledElse
  <2>4. ListTrue' /\ ImagesTrue'
    BY <1>1, <1>2, <1>3, <1>8, <2>1, ListTrueGoroutine DEF ImagesTrue
  <2> QED
    BY <1>1, <1>2, <2>1, <2>2, <2>3, <2>4, MoveStep
<1>9. CASE /\ Jump(self, "built") /\ pc[self] = "build"
           /\ image' = [image EXCEPT ![k][loc[self].sha] = dir[k]]
  <2>1. dir[k] = loc[self].sha
    BY <1>1, <1>9 DEF HostInv, AtHost, HostAt
  <2>2. ImagesTrue'
    BY <1>1, <1>3, <1>9, <2>1 DEF ImagesTrue
  <2> QED
    BY <1>5, <1>9, <2>2
<1> QED
  BY <1>4, <1>6, <1>7, <1>8, <1>9

\* The check after the build.
LEMMA BuiltHost ==
  ASSUME TypeOK, SeqInv, HostInv, SeqInv', NEW self \in Goroutines, Built(self)
  PROVE  HostInv'
<1> DEFINE k == Key(self)
<1>1. /\ self \in Procs /\ self # Loop /\ k \in Keys /\ pc[self] = "built"
      /\ k[1] = loc[self].pr
      /\ UNCHANGED <<store, ctr, dir, closed, flaky>>
      /\ pc[self] \notin Between \cup {"idle"} /\ ImagesTrue
  BY InGoroutines, KeyType DEF Built, Between, Key, HostInv
<1>2. Matches(ctr[k], store[k])
  BY <1>1, SettledElse
<1>3. CASE RemoveImage(k, loc[self].sha) /\ Return(self, loc[self], "deploy")
  <2>1. ImagesTrue'
    BY <1>1, <1>3 DEF RemoveImage, ImagesTrue
  <2>2. Only(self) /\ pc'[self] \in {"idle", "deploy"}
    BY <1>1, <1>3, ReturnOnly
  <2>3. pc'[self] \in Calm
    BY <2>2 DEF Calm, PCs, Between, Repairing
  <2> QED
    BY <1>1, <2>1, <2>2, <2>3, ListTrueGoroutine, CalmStill
<1>4. CASE k[1] \notin closed /\ Jump(self, "network") /\ UNCHANGED <<image, loc>>
  <2>1. Only(self) /\ pc'[self] = "network" /\ loc'[self] = loc[self]
    BY <1>1, <1>4, StayOnly
  <2>2. AtHost(self)'
    BY <1>1, <1>4, <2>1 DEF AtHost, HostAt, Finishing, Repairing
  <2>3. ImagesTrue' /\ ListTrue'
    BY <1>1, <1>4, <2>1, ListTrueGoroutine DEF ImagesTrue
  <2> QED
    BY <1>1, <1>2, <2>1, <2>2, <2>3, MoveStep
<1> QED
  BY <1>1, <1>3, <1>4, ClosedMeans DEF Built

\* The network, and the previous container out of the way.
LEMMA NetworkHost ==
  ASSUME TypeOK, SeqInv, HostInv, SeqInv', HostSteady, NEW self \in Goroutines,
         EnsureNetwork(self)
  PROVE  HostInv'
<1> DEFINE k == Key(self)
           c == ctr'[k]
<1>1. /\ self \in Procs /\ self # Loop /\ k \in Keys /\ pc[self] = "network"
      /\ UNCHANGED <<store, image, closed, flaky, loc>>
      /\ pc[self] \notin Between \cup {"idle"} /\ ImagesTrue
      /\ pc[self] \in Building \cap Same /\ pc[self] \in InHandSteps
      /\ loc[self].pr \notin closed
  BY InGoroutines, KeyType
     DEF EnsureNetwork, Between, HostInv, Building, Same, InHandSteps, AtHost,
         HostAt
<1>2. /\ Matches(ctr[k], store[k]) /\ loc[self].p = store[k]
      /\ store[k].status = "building"
  BY <1>1, SettledElse, InHandAlone DEF Copied
<1>3. CASE Jump(self, "fail") /\ ctr' = ctr
  BY <1>1, <1>3, ToFail
<1>4. CASE Remove(k, loc[self].p.cid) /\ Jump(self, "run")
  <2>1. ctr' = [ctr EXCEPT ![k] = IF @.cid = loc[self].p.cid THEN NoContainer ELSE @]
    BY <1>4, DockerWorks
  <2>2. c = NoContainer /\ \A x \in Keys \ {k} : ctr'[x] = ctr[x]
    BY <1>1, <1>2, <2>1 DEF Matches, Names
  <2>3. Only(self) /\ pc'[self] = "run" /\ loc'[self] = loc[self]
    BY <1>1, <1>4, StayOnly
  <2>4. AtHost(self)'
    BY <1>1, <2>2, <2>3 DEF AtHost, HostAt, Finishing, Repairing, Key
  <2>5. ImagesTrue' /\ ListTrue'
    BY <1>1, <2>3, ListTrueGoroutine DEF ImagesTrue
  <2>6. Matches(c, store[k])
    BY <1>2, <2>2 DEF Matches
  <2> QED
    BY <1>1, <2>2, <2>3, <2>4, <2>5, <2>6, MoveStep
<1> QED
  BY <1>3, <1>4 DEF EnsureNetwork, RemoveOld

\* docker run, from the image of the commit.
LEMMA RunHost ==
  ASSUME TypeOK, SeqInv, HostInv, SeqInv', HostSteady, NEW self \in Goroutines,
         Run(self)
  PROVE  HostInv'
<1> DEFINE k == Key(self)
           sha == loc[self].sha
<1>1. /\ self \in Procs /\ self # Loop /\ k \in Keys /\ pc[self] = "run"
      /\ UNCHANGED <<store, image, closed, flaky>>
      /\ pc[self] \notin Between \cup {"idle"} /\ ImagesTrue
      /\ pc[self] \in Building \cap Same /\ loc[self].pr \notin closed
      /\ loc[self] \in Locals
  BY InGoroutines, KeyType, LocalType
     DEF Run, Between, HostInv, Building, Same, AtHost, HostAt
<1>2. CASE DockerRunOk(self, k, sha) /\ Jump(self, "ready")
  <2> DEFINE lv == [loc[self] EXCEPT !.p.cid = FreshCid]
             c == Made(k, sha, TRUE)
  <2>1. /\ FreshCid # 0 /\ FreshCid \in Cids
    BY <1>2, FreshCidType, IdsAssumption DEF DockerRunOk
  <2>2. c.cid = FreshCid /\ c.up /\ c.src = sha
    BY <1>1, <1>2 DEF DockerRunOk, CanRun, Made, ImagesTrue
  <2>3. /\ lv.p.cid = FreshCid /\ lv.sha = sha /\ lv.pr = loc[self].pr
        /\ lv.app = loc[self].app
    BY <1>1, LocalType DEF Locals, Preview
  <2>4. SetLoc(self, lv) /\ ctr' = [ctr EXCEPT ![k] = c]
    BY <1>2 DEF DockerRunOk
  <2> HIDE DEF lv, c
  <2>5. Only(self) /\ pc'[self] = "ready" /\ loc'[self] = lv
    BY <1>1, <1>2, <2>4, JumpOnly
  <2>6. Key(self)' = k /\ ctr'[k] = c
    BY <1>1, <2>3, <2>4, <2>5 DEF Key
  <2>7. HostAt("ready", lv, c, dir'[k], store'[k], closed')
    BY <1>1, <2>1, <2>2, <2>3 DEF HostAt, Finishing, Repairing, Names
  <2>8. AtHost(self)'
    BY <2>5, <2>6, <2>7 DEF AtHost
  <2>9. ImagesTrue' /\ ListTrue'
    BY <1>1, <2>5, ListTrueGoroutine DEF ImagesTrue
  <2>10. \A x \in Keys \ {k} : ctr'[x] = ctr[x] /\ store'[x] = store[x]
    BY <1>1, <2>4
  <2> QED
    BY <1>1, <2>5, <2>6, <2>8, <2>9, <2>10, MoveStep DEF Between
<1>3. CASE DockerRunFails(k, sha) /\ Jump(self, "fail") /\ UNCHANGED loc
  BY <1>1, <1>3, DockerWorks, ToFail DEF DockerRunFails
<1> QED
  BY <1>2, <1>3 DEF Run

LEMMA ReadyHost ==
  ASSUME TypeOK, SeqInv, HostInv, SeqInv', NEW self \in Goroutines,
         AwaitReady(self) \/ IsReady(self) \/ RecordFailure(self)
  PROVE  HostInv'
<1> DEFINE k == Key(self)
<1>1. /\ self \in Procs /\ self # Loop /\ k \in Keys /\ k[1] = loc[self].pr
      /\ pc[self] \in {"ready", "isReady", "fail"} /\ pc[self] # "idle"
      /\ UNCHANGED <<store, ctr, dir, image, closed, flaky>>
      /\ ImagesTrue /\ loc[self] \in Locals
      /\ HostAt(pc[self], loc[self], ctr[k], dir[k], store[k], closed)
  BY InGoroutines, KeyType, LocalType
     DEF AwaitReady, IsReady, RecordFailure, HostInv, AtHost, Key
<1>2. Only(self) => ImagesTrue' /\ ListTrue'
  BY <1>1, ListTrueGoroutine DEF ImagesTrue
<1>3. ASSUME NEW l \in {"isReady", "commit", "fail", "failPut"},
             Jump(self, l), loc' = loc,
             HostAt(l, loc[self], ctr[k], dir[k], store[k], closed)
      PROVE  HostInv'
  <2>1. Only(self) /\ pc'[self] = l /\ loc'[self] = loc[self]
    BY <1>1, <1>3, StayOnly
  <2>2. AtHost(self)' /\ Key(self)' = Key(self)
    BY <1>1, <1>3, <2>1 DEF AtHost, Key
  <2> QED
    BY <1>1, <1>2, <2>1, <2>2, MoveStep DEF Between
<1>4. CASE AwaitReady(self)
  <2>1. \E l \in {"isReady", "fail"} : Jump(self, l) /\ loc' = loc
    BY <1>4 DEF AwaitReady
  <2>2. \A l \in {"isReady", "fail"} :
          HostAt(l, loc[self], ctr[k], dir[k], store[k], closed)
    BY <1>1, <1>4 DEF AwaitReady, HostAt, Finishing, Repairing
  <2> QED
    BY <1>3, <2>1, <2>2
<1>5. CASE IsReady(self)
  <2>1. loc[self].pr \notin closed
    BY <1>1, <1>5 DEF IsReady, HostAt, Finishing
  <2>2. Jump(self, "commit") /\ loc' = loc
    BY <1>1, <1>5, <2>1, ClosedMeans DEF IsReady
  <2>3. HostAt("commit", loc[self], ctr[k], dir[k], store[k], closed)
    BY <1>1, <1>5 DEF IsReady, HostAt, Finishing, Repairing
  <2> QED
    BY <1>3, <2>2, <2>3
<1>6. CASE RecordFailure(self)
  <2>1. CASE loc[self].pr \in closed
    <3>1. /\ pc[self] = "fail" /\ pc[self] \in InHandSteps
          /\ pc[self] \in Building
      BY <1>6 DEF RecordFailure, InHandSteps, Ahead, Building
    <3>2. store[k].status = "building"
      BY <1>1, <3>1, InHandAlone DEF Copied
    <3>3. Matches(ctr[k], store[k])
      BY <1>1, <2>1, <3>1, <3>2 DEF HostAt, Matches
    <3>4. Return(self, loc[self], "deploy")
      BY <1>1, <1>6, <2>1, ClosedMeans DEF RecordFailure
    <3>5. Only(self) /\ pc'[self] \in {"idle", "deploy"}
      BY <1>1, <3>4, ReturnOnly
    <3>6. pc'[self] \in Calm
      BY <3>5 DEF Calm, PCs, Between, Repairing
    <3> QED
      BY <1>1, <1>2, <3>3, <3>5, <3>6, CalmStep
  <2>2. CASE loc[self].pr \notin closed
    <3>1. Return(self, loc[self], "failPut")
      BY <1>1, <1>6, <2>2, ClosedMeans DEF RecordFailure
    <3>2. Jump(self, "failPut") /\ SetLoc(self, loc[self])
      BY <3>1 DEF Return, LoopHeads
    <3>3. loc' = loc
      BY <3>2 DEF SetLoc
    <3>4. HostAt("failPut", loc[self], ctr[k], dir[k], store[k], closed)
      BY <1>1, <1>6 DEF RecordFailure, HostAt, Finishing, Repairing
    <3> QED
      BY <1>3, <3>2, <3>3, <3>4
  <2> QED
    BY <2>1, <2>2
<1> QED
  BY <1>4, <1>5, <1>6

\* The record and the container agree again: a preview runs, failed, sleeps, or
\* was visited.
LEMMA SettleHost ==
  ASSUME TypeOK, SeqInv, HostInv, SeqInv', NEW self \in Procs,
         Commit(self) \/ PutFailed(self) \/ Touch(self)
           \/ (self = Loop /\ SleepPut)
  PROVE  HostInv'
<1> DEFINE k == Key(self)
           old == loc[self].p
<1>1. /\ loc[self] \in Locals /\ old \in Preview /\ k \in Keys
      /\ UNCHANGED <<ctr, image, flaky, managed>>
      /\ HostAt(pc[self], loc[self], ctr[k], dir[k], store[k], closed)
      /\ {"deploy", "scan"} \subseteq Returns
  BY LocalType, KeyType
     DEF Commit, PutFailed, Touch, SleepPut, HealWrite, HostInv, AtHost, Returns,
         LoopHeads
<1>2. CASE Commit(self)
  <2> DEFINE p == GoLive(old, loc[self].sha)
             lv == [loc[self] EXCEPT !.p = p]
  <2>1. /\ pc[self] = "commit" /\ Put(k, p) /\ PublishThen(self, lv, "deploy")
    BY <1>2 DEF Commit
  <2>2. Names(old, ctr[k]) /\ ctr[k].src = loc[self].sha /\ ctr[k].up
    BY <1>1, <2>1 DEF HostAt, Finishing
  <2>3. p \in Preview /\ Matches(ctr[k], p)
    <3>1. /\ p \in Preview /\ p.cid = old.cid /\ p.img = loc[self].sha
          /\ p.status = "running"
      BY <1>1, GoLiveType, LocalType DEF GoLive, Preview
    <3> HIDE DEF p
    <3> QED
      BY <2>2, <3>1 DEF Matches, Names
  <2> HIDE DEF p
  <2>4. lv \in Locals /\ lv.todo = loc[self].todo
    BY <1>1, <2>3, InHand
  <2> HIDE DEF lv
  <2> QED
    BY <1>1, <2>1, <2>3, <2>4, WriteHost DEF InHandSteps, Ahead
<1>3. CASE PutFailed(self)
  <2> DEFINE p == [old EXCEPT !.status = "failed"]
             lv == [loc[self] EXCEPT !.p = p]
  <2>1. /\ pc[self] = "failPut" /\ Put(k, p) /\ PublishThen(self, lv, "deploy")
    BY <1>3 DEF PutFailed
  <2>2. ctr[k] = NoContainer \/ Names(old, ctr[k])
    BY <1>1, <2>1 DEF HostAt
  <2>3. p \in Preview /\ Matches(ctr[k], p)
    BY <1>1, <2>2 DEF Matches, Names, Preview, Status
  <2> HIDE DEF p
  <2>4. lv \in Locals /\ lv.todo = loc[self].todo
    BY <1>1, <2>3, InHand
  <2> HIDE DEF lv
  <2> QED
    BY <1>1, <2>1, <2>3, <2>4, WriteHost DEF InHandSteps, Ahead
<1>4. CASE Touch(self)
  <2> DEFINE p == [old EXCEPT !.age = 0]
  <2>1. /\ pc[self] = "touch" /\ Put(k, p) /\ Exit(self)
        /\ pc[self] \in InHandSteps /\ pc[self] \notin Between
    BY <1>4 DEF Touch, InHandSteps, Same, Between
  <2>2. old = store[k] /\ Matches(ctr[k], store[k])
    BY <1>1, <2>1, InHandAlone, SettledElse DEF Copied, Same
  <2>3. p.cid = old.cid /\ p.img = old.img /\ p.status = old.status
    BY <1>1 DEF Preview
  <2> HIDE DEF p
  <2>4. Matches(ctr[k], p)
    BY <2>2, <2>3, MatchesSame
  <2> QED
    BY <1>1, <2>1, <2>4, WriteHost
<1>5. CASE self = Loop /\ SleepPut
  <2> DEFINE p == [old EXCEPT !.status = "sleeping"]
             lv == [loc[self] EXCEPT !.p = p]
  <2>1. /\ pc[self] = "sleepPut" /\ Put(k, p) /\ PublishThen(self, lv, "scan")
    BY <1>5 DEF SleepPut, HealWrite
  <2>2. Names(old, ctr[k]) /\ ctr[k].src = old.img
    BY <1>1, <2>1 DEF HostAt
  <2>3. p \in Preview /\ Matches(ctr[k], p)
    BY <1>1, <2>2 DEF Matches, Names, Preview, Status
  <2> HIDE DEF p
  <2>4. lv \in Locals /\ lv.todo = loc[self].todo
    BY <1>1, <2>3, InHand
  <2> HIDE DEF lv
  <2> QED
    BY <1>1, <2>1, <2>3, <2>4, WriteHost DEF InHandSteps, Same
<1> QED
  BY <1>2, <1>3, <1>4, <1>5

\* A teardown: first the container, then the record.
LEMMA TearHostHost ==
  ASSUME TypeOK, SeqInv, HostInv, SeqInv', HostSteady, NEW self \in Procs,
         TearHost(self)
  PROVE  HostInv'
<1> DEFINE k == Key(self)
           p == loc[self].p
<1>1. /\ pc[self] = "tearHost" /\ pc[self] \in InHandSteps /\ k \in Keys
      /\ UNCHANGED <<store, closed, flaky, loc, managed>>
      /\ Jump(self, "tearDelete") /\ ImagesTrue
      /\ Remove(k, p.cid)
      /\ image' = image \/ RemoveImage(k, p.img)
      /\ HostAt("tearHost", loc[self], ctr[k], dir[k], store[k], closed)
  BY KeyType DEF TearHost, InHandSteps, Tearing, HostInv, AtHost
<1>2. ctr' = [ctr EXCEPT ![k] = IF @.cid = p.cid THEN NoContainer ELSE @]
  BY <1>1, DockerWorks
<1>3. ctr'[k] = NoContainer /\ \A x \in Keys \ {k} : ctr'[x] = ctr[x]
  BY <1>1, <1>2 DEF HostAt, Names
<1>4. Only(self) /\ pc'[self] = "tearDelete" /\ loc'[self] = loc[self]
  BY <1>1, StayOnly
<1>5. AtHost(self)' /\ Key(self)' = k
  BY <1>3, <1>4 DEF AtHost, HostAt, Finishing, Repairing, Key
<1>6. ImagesTrue'
  BY <1>1 DEF RemoveImage, ImagesTrue
<1>7. ListTrue'
  <2>1. \A x \in Keys : loc'[self].todo[x] # Absent =>
          loc[self].todo[x] # Absent /\ ctr'[x].cid = ctr[x].cid
    BY <1>1, <1>3, <1>4, InHandAlone
  <2> QED
    BY <1>1, <1>4, <2>1, ListKept
<1> QED
  BY <1>1, <1>3, <1>4, <1>5, <1>6, <1>7, MoveStep DEF Between

LEMMA TearDeleteHost ==
  ASSUME TypeOK, SeqInv, HostInv, SeqInv', NEW self \in Procs, TearDelete(self)
  PROVE  HostInv'
<1>1. /\ pc[self] = "tearDelete" /\ pc[self] \in InHandSteps
      /\ loc[self] \in Locals /\ loc[self].ret \in Returns
      /\ Put(Key(self), Absent) /\ Return(self, loc[self], loc[self].ret)
      /\ UNCHANGED <<ctr, image, flaky, managed>>
      /\ ctr[Key(self)] = NoContainer
  BY LocalType
     DEF TearDelete, InHandSteps, Tearing, HostInv, AtHost, HostAt
<1>2. Matches(ctr[Key(self)], Absent)
  BY <1>1 DEF Matches, Absent
<1> QED
  BY <1>1, <1>2, WriteHost

LEMMA DeployHost ==
  ASSUME TypeOK, SeqInv, HostInv, SeqInv', HostSteady, NEW self \in Goroutines,
         DeployStep(self)
  PROVE  HostInv'
<1>1. self \in Procs
  BY InGoroutines
<1> QED
  BY <1>1, QuietHost, PutBuildingHost, PublishHost, BuildHost, BuiltHost,
     NetworkHost, RunHost, ReadyHost, SettleHost, TearHostHost, TearDeleteHost
     DEF DeployStep

-----------------------------------------------------------------------------
(* The steps of the handlers and of Tick.                                  *)

\* The next record of a list is as the store has it, and so is its container.
LEMMA TakeHost ==
  ASSUME TypeOK, SeqInv, HostInv, SeqInv', NEW self \in Procs,
         pc[self] \in {"tearNext", "scan"},
         NEW k \in Pending(self), NEW ret \in Returns,
         NEW l \in {"tearHost", "sleep", "scan"}, Jump(self, l),
         SetLoc(self, [TakeNext(self, k) EXCEPT !.ret = ret]),
         UNCHANGED <<store, ctr, image, flaky, managed>>
  PROVE  HostInv'
<1> DEFINE lv == Take(self, k, ret)
<1>1. /\ lv.p = loc[self].todo[k] /\ KeyOf(lv) = k
      /\ \A x \in Keys : lv.todo[x] = IF x = k THEN Absent ELSE loc[self].todo[x]
  BY Taken
<1>2. SetLoc(self, lv) /\ k \in Keys /\ loc[self].todo[k] # Absent
  BY DEF Take, Pending
<1> HIDE DEF lv
<1>3. Only(self) /\ pc'[self] = l /\ loc'[self] = lv /\ Key(self)' = k
  BY <1>1, <1>2, JumpOnly DEF Key, KeyOf
<1>4. pc[self] \notin Between \cup {"idle", "ps"}
  BY DEF Between
<1>5. lv.p = store[k]
  BY <1>1, <1>2, <1>4, Busy1 DEF Current, Listed
<1>6. \A x \in Keys : Matches(ctr'[x], store'[x])
  BY <1>4, SettledElse
<1>7. AtHost(self)'
  BY <1>2, <1>3, <1>5, <1>6
     DEF AtHost, HostAt, Matches, Finishing, Repairing
<1>8. ImagesTrue' /\ ListTrue'
  BY <1>1, <1>3, <1>4, ListKept DEF HostInv, ImagesTrue
<1> QED
  BY <1>3, <1>4, <1>6, <1>7, <1>8, HostStep

LEMMA ScanHost ==
  ASSUME TypeOK, SeqInv, HostInv, SeqInv', Scan
  PROVE  HostInv'
<1>1. PICK k \in Pending(Loop) :
        /\ Jump(Loop, Verdict(loc[Loop].todo[k], managed[k]))
        /\ SetLoc(Loop, [TakeNext(Loop, k) EXCEPT !.ret = "scan"])
  BY DEF Scan
<1> DEFINE l == Verdict(loc[Loop].todo[k], managed[k])
<1>2. /\ Loop \in Procs /\ pc[Loop] = "scan" /\ "scan" \in Returns
      /\ pc[Loop] \notin Between \cup {"idle"}
      /\ UNCHANGED <<store, ctr, image, flaky, managed>>
      /\ k \in Keys /\ loc[Loop].todo[k] # Absent
  BY LoopInProcs DEF Scan, Returns, LoopHeads, Pending, Between
<1>3. /\ loc[Loop].todo[k] = store[k] /\ managed[k] = ctr[k].cid
      /\ Matches(ctr[k], store[k])
  <2>1. Listed(loc[Loop], store)
    BY <1>2, Busy1 DEF Current
  <2> QED
    BY <1>2, <2>1, SettledElse DEF Listed, HostInv, ListTrue
<1>4. l # "recreate"
  BY <1>3, VerdictFits DEF Matches, Names
<1>5. l \in {"tearHost", "sleep", "scan"}
  BY <1>4, VerdictFits
<1> HIDE DEF l
<1> QED
  BY <1>1, <1>2, <1>5, TakeHost DEF l

\* docker ps lists what there is.
LEMMA ListManagedHost ==
  ASSUME TypeOK, SeqInv, HostInv, SeqInv', HostSteady, ListManaged
  PROVE  HostInv'
<1>1. /\ Loop \in Procs /\ pc[Loop] = "ps" /\ Jump(Loop, "scan")
      /\ pc[Loop] \notin Between \cup {"idle"}
      /\ UNCHANGED <<store, ctr, image, flaky>> /\ \E lv : SetLoc(Loop, lv)
      /\ managed' = [k \in Keys |-> ctr[k].cid]
  BY LoopInProcs, DockerWorks DEF ListManaged, LoopDo, Goto, Between
<1>2. Only(Loop) /\ pc'[Loop] \in Calm
  BY <1>1, JumpOnly DEF Calm, PCs, Between, Repairing
<1>3. ImagesTrue' /\ ListTrue'
  BY <1>1 DEF HostInv, ImagesTrue, ListTrue
<1> QED
  BY <1>1, <1>2, <1>3, CalmStill

\* docker stop.
LEMMA SleepHost ==
  ASSUME TypeOK, SeqInv, HostInv, SeqInv', HostSteady, Sleep
  PROVE  HostInv'
<1> DEFINE k == Key(Loop)
           p == loc[Loop].p
<1>1. /\ Loop \in Procs /\ pc[Loop] = "sleep" /\ Jump(Loop, "sleepPut")
      /\ pc[Loop] \in InHandSteps /\ pc[Loop] \notin Between \cup {"idle", "ps"}
      /\ UNCHANGED <<store, image, flaky, loc, managed>> /\ Stop(k, p.cid)
      /\ k \in Keys
  BY LoopInProcs, KeyType, DockerWorks DEF Sleep, Between, InHandSteps, Same
<1>2. /\ p = store[k] /\ store[k].status = "running" /\ Matches(ctr[k], store[k])
  BY <1>1, InHandAlone, SettledElse DEF Copied, Same
<1>3. /\ ctr' = [ctr EXCEPT ![k].up = @ /\ ctr[k].cid # p.cid]
      /\ Names(p, ctr[k]) /\ ctr[k].src = p.img
  BY <1>1, <1>2 DEF Stop, Matches
<1>4. /\ ctr'[k].cid = ctr[k].cid /\ ctr'[k].src = ctr[k].src
      /\ \A x \in Keys \ {k} : ctr'[x] = ctr[x]
  BY <1>1, <1>3 DEF Container
<1>5. Only(Loop) /\ pc'[Loop] = "sleepPut" /\ loc'[Loop] = loc[Loop]
  BY <1>1, StayOnly
<1>6. AtHost(Loop)' /\ Key(Loop)' = k
  BY <1>3, <1>4, <1>5
     DEF AtHost, HostAt, Finishing, Repairing, Names, Key
<1>7. ImagesTrue' /\ ListTrue'
  BY <1>1, <1>4, <1>5, ListKept DEF HostInv, ImagesTrue
<1> QED
  BY <1>1, <1>4, <1>5, <1>6, <1>7, MoveStep DEF Between

\* The orphans Tick looks for are not there, and its checkouts are nobody's.
LEMMA ReapHost ==
  ASSUME TypeOK, SeqInv, HostInv, SeqInv', HostSteady, Reap \/ ReapDirs
  PROVE  HostInv'
<1>1. /\ Loop \in Procs /\ pc[Loop] = "scan"
      /\ pc[Loop] \notin Between \cup {"idle"}
      /\ UNCHANGED <<store, image, flaky>> /\ Pending(Loop) = {}
  BY LoopInProcs DEF Reap, ReapDirs, Between
<1>2. \A s \in Procs \ {Loop} : pc[s] = "idle"
  BY <1>1 DEF SeqInv, Alone
<1>3. \A k \in Keys : Matches(ctr[k], store[k])
  BY <1>1, SettledElse
<1>4. CASE Reap
  <2>1. PICK k \in Keys :
          /\ managed[k] # 0
          /\ IF Orphan(k) THEN Remove(k, managed[k]) ELSE ctr' = ctr
    BY <1>4 DEF Reap
  <2>2. pc' = pc /\ loc' = loc
    BY <1>4 DEF Reap
  <2>3. ASSUME Orphan(k) PROVE ctr' = [ctr EXCEPT ![k] = NoContainer]
    <3>1. store[k] = Absent
      BY <2>3 DEF Orphan, Get
    <3>2. ctr[k] = NoContainer
      BY <1>3, <3>1 DEF Matches, Names, Absent
    <3>3. ctr' = [ctr EXCEPT ![k] = IF @.cid = managed[k] THEN NoContainer ELSE @]
      BY <2>1, <2>3, DockerWorks
    <3> QED
      BY <3>2, <3>3
  <2>4. \A x \in Keys : Matches(ctr'[x], store'[x])
    BY <1>1, <1>3, <2>1, <2>3 DEF Matches, Orphan, Get, Absent
  <2>5. ListTrue'
    BY <1>1, <2>2 DEF ListTrue, Pending
  <2>6. \A s \in Procs : pc[s] \in Calm
    BY <1>1, <1>2 DEF Calm, PCs, Between, Repairing
  <2>7. \A s \in Procs : AtHost(s)'
    BY <2>2, <2>6, CalmHost DEF AtHost
  <2> QED
    BY <1>1, <2>4, <2>5, <2>7 DEF HostInv, ImagesTrue
<1>5. CASE ReapDirs
  <2>1. Only(Loop) /\ pc'[Loop] = "idle" /\ ctr' = ctr
    BY <1>1, <1>5, JumpOnly DEF ReapDirs, Exit
  <2>2. pc'[Loop] \in Calm
    BY <2>1, IdleCalm
  <2>3. ImagesTrue' /\ ListTrue'
    BY <1>1, <2>1 DEF HostInv, ImagesTrue, ListTrue
  <2> QED
    BY <1>1, <2>1, <2>2, <2>3, CalmStill
<1> QED
  BY <1>4, <1>5

\* A visitor's request finds the preview's container.
LEMMA RequestHost ==
  ASSUME TypeOK, SeqInv, HostInv, SeqInv', HostSteady, NEW self \in Goroutines,
         Resolve(self) \/ Wake(self) \/ Probe(self)
  PROVE  HostInv'
<1> DEFINE k == Key(self)
           p == loc[self].p
<1>1. /\ self \in Procs /\ self # Loop /\ k \in Keys
      /\ pc[self] \notin Between \cup {"idle"} /\ loc[self] \in Locals
      /\ UNCHANGED <<store, image, closed, dir, flaky, managed>>
      /\ HostAt(pc[self], loc[self], ctr[k], dir[k], store[k], closed)
  BY InGoroutines, KeyType, LocalType
     DEF Resolve, Wake, Probe, Between, HostInv, AtHost
<1>2. Matches(ctr[k], store[k])
  BY <1>1, SettledElse
<1>3. Only(self) => ImagesTrue' /\ ListTrue'
  BY <1>1, ListTrueGoroutine DEF HostInv, ImagesTrue
<1>4. ASSUME Exit(self), ctr' = ctr PROVE HostInv'
  <2>1. Only(self) /\ pc'[self] \in Calm
    BY <1>1, <1>4, JumpOnly, IdleCalm DEF Exit
  <2> QED
    BY <1>1, <1>3, <1>4, <2>1, CalmStill
<1>5. ASSUME pc[self] \in {"wake", "probe"}
      PROVE  /\ loc[self].ret = "idle" /\ p = store[k]
             /\ Names(p, ctr[k]) /\ ctr[k].src = p.img
  <2>1. pc[self] \in InHandSteps /\ pc[self] \in Waking
    BY <1>5 DEF InHandSteps, Ahead, Waking
  <2>2. store[k].status \in {"running", "sleeping"}
    BY <1>1, <2>1, InHandAlone DEF Copied
  <2> QED
    BY <1>1, <1>2, <1>5, <2>2, TickPlace DEF HostAt, Matches
<1>6. CASE Resolve(self)
  <2> DEFINE q == store[k]
             lv == [loc[self] EXCEPT !.p = q]
  <2>1. /\ ctr' = ctr
        /\ \/ Exit(self)
           \/ \E l \in {"touch", "wake"} : Jump(self, l) /\ SetLoc(self, lv)
    BY <1>6 DEF Resolve
  <2>2. ASSUME NEW l \in {"touch", "wake"}, Jump(self, l), SetLoc(self, lv)
        PROVE  HostInv'
    <3>1. lv.p = q /\ lv.pr = loc[self].pr /\ lv.app = loc[self].app
      BY <1>1 DEF Locals
    <3> HIDE DEF lv
    <3>2. Only(self) /\ pc'[self] = l /\ loc'[self] = lv /\ Key(self)' = k
      BY <1>1, <2>2, <3>1, JumpOnly DEF Key
    <3>3. AtHost(self)'
      BY <1>1, <2>1, <3>1, <3>2 DEF AtHost, HostAt, Finishing, Repairing
    <3> QED
      BY <1>1, <1>2, <1>3, <2>1, <3>2, <3>3, MoveStep
  <2> QED
    BY <1>4, <2>1, <2>2
<1>7. CASE Wake(self)
  <2>1. /\ pc[self] = "wake" /\ "docker" \notin flaky
    BY <1>7, DockerWorks DEF Wake
  <2>2. /\ p = store[k] /\ p.cid # 0 /\ ctr[k].cid = p.cid /\ ctr[k].src = p.img
    BY <1>5, <2>1 DEF Names
  <2>3. /\ ctr' = [ctr EXCEPT ![k].up = TRUE] /\ Jump(self, "probe")
        /\ loc' = loc
    BY <1>7, <2>1, <2>2 DEF Wake
  <2>4. /\ ctr'[k].cid = p.cid /\ ctr'[k].src = p.img /\ ctr'[k].up
        /\ \A x \in Keys \ {k} : ctr'[x] = ctr[x]
    BY <1>1, <2>2, <2>3 DEF Container
  <2>5. Only(self) /\ pc'[self] = "probe" /\ loc'[self] = loc[self]
    BY <1>1, <2>3, StayOnly
  <2>6. AtHost(self)'
    BY <1>1, <2>2, <2>4, <2>5 DEF AtHost, HostAt, Finishing, Repairing, Key
  <2>7. Matches(ctr'[k], store'[k])
    BY <1>1, <2>2, <2>4 DEF Matches, Names
  <2> QED
    BY <1>1, <1>3, <2>4, <2>5, <2>6, <2>7, MoveStep
<1>8. CASE Probe(self)
  <2>1. /\ pc[self] = "probe" /\ ctr' = ctr
        /\ \/ Jump(self, "wakePut") /\ loc' = loc
           \/ Return(self, loc[self], loc[self].ret)
    BY <1>8 DEF Probe, WakeFailed
  <2>2. CASE Jump(self, "wakePut") /\ loc' = loc
    <3>1. Only(self) /\ pc'[self] = "wakePut" /\ loc'[self] = loc[self]
      BY <1>1, <2>2, StayOnly
    <3>2. AtHost(self)'
      BY <1>1, <2>1, <3>1 DEF AtHost, HostAt, Finishing, Repairing, Key
    <3> QED
      BY <1>1, <1>2, <1>3, <2>1, <3>1, <3>2, MoveStep
  <2>3. CASE Return(self, loc[self], loc[self].ret)
    BY <1>4, <1>5, <2>1, <2>3 DEF Return
  <2> QED
    BY <2>1, <2>2, <2>3
<1> QED
  BY <1>6, <1>7, <1>8

\* Every goroutine asks nothing of a container.
LEMMA CalmAll ==
  ASSUME flaky' \subseteq Faults, ImagesTrue', ListTrue',
         \A s \in Procs : pc'[s] \in Calm,
         \A k \in Keys : Matches(ctr'[k], store'[k])
  PROVE  HostInv'
BY CalmHost DEF HostInv, AtHost

\* The preview runs again, and another goroutine publishes it.
LEMMA WakePutHost ==
  ASSUME TypeOK, SeqInv, HostInv, SeqInv', NEW self \in Goroutines, WakePut(self)
  PROVE  HostInv'
<1> DEFINE k == Key(self)
           old == loc[self].p
           p == [old EXCEPT !.status = "running", !.age = 0]
<1>1. /\ self \in Procs /\ self # Loop /\ k \in Keys /\ pc[self] = "wakePut"
      /\ UNCHANGED <<ctr, image, flaky, managed>> /\ Put(k, p)
      /\ loc[self].ret = "idle" /\ old \in Preview
      /\ HostAt("wakePut", loc[self], ctr[k], dir[k], store[k], closed)
  BY InGoroutines, KeyType, LocalType, TickPlace
     DEF WakePut, HostInv, AtHost
<1>2. /\ pc[self] \in InHandSteps /\ pc[self] \in Waking
      /\ pc[self] \notin Between \cup {"idle"}
  BY <1>1 DEF InHandSteps, Ahead, Waking, Between
<1>3. store[k].status \in {"running", "sleeping"}
  BY <1>1, <1>2, InHandAlone DEF Copied
<1>4. /\ old = store[k] /\ Names(old, ctr[k]) /\ ctr[k].src = old.img
      /\ ctr[k].up
  BY <1>1, <1>2, <1>3, SettledElse DEF HostAt, Matches
<1>5. p.cid = old.cid /\ p.img = old.img /\ p.status = "running"
  BY <1>1 DEF Preview
<1> HIDE DEF p
<1>6. Matches(ctr[k], p)
  BY <1>4, <1>5 DEF Matches, Names
<1>7. \A x \in Keys : Matches(ctr'[x], store'[x])
  <2>1. store'[k] = p /\ \A x \in Keys \ {k} : store'[x] = store[x]
    BY <1>1 DEF Put
  <2>2. \A x \in Keys \ {k} : Matches(ctr[x], store[x])
    BY <1>1, <1>2, SettledElse
  <2> QED
    BY <1>1, <1>6, <2>1, <2>2
<1>8. \A s \in Procs : pc'[s] \in {"idle", "publish"}
  <2>1. \A s \in Procs \ {self} : pc[s] = "idle"
    BY <1>1 DEF SeqInv, Alone
  <2> QED
    BY <1>1, <2>1 DEF WakePut, Jump
<1>9. \A s \in Procs : pc'[s] \in Calm
  BY <1>8 DEF Calm, PCs, Between, Repairing
<1>10. ImagesTrue' /\ flaky' \subseteq Faults
  BY <1>1 DEF HostInv, ImagesTrue
<1>11. ListTrue'
  <2>1. pc'[Loop] = "idle"
    <3>1. /\ pc[Loop] = "idle" /\ Loop \in Procs
          /\ (Free # {} => NewGoroutine # Loop)
      BY <1>1, LoopInProcs, NewGoroutineType, ThreadsAssumption
         DEF SeqInv, Alone
    <3> QED
      BY <1>1, <3>1 DEF WakePut, Jump
  <2> QED
    BY <2>1 DEF ListTrue
<1> QED
  BY <1>7, <1>9, <1>10, <1>11, CalmAll

LEMMA HandlerHost ==
  ASSUME TypeOK, SeqInv, HostInv, SeqInv', HostSteady, NEW self \in Goroutines,
         HandlerStep(self)
  PROVE  HostInv'
<1>1. /\ self \in Procs /\ self # Loop
      /\ pc[self] \notin {"recreate", "rerun", "wakeList", "wakeNext"}
  <2>1. /\ self \in Procs /\ self # Loop
    BY InGoroutines
  <2>2. pc[self] \notin {"recreate", "rerun"}
    BY <2>1 DEF HostInv, AtHost, HostAt, Repairing
  <2>3. pc[self] # "idle" => pc[self] \notin {"wakeList", "wakeNext"}
    BY <2>1, Busy1 DEF OnItsWay, DeploySteps, TearSteps, RequestSteps, TickSteps
  <2> QED
    BY <2>1, <2>2, <2>3
<1>2. CASE TearNext(self)
  <2>1. PICK k \in Pending(self) :
          SetLoc(self, [TakeNext(self, k) EXCEPT !.ret = "tearNext"])
    BY <1>2 DEF TearNext
  <2>2. /\ pc[self] = "tearNext" /\ Jump(self, "tearHost")
        /\ "tearNext" \in Returns
        /\ UNCHANGED <<store, ctr, image, flaky, managed>>
    BY <1>2 DEF TearNext, Goto, Returns, LoopHeads
  <2> QED
    BY <1>1, <2>1, <2>2, TakeHost
<1>3. /\ ~WakeList(self) /\ ~WakeNext(self) /\ ~WokenUp(self)
      /\ ~Recreate(self) /\ ~RunAgain(self)
  BY <1>1 DEF WakeList, WakeNext, WokenUp, Goto, Recreate, RunAgain
<1> QED
  BY <1>1, <1>2, <1>3, QuietHost, RequestHost, WakePutHost, SettleHost
     DEF HandlerStep

LEMMA LoopHost ==
  ASSUME TypeOK, SeqInv, HostInv, SeqInv', HostSteady, LoopStep
  PROVE  HostInv'
<1>1. /\ Loop \in Procs
      /\ pc[Loop] \notin Repairing
  BY LoopInProcs DEF HostInv, AtHost, HostAt
<1>2. ~HealPut /\ ~HealFail /\ ~Recreate(Loop) /\ ~RunAgain(Loop)
  BY <1>1 DEF HealPut, HealFail, Recreate, RunAgain, Repairing
<1> QED
  BY <1>1, <1>2, ListManagedHost, ScanHost, SleepHost, SettleHost, ReapHost,
     PublishHost, TearHostHost, TearDeleteHost DEF LoopStep

-----------------------------------------------------------------------------
(* What starts, and what surrounds the daemon.                             *)

\* Fewer pull requests count as closed, calls fail or do not.
LEMMA StillHost ==
  ASSUME HostInv, UNCHANGED <<store, ctr, image, dir, managed, pc, loc>>,
         closed' \subseteq closed, flaky' \subseteq Faults
  PROVE  HostInv'
<1>1. ImagesTrue' /\ ListTrue'
  BY DEF HostInv, ImagesTrue, ListTrue
<1>2. \A s \in Procs : Key(s)' = Key(s)
  BY DEF Key
<1>3. \A k \in Keys : Unsettled(k)' \/ Matches(ctr'[k], store'[k])
  BY <1>2 DEF HostInv, Unsettled
<1>4. \A s \in Procs : AtHost(s)'
  BY <1>2 DEF HostInv, AtHost, HostAt
<1> QED
  BY <1>1, <1>3, <1>4 DEF HostInv

LEMMA RestedHost ==
  ASSUME TypeOK, HostInv, \A s \in Procs : pc[s] = "idle"
  PROVE  \A k \in Keys : Matches(ctr[k], store[k])
BY DEF HostInv, Unsettled, Between

LEMMA BeginsHost ==
  ASSUME TypeOK, HostInv, Sequential, NEW l, NEW ev, NEW r,
         Begins(l, ev, r), UNCHANGED <<store, ctr, image, flaky>>,
         l \in {"opened", "closing", "list", "redeploy", "resolve"}
  PROVE  HostInv'
<1>1. PICK g \in Goroutines :
        /\ \A s \in Procs : pc[s] = "idle"
        /\ Only(g) /\ pc'[g] = l
  BY Began
<1>2. \A s \in Procs : pc'[s] \in {"idle", l}
  BY <1>1 DEF Only
<1>3. {"idle", l} \subseteq Calm
  BY DEF Calm, PCs, Between, Repairing
<1>4. pc'[Loop] = "idle"
  BY <1>1, LoopInProcs, ThreadsAssumption DEF Only
<1>5. ImagesTrue' /\ ListTrue' /\ flaky' \subseteq Faults
  BY <1>4 DEF HostInv, ImagesTrue, ListTrue
<1> QED
  BY <1>1, <1>2, <1>3, <1>5, RestedHost, CalmAll

LEMMA EnvironmentHost ==
  ASSUME TypeOK, HostInv, Sequential, HostSteady, Environment
  PROVE  HostInv'
<1>0. "wake" \notin Commands /\ flaky \subseteq Faults
  BY DEF Sequential, HostInv
<1>1. ASSUME NEW r \in PRs, Opened(r) \/ Updated(r) \/ Closed(r) PROVE HostInv'
  <2>1. UNCHANGED <<store, closed, ctr, image, dir, managed, flaky>>
    BY <1>1 DEF Opened, Updated, Closed, Outside
  <2> QED
    BY <1>0, <1>1, <2>1, WebhookMoves, BeginsHost, StillHost
<1>2. ASSUME NEW r \in PRs, Commented(r) PROVE HostInv'
  <2>1. UNCHANGED <<store, ctr, image, flaky>>
    BY <1>2 DEF Commented, Outside
  <2> QED
    BY <1>0, <1>2, <2>1, CommentMoves, BeginsHost
<1>3. ASSUME NEW r \in PRs, ForgetPR(r) PROVE HostInv'
  BY <1>0, <1>3, StillHost DEF ForgetPR, Outside
<1>4. ASSUME NEW k \in Keys, Requested(k) PROVE HostInv'
  <2>1. UNCHANGED <<store, ctr, image, flaky>>
    BY <1>4 DEF Requested, Outside
  <2> QED
    BY <1>4, <2>1, RequestMoves, BeginsHost
<1>5. ASSUME NEW k \in Keys, Prune(k) \/ AppExits(k) \/ CliDestroy(k) PROVE HostInv'
  BY <1>5 DEF Prune, AppExits, CliDestroy, HostSteady
<1>6. CASE Restart
  BY <1>6 DEF Restart, HostSteady
<1>7. CASE Outage \/ Recovery
  BY <1>0, <1>7, StillHost DEF Outage, Recovery
<1> QED
  BY <1>1, <1>2, <1>3, <1>4, <1>5, <1>6, <1>7, Zenon DEF Environment

LEMMA TickHost ==
  ASSUME TypeOK, HostInv, Sequential, NEW elapsed \in BOOLEAN, Tick(elapsed)
  PROVE  HostInv'
<1>1. \A s \in Procs : pc[s] = "idle"
  BY Rested DEF Tick
<1>2. /\ pc'[Loop] = "ps" /\ \A s \in Procs \ {Loop} : pc'[s] = "idle"
      /\ \A k \in Keys : store'[k] = store[k] \/ store'[k] = Older(store[k])
      /\ UNCHANGED <<ctr, image, flaky>>
  BY <1>1, TickBegins DEF Tick, TickList
<1>3. \A s \in Procs : pc'[s] \in {"idle", "ps"}
  BY <1>2
<1>4. {"idle", "ps"} \subseteq Calm
  BY DEF Calm, PCs, Between, Repairing
<1>5. \A k \in Keys : Matches(ctr'[k], store'[k])
  BY <1>1, <1>2, RestedHost, OlderKeeps, MatchesSame
<1>6. ImagesTrue' /\ ListTrue' /\ flaky' \subseteq Faults
  BY <1>2 DEF HostInv, ImagesTrue, ListTrue
<1> QED
  BY <1>3, <1>4, <1>5, <1>6, CalmAll

LEMMA InitHost == Init => HostInv
<1> SUFFICES ASSUME Init PROVE HostInv
  OBVIOUS
<1>1. FirstCid \in Cids /\ FirstCid # 0
  BY PartsAssumption, IdsAssumption DEF FirstCid
<1>2. \A k \in Keys : Matches(ctr[k], store[k])
  BY <1>1 DEF Init, If, DeployedPreview, Absent, NoContainer, Matches, Names
<1>3. ImagesTrue
  BY DEF Init, If, ImagesTrue
<1>4. Loop \in Procs /\ pc[Loop] = "idle"
  BY LoopInProcs DEF Init
<1>5. \A s \in Procs : AtHost(s)
  BY IdleCalm, CalmHost DEF Init, AtHost
<1> QED
  BY <1>2, <1>3, <1>4, <1>5 DEF Init, HostInv, ListTrue

LEMMA NextHost ==
  ASSUME TypeOK, SeqInv, HostInv, Sequential, HostSteady, [Next]_vars
  PROVE  HostInv'
<1>0. SeqInv'
  BY NextFits
<1>1. CASE Environment
  BY <1>1, EnvironmentHost
<1>2. CASE \E elapsed \in BOOLEAN : Tick(elapsed)
  BY <1>2, TickHost
<1>3. CASE LoopStep
  BY <1>0, <1>3, LoopHost
<1>4. CASE \E g \in Goroutines : GoroutineStep(g)
  BY <1>0, <1>4, DeployHost, HandlerHost DEF GoroutineStep
<1>5. CASE UNCHANGED vars
  BY <1>5, StillHost DEF vars, HostInv
<1> QED
  BY <1>1, <1>2, <1>3, <1>4, <1>5 DEF Next

LEMMA HostCorrect ==
  ASSUME Sequential, HostSteady
  PROVE  Spec => []HostInv
BY InitFits, NextFits, InitHost, NextHost, TypeCorrect, PTL DEF Spec

\* Nothing holds the name of a preview's container when runContainer calls
\* docker run: the copy the deploy started from names what there is.
THEOREM NameIsFreeHeld ==
  ASSUME Sequential, HostSteady
  PROVE  Spec => []NameIsFree
<1>1. HostInv => NameIsFree
  BY DEF HostInv, AtHost, HostAt, NameIsFree
<1> QED
  BY <1>1, HostCorrect, PTL

\* At rest a running or sleeping preview's record names the container there is
\* and the commit it was built from, and what is routed is up.
THEOREM RecordMatchesHostHeld ==
  ASSUME Sequential, HostSteady
  PROVE  Spec => []RecordMatchesHost
<1>1. HostInv => RecordMatchesHost
  <2> SUFFICES ASSUME HostInv, Quiet, NEW k \in Keys,
                      store[k].status \in {"running", "sleeping"}
               PROVE  /\ ctr[k].cid = store[k].cid /\ ctr[k].src = store[k].img
                      /\ store[k].status = "running" => ctr[k].up
    BY DEF RecordMatchesHost
  <2>1. \A s \in Procs : pc[s] = "idle"
    BY DEF Quiet, Busy
  <2>2. Matches(ctr[k], store[k])
    BY <2>1 DEF HostInv, Unsettled, Between
  <2> QED
    BY <2>2 DEF Matches, Names
<1> QED
  BY <1>1, HostCorrect, PTL
=============================================================================
