----------------------------- MODULE PreviewHost ----------------------------
(***************************************************************************)
(* The state the goroutines of the prevly daemon share, and the primitive  *)
(* operations on it: the bbolt store, the reconciler's in-memory fields,   *)
(* docker and the work directory, and what GitHub keeps for a repository.  *)
(*                                                                         *)
(* A webhook, a visitor's request and the Tick loop each run in a          *)
(* goroutine.  Its program counter is pc[self], its local variables are    *)
(* loc[self].  Every store transaction, build, run, wait and GitHub call   *)
(* is a step of its own, so that steps of other goroutines fall between    *)
(* them; docker commands that directly follow each other (network and old  *)
(* container; the parts of a teardown) are one step.                       *)
(***************************************************************************)
EXTENDS PreviewModel, FiniteSets

CONSTANTS PRs,          \* pull requests of one repository
          Apps,         \* the apps of its .prevly.yml
          Goroutines,   \* goroutines that run handlers
          Loop,         \* the goroutine that runs Reconciler.Run
          MaxBuilds,    \* Limits.MaxConcurrentBuilds
          MaxPreviews,  \* Limits.MaxConcurrentPreviews
          Installed,    \* the webhooks carry an installation id
          Deployed,     \* keys whose preview runs when the daemon starts
          Faults        \* what the run lets the outside world do, see Reconciler

Procs == Goroutines \cup {Loop}
Keys == PRs \X Apps

ASSUME ThreadsAssumption == Loop \notin Goroutines /\ IsFiniteSet(Goroutines)
ASSUME BuildsAssumption == MaxBuilds \in Nat \ {0}
ASSUME PartsAssumption == PRs # {} /\ Apps # {} /\ MaxPreviews \in Nat
                          /\ Installed \in BOOLEAN
                          /\ Deployed \subseteq Keys
                          /\ Cids # {} /\ Deps # {}

VARIABLES
  store,     \* Store: the record of each key
  closed,    \* Reconciler.closedPRs, entries younger than closedMemory
  sem,       \* number of slots taken in Reconciler.buildSem
  ctr,       \* docker: the container named ContainerName(key), if any
  image,     \* docker: for each key and commit the commit its ImageTag holds
  nets,      \* docker: keys whose NetworkName exists
  dir,       \* what the checkout directory of each key holds
  prs,       \* GitHub: state of each pull request
  head,      \* GitHub: its head commit
  envs,      \* GitHub: keys whose Deployment environment exists
  green,     \* GitHub: deployments of a key whose last status is not inactive
  pc, loc,   \* the goroutines
  managed,   \* Tick: ids of the containers `docker ps` listed, by key
  keep,      \* Tick: keys reapOrphanWorkDirs keeps
  flaky,     \* of "docker" and "github": whose calls may fail just now
  events     \* number of outside events so far, bounded by MaxEvents

daemonVars == <<store, closed, sem>>
dockerVars == <<ctr, image, nets, dir>>
githubVars == <<prs, head, envs, green>>
tickVars == <<managed, keep>>
worldVars == <<flaky, events>>
vars == <<daemonVars, dockerVars, githubVars, tickVars, pc, loc, worldVars>>

-----------------------------------------------------------------------------
(* Docker and the work directory.                                          *)

\* A container: its id, the commit its image was built from, and State.
Container == [cid : Cids \cup {0}, src : Commits \cup {0}, up : BOOLEAN]
NoContainer == [cid |-> 0, src |-> 0, up |-> FALSE]

NoDir == -1       \* the directory does not exist
EmptyDir == 0     \* created and git-initialised, no commit checked out yet

\* `docker rm -f id`: the callers ignore its error.
Remove(k, id) ==
  \/ ctr' = [ctr EXCEPT ![k] = IF @.cid = id THEN NoContainer ELSE @]
  \/ "docker" \in flaky /\ ctr' = ctr

Up(k, id) == id # 0 /\ ctr[k].cid = id /\ ctr[k].up

CidsInUse ==
  {store[k].cid : k \in Keys} \cup {ctr[k].cid : k \in Keys}
    \cup {managed[k] : k \in Keys} \cup {loc[s].p.cid : s \in Procs}
    \cup UNION {{loc[s].todo[k].cid : k \in Keys} : s \in Procs}

\* An id is as good as new once nothing refers to it any more.
FreshCid == CHOOSE c \in Cids : c \notin CidsInUse

DepsInUse ==
  {store[k].dep : k \in Keys} \cup UNION {green[k] : k \in Keys}
    \cup {loc[s].p.dep : s \in Procs}
    \cup UNION {{loc[s].todo[k].dep : k \in Keys} : s \in Procs}

FreshDep == CHOOSE d \in Deps : d \notin DepsInUse

-----------------------------------------------------------------------------
(* Goroutines.                                                             *)

PCs == { "idle", "opened", "redeploy", "deploy", "capacity", "put",
         "publish", "acquire", "clean", "fetchSource", "build", "built",
         "network", "run", "ready", "isReady", "commit", "fail", "failPut",
         "closing", "environments", "list", "tearNext", "tearHost",
         "tearDelete", "resolve", "touch", "wakeList", "wakeNext", "wake",
         "recreate", "rerun", "probe", "wakePut", "ps", "scan", "healPut",
         "healFail", "sleep", "sleepPut" }

\* The loops over apps, over previews, and over the records of a Tick.
LoopHeads == {"deploy", "tearNext", "wakeNext", "scan"}

\* The steps a publish, a teardown or a wake may return to.
Returns == LoopHeads \cup {"idle", "acquire"}

\* A goroutine in these steps holds a slot of buildSem.
BuildPCs == {"clean", "fetchSource", "build"}

Nothing == [k \in Keys |-> Absent]

SomeKey == CHOOSE k \in Keys : TRUE

(* Local variables: the event handled and its pull request, head commit    *)
(* and app (or apps still to do), the record p in hand, the snapshot todo  *)
(* being worked through, the step ret to go on with after a call, and      *)
(* wakePR's count of previews woken (whether it is positive).              *)
Locals == [ ev : {"none", "opened", "closed", "destroy", "redeploy", "wake",
                  "request", "publish", "tick"},
            pr : PRs, app : Apps, sha : Commits \cup {0}, apps : SUBSET Apps,
            p : Preview, todo : [Keys -> Preview], ret : Returns, woke : BOOLEAN ]

Blank == [ ev |-> "none", pr |-> SomeKey[1], app |-> SomeKey[2], sha |-> 0,
           apps |-> {}, p |-> Absent, todo |-> Nothing, ret |-> "idle",
           woke |-> FALSE ]

Key(self) == <<loc[self].pr, loc[self].app>>

Jump(self, l) == pc' = [pc EXCEPT ![self] = l]
Goto(self, from, to) == pc[self] = from /\ Jump(self, to)
SetLoc(self, l) == loc' = [loc EXCEPT ![self] = l]

\* The goroutine of a handler ends; the loop goroutine waits for its ticker.
Exit(self) == Jump(self, "idle") /\ SetLoc(self, Blank)

\* Goroutines are alike: a new one is any that is free.
Free == {g \in Goroutines : pc[g] = "idle"}
NewGoroutine == CHOOSE g \in Free : TRUE

\* Work through a snapshot of the store, one record at a time, in any order.
Snapshot(S) == [k \in Keys |-> IF k \in S THEN store[k] ELSE Absent]
Pending(self) == {k \in Keys : loc[self].todo[k] # Absent}
TakeNext(self, k) == [loc[self] EXCEPT !.pr = k[1], !.app = k[2],
                                       !.p = loc[self].todo[k],
                                       !.todo[k] = Absent]

-----------------------------------------------------------------------------
(* The store.  Get and Put are one bbolt transaction each: a record read   *)
(* by Get, List, ListByPR or ListByHost is a copy, and Put writes all of   *)
(* the caller's copy back.                                                 *)

Live == {k \in Keys : store[k] # Absent}

\* Get: ErrNotFound and a nil record for a key the store does not hold.
Get(k) == IF store[k] = Absent THEN [err |-> "ErrNotFound", p |-> Absent]
                               ELSE [err |-> "nil", p |-> store[k]]

Put(k, p) == store' = [store EXCEPT ![k] = p]

\* Mutant: the test of the record inverted.
AbandonedIfLive(k) == k[1] \in closed \/ Get(k).err = "nil"

\* Reconciler.abandoned: err == nil && existing == nil never holds of Get.
Abandoned(k) == k[1] \in closed \/ (Get(k).err = "nil" /\ Get(k).p = Absent)

(* Where a call returns to.  deployApps goes on with the next app, or the  *)
(* handler ends with the last one; a loop over previews drops the record   *)
(* it had in hand.                                                         *)
Return(self, lv, l) ==
  IF l = "idle" \/ (l = "deploy" /\ lv.apps = {})
  THEN Exit(self)
  ELSE /\ Jump(self, l)
       /\ SetLoc(self, IF l \in LoopHeads THEN [lv EXCEPT !.p = Absent] ELSE lv)

(* publish and publishPreview after a write, when there is an installation *)
(* to publish to; then go on with step l.                                  *)
PublishThen(self, lv, l) ==
  IF Installed THEN Jump(self, "publish") /\ SetLoc(self, [lv EXCEPT !.ret = l])
               ELSE Return(self, lv, l)

-----------------------------------------------------------------------------
DaemonTypeOK ==
  /\ store \in [Keys -> Preview]
  /\ closed \subseteq PRs
  /\ sem \in Nat

DockerTypeOK ==
  /\ ctr \in [Keys -> Container]
  /\ image \in [Keys -> [Commits -> Commits \cup {0}]]
  /\ nets \subseteq Keys
  /\ dir \in [Keys -> Commits \cup {NoDir, EmptyDir}]

GithubTypeOK ==
  /\ prs \in [PRs -> {"none", "open", "closed"}]
  /\ head \in [PRs -> Commits \cup {0}]
  /\ envs \subseteq Keys
  /\ green \in [Keys -> SUBSET Deps]

ThreadTypeOK ==
  /\ pc \in [Procs -> PCs]
  /\ loc \in [Procs -> Locals]

TickTypeOK ==
  /\ managed \in [Keys -> Cids \cup {0}]
  /\ keep \subseteq Keys

WorldTypeOK ==
  /\ flaky \subseteq {"docker", "github"}
  /\ events \in Nat

TypeOK == /\ DaemonTypeOK /\ DockerTypeOK /\ GithubTypeOK
          /\ ThreadTypeOK /\ TickTypeOK /\ WorldTypeOK

(* The store and docker outlive the daemon.  It starts with nothing, or    *)
(* with the previews of Deployed, as an earlier run left them: built from  *)
(* commit 1 and running.                                                   *)
FirstCid == CHOOSE c \in Cids : TRUE
FirstDep == CHOOSE d \in Deps : TRUE

DeployedPreview == [ status |-> "running", cid |-> FirstCid, img |-> 1,
                     dep |-> IF Installed THEN FirstDep ELSE 0, age |-> 0 ]

If(k, this, that) == IF k \in Deployed THEN this ELSE that

Init ==
  /\ store = [k \in Keys |-> If(k, DeployedPreview, Absent)]
  /\ closed = {} /\ sem = 0
  /\ ctr = [k \in Keys |-> If(k, [cid |-> FirstCid, src |-> 1, up |-> TRUE],
                              NoContainer)]
  /\ image = [k \in Keys |-> [c \in Commits |-> If(k, IF c = 1 THEN 1 ELSE 0, 0)]]
  /\ nets = Deployed
  /\ dir = [k \in Keys |-> If(k, 1, NoDir)]
  /\ prs = [r \in PRs |-> IF \E a \in Apps : <<r, a>> \in Deployed
                          THEN "open" ELSE "none"]
  /\ head = [r \in PRs |-> IF \E a \in Apps : <<r, a>> \in Deployed THEN 1 ELSE 0]
  /\ envs = (IF Installed THEN Deployed ELSE {})
  /\ green = [k \in Keys |-> IF Installed /\ k \in Deployed THEN {FirstDep} ELSE {}]
  /\ pc = [s \in Procs |-> "idle"] /\ loc = [s \in Procs |-> Blank]
  /\ managed = [k \in Keys |-> 0] /\ keep = {}
  /\ flaky = {} /\ events = 0
=============================================================================
