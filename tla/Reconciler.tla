------------------------------ MODULE Reconciler -----------------------------
(***************************************************************************)
(* The daemon and what surrounds it: webhooks and requests start           *)
(* goroutines, the ticker starts Tick, time passes, the outside world      *)
(* interferes.  The properties of the reconciler are at the end.           *)
(***************************************************************************)
EXTENDS TickLoop

CONSTANTS Commands,    \* the ChatOps commands reviewers use
          MaxEvents,   \* bound on outside events
          MaxBusy      \* how many goroutines run at the same time

ASSUME BusyAssumption == /\ MaxBusy \in Nat \ {0} /\ MaxEvents \in Nat
                         /\ Commands \subseteq {"destroy", "redeploy", "wake"}

Busy == {s \in Procs : pc[s] # "idle"}

\* net/http and the webhook handler give every call a goroutine of its own.
Start(lv, l) ==
  /\ Free # {} /\ Cardinality(Busy) < MaxBusy
  /\ Jump(NewGoroutine, l) /\ SetLoc(NewGoroutine, lv)

Outside == events < MaxEvents /\ events' = events + 1 /\ UNCHANGED flaky

\* A webhook is delivered once, or never.
Deliver(lv, l) == \/ Start(lv, l)
                  \/ "lost" \in Faults /\ UNCHANGED <<pc, loc>>

\* pull_request opened or reopened, at commit 1 or at a later one.
Opened(r) ==
  /\ Outside /\ prs[r] # "open"
  /\ prs' = [prs EXCEPT ![r] = "open"]
  /\ head' = [head EXCEPT ![r] = IF @ = 0 THEN 1 ELSE @]
  /\ Deliver([Blank EXCEPT !.ev = "opened", !.pr = r, !.sha = head'[r]],
             "opened")
  /\ UNCHANGED <<daemonVars, dockerVars, envs, green, tickVars>>

\* pull_request synchronize, or ready_for_review at the same commit.
Updated(r) ==
  /\ Outside /\ prs[r] = "open"
  /\ \E c \in {head[r], head[r] + 1} \cap Commits :
       /\ head' = [head EXCEPT ![r] = c]
       /\ Deliver([Blank EXCEPT !.ev = "opened", !.pr = r, !.sha = c],
                  "opened")
  /\ UNCHANGED <<daemonVars, dockerVars, prs, envs, green, tickVars>>

\* pull_request closed, merged or not.
Closed(r) ==
  /\ Outside /\ prs[r] = "open"
  /\ prs' = [prs EXCEPT ![r] = "closed"]
  /\ Deliver([Blank EXCEPT !.ev = "closed", !.pr = r], "closing")
  /\ UNCHANGED <<daemonVars, dockerVars, head, envs, green, tickVars>>

\* A trusted reviewer's `/preview <command> [app]`.
Commented(r) ==
  /\ Outside
  /\ prs[r] = "open" \/ (prs[r] = "closed" /\ "lateComment" \in Faults)
  /\ \E cmd \in Commands, S \in {Apps} \cup {{a} : a \in Apps} :
       Start([Blank EXCEPT !.ev = cmd, !.pr = r, !.apps = S],
             CASE cmd = "destroy" -> "list" [] cmd = "wake" -> "wakeList"
               [] cmd = "redeploy" -> "redeploy")
  /\ UNCHANGED <<daemonVars, dockerVars, githubVars, tickVars>>

\* A visitor's request to the host of a preview.
Requested(k) ==
  /\ Outside /\ k \in Live
  /\ Start([Blank EXCEPT !.ev = "request", !.pr = k[1], !.app = k[2]],
           "resolve")
  /\ UNCHANGED <<daemonVars, dockerVars, githubVars, tickVars>>

-----------------------------------------------------------------------------
\* docker container prune and docker image prune -a, by the host's operator.
Prune(k) ==
  /\ "prune" \in Faults /\ Outside
  /\ \/ /\ ctr[k] # NoContainer /\ ~ctr[k].up
        /\ ctr' = [ctr EXCEPT ![k] = NoContainer]
        /\ UNCHANGED image
     \/ /\ ctr[k] = NoContainer /\ \E c \in Commits : image[k][c] # 0
        /\ image' = [image EXCEPT ![k] = [c \in Commits |-> 0]]
        /\ UNCHANGED ctr
  /\ UNCHANGED <<daemonVars, nets, dir, githubVars, tickVars, pc, loc>>

\* A previewed app exits; --restart no.
AppExits(k) ==
  /\ "exit" \in Faults /\ Outside /\ ctr[k].up
  /\ ctr' = [ctr EXCEPT ![k].up = FALSE]
  /\ UNCHANGED <<daemonVars, image, nets, dir, githubVars, tickVars, pc, loc>>

\* The daemon stops and starts again: bbolt and docker keep their state.
Reboot ==
  /\ pc' = [s \in Procs |-> "idle"] /\ loc' = [s \in Procs |-> Blank]
  /\ closed' = {} /\ sem' = 0
  /\ managed' = [k \in Keys |-> 0] /\ keep' = {}

Restart == /\ "crash" \in Faults /\ Outside /\ Reboot
           /\ UNCHANGED <<store, dockerVars, githubVars>>

\* `prevly destroy <repo> <pr> <app>`: the store opens for it only while the
\* daemon is down.  The command's Reconciler has no GitHub: for a preview with
\* a Deployment deactivateDeployment calls a nil interface, and the command
\* dies there, before store.Delete.
CliDestroy(k) ==
  /\ "cli" \in Faults /\ Outside /\ k \in Live /\ Reboot
  /\ LET p == store[k] IN
     /\ Remove(k, p.cid) /\ FreeNetwork(k, p.cid)
     /\ IF p.img # 0 THEN RemoveImage(k, p.img) ELSE UNCHANGED image
     /\ dir' = [dir EXCEPT ![k] = NoDir]
     /\ IF p.dep = 0 THEN Put(k, Absent) ELSE UNCHANGED store
  /\ UNCHANGED githubVars

\* closedMemory: twelve hours after the webhook the entry no longer counts.
ForgetPR(r) ==
  /\ "forget" \in Faults /\ Outside /\ r \in closed
  /\ closed' = closed \ {r}
  /\ UNCHANGED <<store, sem, dockerVars, githubVars, tickVars, pc, loc>>

\* Calls to docker or to GitHub start to fail now and then, and stop to.
Outage ==
  /\ events < MaxEvents /\ events' = events + 1
  /\ \E f \in {"docker", "github"} \cap Faults : flaky' = flaky \cup {f}
  /\ UNCHANGED <<daemonVars, dockerVars, githubVars, tickVars, pc, loc>>

Recovery ==
  /\ flaky # {} /\ flaky' = {}
  /\ UNCHANGED <<daemonVars, dockerVars, githubVars, tickVars, pc, loc, events>>

Environment ==
  \/ \E r \in PRs : \/ Opened(r) \/ Updated(r) \/ Closed(r) \/ Commented(r)
                    \/ ForgetPR(r)
  \/ \E k \in Keys : Requested(k) \/ Prune(k) \/ AppExits(k) \/ CliDestroy(k)
  \/ Restart \/ Outage \/ Recovery

Tick(elapsed) == TickList(elapsed) /\ Cardinality(Busy) < MaxBusy

GoroutineStep(g) == DeployStep(g) \/ HandlerStep(g)

Next == \/ Environment
        \/ \E elapsed \in BOOLEAN : Tick(elapsed)
        \/ LoopStep
        \/ \E g \in Goroutines : GoroutineStep(g)

Spec == Init /\ [][Next]_vars

(* The Go scheduler runs every runnable goroutine, the ticker fires while   *)
(* time passes, and outages of docker and GitHub end.  Nothing else is      *)
(* assumed of the outside world.                                            *)
Fairness ==
  /\ \A g \in Goroutines : WF_vars(GoroutineStep(g))
  /\ WF_vars(LoopStep) /\ SF_vars(Tick(TRUE)) /\ WF_vars(Recovery)

FairSpec == Spec /\ Fairness

-----------------------------------------------------------------------------
(* What holds however the goroutines interleave.                           *)

\* Slots of buildSem (buildImage's send and deferred receive): every goroutine
\* inside buildImage holds one, no error return keeps or frees one too many,
\* and no more builds run than Limits.MaxConcurrentBuilds.
BuildSlots ==
  /\ sem = Cardinality({s \in Procs : pc[s] \in BuildPCs})
  /\ sem <= MaxBuilds

\* healMissing leaves a preview alone that lacks "recreate metadata", for
\* records of older versions.  No record this version routes is without it:
\* whatever touch, wake, sleep, heal and deploy write over each other, a
\* running or sleeping preview names its container and its image.
RoutableIsRecreatable ==
  \A k \in Keys : store[k].status \in {"running", "sleeping"} =>
                     store[k].cid # 0 /\ store[k].img # 0

\* Every webhook, comment and request is done with in the end: no build waits
\* for a slot for ever, no loop over previews or apps goes on for ever, and a
\* killed daemon leaves nothing that blocks the next one.
HandlersEnd == []<>(\A g \in Goroutines : pc[g] = "idle")

\* "reaps orphaned containers", "destroys past-TTL" previews, "reclaims disk":
\* once reviewers and visitors are gone, Tick in the end frees the host of
\* every record, container and checkout, whatever was lost, failed, killed or
\* interrupted before.
HostDrains ==
  <>[](\A k \in Keys : /\ store[k] = Absent
                       /\ ctr[k] = NoContainer
                       /\ dir[k] = NoDir)

\* The slots of the host that are taken: by a record, or by a deploy that may put
\* one, because checkCapacity let it pass or because it read one.
Admitted == {Key(s) : s \in {t \in Procs : pc[t] = "put"}}
SlotsTaken == Live \cup Admitted

\* Two new previews pass: one is admitted while another one is on its way from
\* checkCapacity to its Put.
AdmittedTogether(s) == /\ pc[s] = "capacity" /\ pc'[s] = "put"
                       /\ Admitted \ Live # {}

\* A copy of a record that was deleted meanwhile is put back.
CopyWriters == {"publish", "commit", "failPut", "touch", "wakePut", "healPut",
                "healFail", "sleepPut"}
PutsBack(s) == /\ pc[s] \in CopyWriters
               /\ store[Key(s)] = Absent /\ store'[Key(s)] # Absent

\* Limits.MaxConcurrentPreviews while handlers, requests and Ticks interleave:
\* more slots are taken than there are only because two deploys were admitted
\* together, or a stale copy brought a record back. No redeploy, command, wake
\* or restart takes a slot that is not there.
OverLimitHasCause ==
  [][/\ Cardinality(SlotsTaken') > Cardinality(SlotsTaken)
     /\ Cardinality(SlotsTaken') > MaxPreviews
     => \E s \in Procs : AdmittedTogether(s) \/ PutsBack(s)]_vars

-----------------------------------------------------------------------------
(* What holds when the daemon does one thing at a time (MaxBusy = 1).      *)

Quiet == Busy = {}

\* checkCapacity: Limits.MaxConcurrentPreviews bounds the records of the store.
\* github/feedback.go promises it without the condition: the "limit: %d
\* concurrent previews" of the notice; run capacity_raced.
CapacityRespected == Cardinality(Live) <= MaxPreviews

\* The record is "the source of truth for routing, lifecycle and garbage
\* collection": at rest, a running or sleeping preview's record names the
\* container there is and the commit it was built from, and what is routed is up.
RecordMatchesHost ==
  Quiet => \A k \in Keys : store[k].status \in {"running", "sleeping"} =>
             /\ ctr[k].cid = store[k].cid /\ ctr[k].src = store[k].img
             /\ store[k].status = "running" => ctr[k].up

\* StatusBuilding "means an image build / (re)deploy is in progress".
DeployPCs == {"publish", "acquire", "clean", "fetchSource", "build", "built",
              "network", "run", "ready", "isReady", "commit", "fail", "failPut",
              "tearHost", "tearDelete"}
BuildingHasBuilder ==
  \A k \in Keys : store[k].status = "building" =>
     \E s \in Procs : pc[s] \in DeployPCs /\ Key(s) = k

\* "Replace any previous container on redeploy": nothing holds the name when
\* runContainer calls docker run.
NameIsFree == \A s \in Procs : pc[s] = "run" => ctr[Key(s)] = NoContainer

\* Once a closed webhook is handled, the pull request has no record, container,
\* network, checkout or active Deployment left, and none comes back.
ClosedLeavesNothing ==
  Quiet => \A k \in Keys : k[1] \in closed =>
             /\ store[k] = Absent /\ ctr[k] = NoContainer /\ k \notin nets
             /\ dir[k] = NoDir /\ green[k] = {}

\* Every write to a record is a transition of model.allowedTransitions, which
\* the reconciler never consults; a preview is admitted below the limit only;
\* and once its pull request is closed, a preview only ends.
Promised == INSTANCE Lifecycle
  WITH status <- [k \in Keys |-> store[k].status], shut <- closed

LifecycleKept == Promised!LSpec

-----------------------------------------------------------------------------
(* What the sources say and the interleavings refute.                      *)

\* deploy.go: abandoned "reports whether this preview must not be written
\* back: its PR is closed, or its record was deleted while a long step ran".
\* No deploy passes one of its checks after its record was deleted.
DestroyedIsAbandoned ==
  [][\A s \in Procs :
       pc[s] \in {"built", "isReady", "fail"}
         /\ pc'[s] \in {"network", "commit", "failPut"}
       => store[Key(s)] # Absent]_vars

\* source.go: Checkout "checks out the exact PR-head commit into Dir".  The
\* image tagged with a commit is built from that commit.
BuiltFromItsCommit ==
  \A k \in Keys, c \in Commits : image[k][c] \in {0, c}
=============================================================================
