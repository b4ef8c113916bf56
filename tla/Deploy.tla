-------------------------------- MODULE Deploy -------------------------------
(***************************************************************************)
(* internal/reconcile/deploy.go, builder/source.go and the Deployment half *)
(* of reconcile/feedback.go: deployApp, one preview's teardown, and        *)
(* publish, each as the sequence of its steps.                             *)
(***************************************************************************)
EXTENDS PreviewHost

\* deployApps: the next app of the event, and deployApp's store.Get.
\* upsertBuilding keeps every field of an existing record but the status.
NextApp(self) ==
  /\ pc[self] = "deploy"
  /\ \E a \in loc[self].apps :
       LET existing == store[<<loc[self].pr, a>>] IN
       /\ SetLoc(self, [loc[self] EXCEPT
                          !.app = a, !.apps = @ \ {a},
                          !.p = [existing EXCEPT !.status = "building"]])
       /\ Jump(self, IF existing = Absent THEN "capacity" ELSE "put")
  /\ UNCHANGED <<daemonVars, dockerVars, githubVars, tickVars, worldVars>>

\* Mutant: one preview too many.
OverCapacity == Cardinality(Live) > MaxPreviews

AtCapacity == Cardinality(Live) >= MaxPreviews

CheckCapacity(self) ==
  /\ pc[self] = "capacity"
  /\ Return(self, loc[self], IF AtCapacity THEN "deploy" ELSE "put")
  /\ UNCHANGED <<daemonVars, dockerVars, githubVars, tickVars, worldVars>>

PutBuilding(self) ==
  /\ pc[self] = "put"
  /\ Put(Key(self), loc[self].p)
  /\ PublishThen(self, loc[self], "acquire")
  /\ UNCHANGED <<closed, sem, dockerVars, githubVars, tickVars, worldVars>>

-----------------------------------------------------------------------------
(* publish.  Outside a deploy there is no head commit, and GitHub refuses  *)
(* to create a Deployment without a ref.                                   *)

CreateDeployment(self, k) ==
  LET p == [loc[self].p EXCEPT !.dep = FreshDep] IN
  /\ loc[self].p.dep = 0 /\ loc[self].sha # 0
  /\ Deps \ DepsInUse # {}
  /\ envs' = envs \cup {k}
  /\ green' = [green EXCEPT ![k] = @ \cup {p.dep}]
  /\ Put(k, p)
  /\ Return(self, [loc[self] EXCEPT !.p = p], loc[self].ret)

SetDeploymentStatus(self, k) ==
  /\ loc[self].p.dep # 0
  /\ green' = [green EXCEPT ![k] = @ \cup {loc[self].p.dep}]
  /\ Return(self, loc[self], loc[self].ret)
  /\ UNCHANGED <<store, envs>>

PublishFails(self) ==
  /\ "github" \in flaky \/ (loc[self].p.dep = 0 /\ loc[self].sha = 0)
  /\ Return(self, loc[self], loc[self].ret)
  /\ UNCHANGED <<store, envs, green>>

Publish(self) ==
  /\ pc[self] = "publish"
  /\ \/ CreateDeployment(self, Key(self))
     \/ SetDeploymentStatus(self, Key(self))
     \/ PublishFails(self)
  /\ UNCHANGED <<closed, sem, dockerVars, prs, head, tickVars, worldVars>>

-----------------------------------------------------------------------------
(* buildImage.                                                             *)

\* buildSem <- struct{}{}, after the build secrets resolved.
Acquire(self) ==
  /\ pc[self] = "acquire"
  /\ \/ /\ sem < MaxBuilds
        /\ sem' = sem + 1
        /\ Jump(self, "clean")
     \/ /\ "build" \in Faults
        /\ Jump(self, "fail")
        /\ UNCHANGED sem
  /\ UNCHANGED <<store, closed, dockerVars, githubVars, tickVars, worldVars, loc>>

\* Mutant: an error return without the deferred release.
LeaveBuildHolding(self, l) == sem' = sem /\ Jump(self, l)

\* Mutant: the slot is given back twice.
LeaveBuildTwice(self, l) == sem' = sem - 2 /\ Jump(self, l)

\* return from buildImage, with the deferred <-buildSem.
LeaveBuild(self, l) == sem' = sem - 1 /\ Jump(self, l)

\* Checkout: RemoveAll, MkdirAll, git init.
Clean(self) ==
  /\ pc[self] = "clean"
  /\ \/ /\ dir' = [dir EXCEPT ![Key(self)] = EmptyDir]
        /\ Jump(self, "fetchSource")
        /\ UNCHANGED sem
     \/ /\ "build" \in Faults
        /\ LeaveBuild(self, "fail")
        /\ UNCHANGED dir
  /\ UNCHANGED <<store, closed, ctr, image, nets, githubVars, tickVars, worldVars,
                 loc>>

\* git fetch and git checkout FETCH_HEAD: fails when the directory is gone.
FetchSource(self) ==
  /\ pc[self] = "fetchSource"
  /\ \/ /\ dir[Key(self)] # NoDir
        /\ dir' = [dir EXCEPT ![Key(self)] = loc[self].sha]
        /\ Jump(self, "build")
        /\ UNCHANGED sem
     \/ /\ dir[Key(self)] = NoDir \/ "build" \in Faults
        /\ LeaveBuild(self, "fail")
        /\ UNCHANGED dir
  /\ UNCHANGED <<store, closed, ctr, image, nets, githubVars, tickVars, worldVars,
                 loc>>

\* docker build tags whatever the directory holds at that moment.
BuildImage(self) ==
  /\ pc[self] = "build"
  /\ LET k == Key(self) IN
     \/ /\ dir[k] \in Commits
        /\ image' = [image EXCEPT ![k][loc[self].sha] = dir[k]]
        /\ LeaveBuild(self, "built")
     \/ /\ dir[k] \notin Commits \/ "build" \in Faults
        /\ LeaveBuild(self, "fail")
        /\ UNCHANGED image
  /\ UNCHANGED <<store, closed, ctr, nets, dir, githubVars, tickVars, worldVars,
                 loc>>

-----------------------------------------------------------------------------
(* From the built image to a running preview.                              *)

\* `docker rmi -f`: the callers ignore its error.
RemoveImage(k, tag) ==
  \/ image' = [image EXCEPT ![k][tag] = 0]
  \/ "docker" \in flaky /\ image' = image

\* The check after the build; a build nobody wants any more loses its image.
Built(self) ==
  /\ pc[self] = "built"
  /\ IF Abandoned(Key(self))
     THEN /\ RemoveImage(Key(self), loc[self].sha)
          /\ Return(self, loc[self], "deploy")
     ELSE /\ Jump(self, "network")
          /\ UNCHANGED <<image, loc>>
  /\ UNCHANGED <<daemonVars, ctr, nets, dir, githubVars, tickVars, worldVars>>

\* Mutant: the previous container is left in place.
KeepOld(k, id) == ctr' = ctr

\* "Replace any previous container on redeploy."
RemoveOld(k, id) == Remove(k, id)

\* runContainer: the secrets, EnsureNetwork, and the old container.
EnsureNetwork(self) ==
  /\ pc[self] = "network"
  /\ \/ /\ nets' = nets \cup {Key(self)}
        /\ RemoveOld(Key(self), loc[self].p.cid)
        /\ Jump(self, "run")
     \/ /\ "run" \in Faults
        /\ Jump(self, "fail")
        /\ UNCHANGED <<nets, ctr>>
  /\ UNCHANGED <<daemonVars, image, dir, githubVars, tickVars, worldVars, loc>>

(* docker run.  It needs the name, the image and the network; when it fails*)
(* after it created the container, the container stays, with the name.     *)
CanRun(k, tag) == /\ ctr[k] = NoContainer /\ k \in nets
                  /\ tag \in Commits /\ image[k][tag] # 0

Made(k, tag, up) == [cid |-> FreshCid, src |-> image[k][tag], up |-> up]

DockerRunOk(self, k, tag) ==
  /\ CanRun(k, tag)
  /\ Cids \ CidsInUse # {}
  /\ ctr' = [ctr EXCEPT ![k] = Made(k, tag, TRUE)]
  /\ SetLoc(self, [loc[self] EXCEPT !.p.cid = FreshCid])

DockerRunFails(k, tag) ==
  \/ /\ ~CanRun(k, tag) \/ "run" \in Faults
     /\ ctr' = ctr
  \/ /\ CanRun(k, tag) /\ "leftover" \in Faults
     /\ Cids \ CidsInUse # {}
     /\ ctr' = [ctr EXCEPT ![k] = Made(k, tag, FALSE)]

Run(self) ==
  /\ pc[self] = "run"
  /\ \/ /\ DockerRunOk(self, Key(self), loc[self].sha)
        /\ Jump(self, "ready")
     \/ /\ DockerRunFails(Key(self), loc[self].sha)
        /\ Jump(self, "fail")
        /\ UNCHANGED loc
  /\ UNCHANGED <<daemonVars, image, nets, dir, githubVars, tickVars, worldVars>>

\* awaitReady: the app answers, or it never does.
AwaitReady(self) ==
  /\ pc[self] = "ready"
  /\ \/ /\ Up(Key(self), loc[self].p.cid)
        /\ Jump(self, "isReady")
     \/ /\ ~Up(Key(self), loc[self].p.cid) \/ "ready" \in Faults
        /\ Jump(self, "fail")
  /\ UNCHANGED <<daemonVars, dockerVars, githubVars, tickVars, worldVars, loc>>

\* The check after readiness.
IsReady(self) ==
  /\ pc[self] = "isReady"
  /\ IF Abandoned(Key(self))
     THEN /\ Jump(self, "tearHost")
          /\ SetLoc(self, [loc[self] EXCEPT !.p.img = loc[self].sha,
                                            !.ret = "deploy"])
     ELSE Jump(self, "commit") /\ UNCHANGED loc
  /\ UNCHANGED <<daemonVars, dockerVars, githubVars, tickVars, worldVars>>

\* Mutant: the record goes live without the commit it now runs.
GoLiveStale(p, sha) == [p EXCEPT !.status = "running", !.age = 0]

GoLive(p, sha) == [p EXCEPT !.status = "running", !.img = sha, !.age = 0]

Commit(self) ==
  /\ pc[self] = "commit"
  /\ LET p == GoLive(loc[self].p, loc[self].sha) IN
     /\ Put(Key(self), p)
     /\ PublishThen(self, [loc[self] EXCEPT !.p = p], "deploy")
  /\ UNCHANGED <<closed, sem, dockerVars, githubVars, tickVars, worldVars>>

\* recordFailure: discarded for an abandoned preview ...
RecordFailure(self) ==
  /\ pc[self] = "fail"
  /\ Return(self, loc[self], IF Abandoned(Key(self)) THEN "deploy" ELSE "failPut")
  /\ UNCHANGED <<daemonVars, dockerVars, githubVars, tickVars, worldVars>>

\* ... and stored otherwise.
PutFailed(self) ==
  /\ pc[self] = "failPut"
  /\ LET p == [loc[self].p EXCEPT !.status = "failed"] IN
     /\ Put(Key(self), p)
     /\ PublishThen(self, [loc[self] EXCEPT !.p = p], "deploy")
  /\ UNCHANGED <<closed, sem, dockerVars, githubVars, tickVars, worldVars>>

-----------------------------------------------------------------------------
(* teardownPreview of the copy in hand.                                    *)

\* Mutant: the network goes before the container that uses it.
FreeNetworkFirst(k, id) ==
  nets' = IF id # 0 /\ ctr[k] = NoContainer THEN nets \ {k} ELSE nets

\* docker refuses to remove a network a container uses; errors are ignored.
FreeNetwork(k, id) ==
  \/ nets' = IF id # 0 /\ ctr'[k] = NoContainer THEN nets \ {k} ELSE nets
  \/ "docker" \in flaky /\ nets' = nets

\* Container, network, image and checkout.  What the copy does not name is not
\* removed.
TearHost(self) ==
  /\ pc[self] = "tearHost"
  /\ LET k == Key(self)
         p == loc[self].p
     IN /\ Remove(k, p.cid)
        /\ FreeNetwork(k, p.cid)
        /\ IF p.img # 0 THEN RemoveImage(k, p.img) ELSE UNCHANGED image
        /\ dir' = [dir EXCEPT ![k] = NoDir]
  /\ Jump(self, "tearDelete")
  /\ UNCHANGED <<daemonVars, githubVars, tickVars, worldVars, loc>>

\* deactivateDeployment, then store.Delete.
TearDelete(self) ==
  /\ pc[self] = "tearDelete"
  /\ LET k == Key(self) IN
     /\ \/ green' = [green EXCEPT ![k] = @ \ {loc[self].p.dep}]
        \/ "github" \in flaky /\ green' = green
     /\ Put(k, Absent)
  /\ Return(self, loc[self], loc[self].ret)
  /\ UNCHANGED <<closed, sem, dockerVars, prs, head, envs, tickVars, worldVars>>

DeployStep(self) ==
  \/ NextApp(self) \/ CheckCapacity(self)
  \/ PutBuilding(self) \/ Publish(self) \/ Acquire(self) \/ Clean(self)
  \/ FetchSource(self) \/ BuildImage(self) \/ Built(self)
  \/ EnsureNetwork(self) \/ Run(self) \/ AwaitReady(self) \/ IsReady(self)
  \/ Commit(self) \/ RecordFailure(self) \/ PutFailed(self)
  \/ TearHost(self) \/ TearDelete(self)
=============================================================================
