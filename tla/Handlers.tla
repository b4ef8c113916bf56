------------------------------- MODULE Handlers ------------------------------
(***************************************************************************)
(* internal/reconcile/events.go and resolve.go: what a webhook, a ChatOps  *)
(* comment and a visitor's request do, up to the deploys and teardowns of  *)
(* module Deploy.                                                          *)
(***************************************************************************)
EXTENDS Deploy

\* HandlePullRequest "closed".
HandleClosed(self) ==
  /\ Goto(self, "closing", "environments")
  /\ closed' = closed \cup {loc[self].pr}
  /\ UNCHANGED <<store, sem, dockerVars, githubVars, tickVars, worldVars, loc>>

\* previewEnvironments: the apps whose environments the end will delete.
PreviewEnvironments(self) ==
  /\ Goto(self, "environments", "list")
  /\ SetLoc(self, [loc[self] EXCEPT
                     !.apps = {a \in Apps : <<loc[self].pr, a>> \in Live}])
  /\ UNCHANGED <<daemonVars, dockerVars, githubVars, tickVars, worldVars>>

\* HandlePullRequest "opened", "synchronize", "reopened", "ready_for_review",
\* and deployFromEvent: some apps of the change deploy.  None for a gated
\* fork, without a valid .prevly.yml, after a failed call, or when no path
\* of the change matches.
HandleOpened(self) ==
  /\ pc[self] = "opened"
  /\ closed' = closed \ {loc[self].pr}
  /\ \E S \in SUBSET Apps :
       Return(self, [loc[self] EXCEPT !.apps = S], "deploy")
  /\ UNCHANGED <<store, sem, dockerVars, githubVars, tickVars, worldVars>>

\* redeploy: the apps the command names, at the head of the pull request.
Redeploy(self) ==
  /\ pc[self] = "redeploy"
  /\ \/ Return(self, [loc[self] EXCEPT !.sha = head[loc[self].pr]], "deploy")
     \/ "github" \in flaky /\ Exit(self)
  /\ UNCHANGED <<daemonVars, dockerVars, githubVars, tickVars, worldVars>>

-----------------------------------------------------------------------------
(* teardownPR, for the closed webhook and for /preview destroy.            *)

\* ListByPR and the app filter; a closed pull request loses every preview.
OfCommand(self) ==
  {k \in Keys : /\ k[1] = loc[self].pr
                /\ loc[self].ev = "closed" \/ k[2] \in loc[self].apps}

ListForTeardown(self) ==
  /\ Goto(self, "list", "tearNext")
  /\ SetLoc(self, [loc[self] EXCEPT !.todo = Snapshot(OfCommand(self))])
  /\ UNCHANGED <<daemonVars, dockerVars, githubVars, tickVars, worldVars>>

TearNext(self) ==
  /\ Goto(self, "tearNext", "tearHost")
  /\ \E k \in Pending(self) :
       SetLoc(self, [TakeNext(self, k) EXCEPT !.ret = "tearNext"])
  /\ UNCHANGED <<daemonVars, dockerVars, githubVars, tickVars, worldVars>>

\* After the last one deleteEnvironments, which takes their deployments along.
TornDown(self) ==
  /\ pc[self] = "tearNext" /\ Pending(self) = {}
  /\ \/ /\ Installed /\ loc[self].ev = "closed"
        /\ LET gone == {loc[self].pr} \X loc[self].apps IN
           /\ envs' = envs \ gone
           /\ green' = [k \in Keys |-> IF k \in gone THEN {} ELSE green[k]]
     \/ /\ ~Installed \/ loc[self].ev # "closed" \/ "github" \in flaky
        /\ UNCHANGED <<envs, green>>
  /\ Exit(self)
  /\ UNCHANGED <<daemonVars, dockerVars, prs, head, tickVars, worldVars>>

-----------------------------------------------------------------------------
(* wake, called by Resolve and by wakePR; recreateFromImage, called by wake*)
(* and by the loop's healMissing.                                          *)

WakeList(self) ==
  /\ Goto(self, "wakeList", "wakeNext")
  /\ SetLoc(self, [loc[self] EXCEPT !.todo = Snapshot(OfCommand(self))])
  /\ UNCHANGED <<daemonVars, dockerVars, githubVars, tickVars, worldVars>>

WakeNext(self) ==
  /\ Goto(self, "wakeNext", "wake")
  /\ \E k \in Pending(self) :
       SetLoc(self, [TakeNext(self, k) EXCEPT !.ret = "wakeNext"])
  /\ UNCHANGED <<daemonVars, dockerVars, githubVars, tickVars, worldVars>>

\* "Nothing wakeable - rebuild from scratch."
WokenUp(self) ==
  /\ pc[self] = "wakeNext" /\ Pending(self) = {}
  /\ IF loc[self].woke THEN Exit(self)
                       ELSE Jump(self, "redeploy") /\ UNCHANGED loc
  /\ UNCHANGED <<daemonVars, dockerVars, githubVars, tickVars, worldVars>>

\* wake failed: wakePR goes on to the next preview, a request ends with 502.
WakeFailed(self) == Return(self, loc[self], loc[self].ret)

\* docker start.
Wake(self) ==
  /\ pc[self] = "wake"
  /\ LET k == Key(self)
         id == loc[self].p.cid
     IN \/ /\ id # 0 /\ ctr[k].cid = id
           /\ ctr' = [ctr EXCEPT ![k].up = TRUE]
           /\ Jump(self, "probe") /\ UNCHANGED loc
        \/ /\ id = 0 \/ ctr[k].cid # id
           /\ Jump(self, "recreate") /\ UNCHANGED <<ctr, loc>>
        \/ /\ "docker" \in flaky
           /\ WakeFailed(self) /\ UNCHANGED ctr
  /\ UNCHANGED <<daemonVars, image, nets, dir, githubVars, tickVars, worldVars>>

RecreateFailed(self) ==
  IF self = Loop THEN Jump(self, "healFail") /\ UNCHANGED loc
                 ELSE WakeFailed(self)

\* recreateFromImage up to docker run: the image must still be there; any
\* container with the name goes first.
Recreate(self) ==
  /\ pc[self] = "recreate"
  /\ LET k == Key(self)
         p == loc[self].p
         possible == p.img # 0 /\ p.cid # 0 /\ image[k][p.img] # 0
     IN \/ /\ possible
           /\ nets' = nets \cup {k}
           /\ Remove(k, ctr[k].cid)
           /\ Jump(self, "rerun") /\ UNCHANGED loc
        \/ /\ ~possible \/ "docker" \in flaky
           /\ RecreateFailed(self) /\ UNCHANGED <<ctr, nets>>
  /\ UNCHANGED <<daemonVars, image, dir, githubVars, tickVars, worldVars>>

\* docker run of the recorded image.
RunAgain(self) ==
  /\ pc[self] = "rerun"
  /\ LET k == Key(self)
         tag == loc[self].p.img
     IN \/ /\ DockerRunOk(self, k, tag)
           /\ Jump(self, IF self = Loop THEN "healPut" ELSE "probe")
        \/ /\ DockerRunFails(k, tag)
           /\ RecreateFailed(self)
  /\ UNCHANGED <<daemonVars, image, nets, dir, githubVars, tickVars, worldVars>>

\* waitHTTP on the published port.
Probe(self) ==
  /\ pc[self] = "probe"
  /\ \/ /\ Up(Key(self), loc[self].p.cid)
        /\ Jump(self, "wakePut") /\ UNCHANGED loc
     \/ /\ ~Up(Key(self), loc[self].p.cid) \/ "ready" \in Faults
        /\ WakeFailed(self)
  /\ UNCHANGED <<daemonVars, dockerVars, githubVars, tickVars, worldVars>>

(* The record goes live again and a new goroutine publishes it, while the  *)
(* waker goes on: Resolve routes the request, wakePR takes the next one.   *)
WakePut(self) ==
  /\ pc[self] = "wakePut"
  /\ LET k == Key(self)
         p == [loc[self].p EXCEPT !.status = "running", !.age = 0]
         done == IF loc[self].ret = "idle" THEN Blank
                 ELSE [loc[self] EXCEPT !.woke = TRUE, !.p = Absent]
         publisher == [Blank EXCEPT !.ev = "publish", !.p = p,
                                    !.pr = k[1], !.app = k[2]]
     IN /\ Put(k, p)
        /\ \/ /\ Installed
              /\ Free # {}
              /\ pc' = [pc EXCEPT ![self] = loc[self].ret,
                                  ![NewGoroutine] = "publish"]
              /\ loc' = [loc EXCEPT ![self] = done, ![NewGoroutine] = publisher]
           \/ /\ ~Installed
              /\ Jump(self, loc[self].ret) /\ SetLoc(self, done)
  /\ UNCHANGED <<closed, sem, dockerVars, githubVars, tickVars, worldVars>>

-----------------------------------------------------------------------------
\* Resolve: ListByHost and what follows from the status.
Resolve(self) ==
  /\ pc[self] = "resolve"
  /\ LET p == store[Key(self)] IN
     IF p.status \in {"running", "sleeping"}
     THEN /\ Jump(self, IF p.status = "running" THEN "touch" ELSE "wake")
          /\ SetLoc(self, [loc[self] EXCEPT !.p = p])
     ELSE Exit(self)
  /\ UNCHANGED <<daemonVars, dockerVars, githubVars, tickVars, worldVars>>

\* touch: the copy Resolve read, with a new LastSeenAt.
Touch(self) ==
  /\ pc[self] = "touch"
  /\ Put(Key(self), [loc[self].p EXCEPT !.age = 0])
  /\ Exit(self)
  /\ UNCHANGED <<closed, sem, dockerVars, githubVars, tickVars, worldVars>>

HandlerStep(self) ==
  \/ HandleClosed(self) \/ PreviewEnvironments(self) \/ HandleOpened(self)
  \/ Redeploy(self) \/ ListForTeardown(self)
  \/ TearNext(self) \/ TornDown(self) \/ WakeList(self) \/ WakeNext(self)
  \/ WokenUp(self) \/ Wake(self) \/ Recreate(self) \/ RunAgain(self)
  \/ Probe(self) \/ WakePut(self) \/ Resolve(self) \/ Touch(self)
=============================================================================
