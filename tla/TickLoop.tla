------------------------------- MODULE TickLoop ------------------------------
(***************************************************************************)
(* internal/reconcile/loop.go: Reconciler.Tick, the one goroutine that     *)
(* enforces desired against actual state.  It works from two snapshots,    *)
(* the store's records and the containers docker lists, and everything it  *)
(* does to a preview starts from the copies taken there.                   *)
(***************************************************************************)
EXTENDS Handlers

LoopDo(from, to) == Goto(Loop, from, to)

(* r.now() and store.List.  Tick looks at the clock once, here; so ages are *)
(* kept up to date here, elapsed steps since the last Tick, for the records *)
(* and for the copies of them other goroutines hold.                        *)
TickList(elapsed) ==
  LET now(p) == IF elapsed THEN Older(p) ELSE p IN
  /\ LoopDo("idle", "ps")
  /\ store' = [k \in Keys |-> now(store[k])]
  /\ loc' = [s \in Procs |->
               IF s = Loop
               THEN [Blank EXCEPT !.ev = "tick",
                                  !.todo = [k \in Keys |-> now(store[k])]]
               ELSE [loc[s] EXCEPT !.p = now(@),
                                   !.todo = [k \in Keys |-> now(@[k])]]]
  /\ keep' = Live
  /\ UNCHANGED <<closed, sem, dockerVars, githubVars, managed, worldVars>>

Missing(p, id) == p.status \in {"running", "sleeping"} /\ id = 0

\* What Tick does about a record p of its snapshot when docker listed id.
Verdict(p, id) ==
  CASE Expired(p) -> "tearHost"
    [] ~Expired(p) /\ Missing(p, id) ->
         IF p.img = 0 \/ p.cid = 0 THEN "scan" ELSE "recreate"
    [] ~Expired(p) /\ ~Missing(p, id) /\ IdleSince(p) -> "sleep"
    [] OTHER -> "scan"

\* runtime.ListManaged, empty after an error.  Of the snapshot those records
\* stay that Tick does something about.
ListManaged ==
  /\ LoopDo("ps", "scan")
  /\ \/ /\ managed' = [k \in Keys |-> ctr[k].cid]
        /\ keep' = keep \cup {k \in Keys : ctr[k] # NoContainer}
     \/ "docker" \in flaky /\ UNCHANGED tickVars
  /\ SetLoc(Loop, [loc[Loop] EXCEPT
                     !.todo = [k \in Keys |->
                                 IF Verdict(@[k], managed'[k]) = "scan"
                                 THEN Absent ELSE @[k]]])
  /\ UNCHANGED <<daemonVars, dockerVars, githubVars, worldVars>>

Scan ==
  /\ pc[Loop] = "scan"
  /\ \E k \in Pending(Loop) :
       /\ Jump(Loop, Verdict(loc[Loop].todo[k], managed[k]))
       /\ SetLoc(Loop, [TakeNext(Loop, k) EXCEPT !.ret = "scan"])
  /\ UNCHANGED <<daemonVars, dockerVars, githubVars, tickVars, worldVars>>

\* healMissing after recreateFromImage.
HealWrite(p) ==
  /\ Put(Key(Loop), p)
  /\ PublishThen(Loop, [loc[Loop] EXCEPT !.p = p], "scan")
  /\ UNCHANGED <<closed, sem, dockerVars, githubVars, tickVars, worldVars>>

HealPut ==
  /\ pc[Loop] = "healPut"
  /\ HealWrite([loc[Loop].p EXCEPT !.status = "running", !.age = 0])

HealFail ==
  /\ pc[Loop] = "healFail"
  /\ HealWrite([loc[Loop].p EXCEPT !.status = "failed"])

\* docker stop; a container that is gone is no error.
Stop(k, id) == ctr' = [ctr EXCEPT ![k].up = @ /\ ctr[k].cid # id]

Sleep ==
  /\ pc[Loop] = "sleep"
  /\ \/ /\ Stop(Key(Loop), loc[Loop].p.cid)
        /\ Jump(Loop, "sleepPut") /\ UNCHANGED loc
     \/ /\ "docker" \in flaky
        /\ Return(Loop, loc[Loop], "scan")
        /\ UNCHANGED ctr
  /\ UNCHANGED <<daemonVars, image, nets, dir, githubVars, tickVars, worldVars>>

SleepPut ==
  /\ pc[Loop] = "sleepPut"
  /\ HealWrite([loc[Loop].p EXCEPT !.status = "sleeping"])

-----------------------------------------------------------------------------
\* Mutant: orphans are never removed.
NoOrphan(k) == FALSE

Orphan(k) == Get(k).err = "ErrNotFound"

\* reapOrphans, one listed container after the other.
Reap ==
  /\ pc[Loop] = "scan" /\ Pending(Loop) = {}
  /\ \E k \in {x \in Keys : managed[x] # 0} :
       /\ managed' = [managed EXCEPT ![k] = 0]
       /\ IF Orphan(k) THEN Remove(k, managed[k]) ELSE ctr' = ctr
  /\ UNCHANGED <<daemonVars, image, nets, dir, githubVars, keep, worldVars, pc, loc>>

\* reapOrphanWorkDirs, from the same two snapshots.
ReapDirs ==
  /\ pc[Loop] = "scan" /\ Pending(Loop) = {} /\ \A k \in Keys : managed[k] = 0
  /\ dir' = [k \in Keys |-> IF k \in keep THEN dir[k] ELSE NoDir]
  /\ keep' = {}
  /\ Exit(Loop)
  /\ UNCHANGED <<daemonVars, ctr, image, nets, githubVars, managed, worldVars>>

LoopStep ==
  \/ ListManaged \/ Scan \/ HealPut \/ HealFail \/ Sleep
  \/ SleepPut \/ Reap \/ ReapDirs
  \/ Publish(Loop) \/ TearHost(Loop) \/ TearDelete(Loop)
  \/ Recreate(Loop) \/ RunAgain(Loop)
=============================================================================
