---------------------------- MODULE FeedbackTick ----------------------------
(***************************************************************************)
(* The feedback part of the daemon's loop (Service.Tick), what teardowns   *)
(* and restarts do to reports, and the properties of the service.          *)
(***************************************************************************)
EXTENDS Feedback

none == [r \in Reports |-> NoRecord]

\* Mutant: a report that used up its attempts is tried once more.
PostableOnceMore(r) == Stored(r) /\ ~store[r].posted
                         /\ store[r].attempts <= maxPostAttempts

\* Mutant: the last attempt is never made.
PostableOnceLess(r) == Stored(r) /\ ~store[r].posted
                         /\ store[r].attempts + 1 < maxPostAttempts

\* ListFeedbackUnposted, less what retryComments skips.
Postable(r) == Stored(r) /\ ~store[r].posted
                 /\ store[r].attempts < maxPostAttempts

\* Tick begins.  Posts are cut after postTimeout, 10 s; Ticks come a minute
\* apart, but one that was late is followed by the next at once.
ListUnposted ==
  /\ pc[Loop] = "idle"
  /\ \A r \in Reports : InFlight(r) => laps[r] < Laps
  /\ laps' = [r \in Reports |-> IF InFlight(r) THEN laps[r] + 1 ELSE laps[r]]
  /\ todo' = [r \in Reports |-> IF Postable(r) THEN store[r] ELSE NoRecord]
  /\ Goto(Loop, "retry")
  /\ UNCHANGED <<diskVars, worldVars, daemonVars, githubVars, copy, cur, files,
                 restarts, deploys, accepted, caught>>

\* The next report of the list, as it was when the list was read.
RetryNext(r) ==
  /\ pc[Loop] = "retry" /\ todo[r] # NoRecord
  /\ Keep(Loop, todo[r], "post") /\ cur' = r
  /\ todo' = [todo EXCEPT ![r] = NoRecord]
  /\ UNCHANGED <<diskVars, worldVars, daemonVars, githubVars, files, boundVars>>

\* sweepSiteReports reads every record.
ListSites ==
  /\ pc[Loop] = "retry" /\ todo = none
  /\ todo' = [r \in Reports |-> IF place[r] \in Sites /\ r \in old THEN store[r]
                                ELSE NoRecord]
  /\ Goto(Loop, "sites")
  /\ UNCHANGED <<diskVars, worldVars, daemonVars, githubVars, copy, cur, files,
                 boundVars>>

SweepFile(r) ==
  /\ pc[Loop] = "sites" /\ todo[r] # NoRecord
  /\ shots' = IF todo[r].shot THEN shots \ {r} ELSE shots
  /\ cur' = r /\ Goto(Loop, "removeRecord")
  /\ UNCHANGED <<store, worldVars, daemonVars, githubVars, copy, todo, files,
                 boundVars>>

SweepRecord ==
  /\ pc[Loop] = "removeRecord"
  /\ store' = [store EXCEPT ![cur] = NoRecord]
  /\ todo' = [todo EXCEPT ![cur] = NoRecord]
  /\ cur' = Loop /\ Goto(Loop, "sites")
  /\ UNCHANGED <<shots, worldVars, daemonVars, githubVars, copy, files,
                 boundVars>>

\* sweepScreenshots: the directory first, the records after it.
ReadDir ==
  /\ pc[Loop] = "sites" /\ todo = none
  /\ files' = shots /\ Goto(Loop, "created")
  /\ UNCHANGED <<diskVars, worldVars, daemonVars, githubVars, copy, cur, todo,
                 boundVars>>

\* Mutant: a file without a record is taken for one left behind.
StaleOrUnknown(r) == r \in old \/ ~Stored(r)

\* Mutant: files without a record are left alone.
StaleOnRecord(r) == r \in old /\ Stored(r)

\* By CreatedAt if the record is there, by the file's ModTime if it is not.
Stale(r) == r \in old

ListCreated ==
  /\ pc[Loop] = "created"
  /\ files' = {r \in files : Stale(r)} /\ Goto(Loop, "remove")
  /\ UNCHANGED <<diskVars, worldVars, daemonVars, githubVars, copy, cur, todo,
                 boundVars>>

RemoveFile(r) ==
  /\ pc[Loop] = "remove" /\ r \in files
  /\ files' = files \ {r} /\ shots' = shots \ {r}
  /\ UNCHANGED <<store, worldVars, daemonVars, githubVars, posterVars, cur, todo,
                 boundVars>>

TickEnds ==
  /\ pc[Loop] = "remove" /\ files = {} /\ Goto(Loop, "idle")
  /\ UNCHANGED <<diskVars, worldVars, daemonVars, githubVars, copy, loopVars,
                 boundVars>>

LoopStep ==
  \/ ListUnposted \/ ListSites \/ SweepRecord \/ ReadDir \/ ListCreated
  \/ TickEnds \/ PostStep(Loop)
  \/ \E r \in Reports : RetryNext(r) \/ SweepFile(r) \/ RemoveFile(r)

-----------------------------------------------------------------------------
(* What happens around the service.                                        *)

\* The ids of reports age; a handler is done long before the retention.
Ages(r) ==
  /\ pc[r] \in {"refused", "done"} /\ r \notin old /\ old' = old \cup {r}
  /\ UNCHANGED <<diskVars, place, live, unwired, daemonVars, githubVars,
                 posterVars, loopVars, boundVars>>

\* Somebody has r in hand: its handler, or Loop with it on its list.
InHand(r) == pc[r] \in Waiting \cup Posting \/ todo[r] # NoRecord \/ Holds(Loop, r)

\* Mutant: the reports are kept.
KeepReports(k) == store' = store

\* DeleteFeedbackByPreview.
DropReports(k) ==
  store' = [r \in Reports |-> IF place[r] = k THEN NoRecord ELSE store[r]]

\* teardownPreview calls OnTeardown where the service has set it,
OnTeardown(k) ==
  /\ k \in live \ tearing /\ tearing' = tearing \cup {k}
  /\ DropReports(k)
  /\ unwired' = unwired \ {k}
  /\ caught' = {r \in caught : place[r] # k}
                 \cup {r \in Reports : place[r] = k /\ InHand(r)}
  /\ UNCHANGED <<shots, place, old, live, sites, instCache, githubVars,
                 posterVars, loopVars, restarts, deploys, laps, accepted>>

\* and then deletes the preview.
DeletePreview(k) ==
  /\ k \in tearing /\ tearing' = tearing \ {k} /\ live' = live \ {k}
  /\ UNCHANGED <<diskVars, place, old, unwired, sites, instCache, githubVars,
                 posterVars, loopVars, boundVars>>

Redeploy(k) ==
  /\ k \notin live /\ deploys < MaxDeploys
  /\ live' = live \cup {k} /\ deploys' = deploys + 1
  /\ UNCHANGED <<diskVars, place, old, unwired, daemonVars, githubVars,
                 posterVars, loopVars, restarts, laps, accepted, caught>>

\* Without a service onTeardown is nil and teardownPreview skips it: in `prevly
\* destroy`, which runs while the daemon is stopped (and gets as far as
\* store.Delete for a preview without a Deployment), and in a daemon with
\* feedback off.  Some previews are torn down so before the service is back.
TornDownUnwired ==
  \E K \in IF "unwired" \in Faults THEN SUBSET live ELSE {{}} :
    live' = live \ K /\ unwired' = unwired \cup K

\* The daemon dies and starts again, with another configuration perhaps.
Restart ==
  /\ restarts < MaxRestarts /\ restarts' = restarts + 1
  /\ pc' = [p \in Posters |->
              CASE p = Loop -> "idle"
                [] p # Loop /\ pc[p] \in Waiting -> "refused"
                [] p # Loop /\ pc[p] \in Posting -> "done"
                [] OTHER -> pc[p]]
  /\ copy' = [p \in Posters |-> NoRecord]
  /\ cur' = Loop /\ todo' = none /\ files' = {}
  /\ instCache' = {} /\ tearing' = {}
  /\ sites' \in IF "unconfigured" \in Faults THEN SUBSET Sites ELSE {Sites}
  /\ unheard' = [r \in Reports |->
       unheard[r] + Cardinality({p \in Posters :
                       Holds(p, r) /\ pc[p] = "persist" /\ copy[p].posted})]
  /\ TornDownUnwired
  /\ UNCHANGED <<diskVars, place, old, landed, calls, deploys, laps, accepted,
                 caught>>

Environment ==
  \/ Restart
  \/ \E r \in Reports : Receive(r) \/ Ages(r)
  \/ \E k \in Previews : OnTeardown(k) \/ DeletePreview(k) \/ Redeploy(k)

Next == Environment \/ LoopStep \/ \E r \in Reports : HandlerStep(r)

Spec == Init /\ [][Next]_vars

(* Goroutines run, the ticker fires, time passes.  Requests, teardowns and  *)
(* an answer from GitHub are not owed.                                      *)
Fairness == /\ WF_vars(LoopStep)
            /\ \A r \in Reports : WF_vars(HandlerStep(r)) /\ WF_vars(Ages(r))

FairSpec == Spec /\ Fairness

-----------------------------------------------------------------------------
\* "A comment is retried at most 5 times": GitHub is asked maxPostAttempts
\* times at most, and once more for each count of an attempt that was lost, to
\* a Tick that overtook the handler or to a restart.
RetriedAtMost ==
  \A r \in Reports : calls[r] <= maxPostAttempts + Laps + restarts

\* A report makes a second issue only if a Tick overtook its handler, so that
\* both looked before either created: no retry makes one, after a timeout or a
\* crash either.  A second comment has the same cause, or an answer that the
\* daemon did not live to hear or write down.
DuplicateHasCause ==
  \A r \in Reports :
    landed[r] <= 1 + laps[r] + IF place[r] \in Previews THEN unheard[r] ELSE 0

\* "Teardown of a preview deletes its feedback records": the only ones that
\* outlive it were in somebody's hands when it dropped the rest, and put back;
\* or came in before the preview's own record was gone too; or it had no
\* onTeardown to call.  What one teardown left the next one deletes, unless it
\* meets with one of the three itself.
TornDownIsGone ==
  \A r \in Reports \ caught :
    place[r] \in Previews \ (live \cup unwired) => ~Stored(r)

\* docs/feedback.md says it without the exceptions.  A report that the teardown
\* of its preview deleted stays deleted: refuted by persist, which puts back the
\* copy it made before (run reports_outlive).
TeardownDeletes ==
  [][\A r \in accepted :
       place[r] \in Previews \ live /\ ~Stored(r) => ~Stored(r)']_vars

\* The sweep never takes the screenshot of a report still in its retention,
\* one that is being stored included.
ScreenshotKept ==
  \A r \in Reports \ old :
    /\ Stored(r) /\ store[r].shot => r \in shots
    /\ pc[r] = "put" /\ copy[r].shot => r \in shots

\* Every stored report is posted, given up or deleted in the end.
ReportsEnd ==
  \A r \in Reports :
    Stored(r) ~> \/ ~Stored(r)
                 \/ store[r].posted \/ store[r].attempts = maxPostAttempts

\* Screenshots and site reports past the retention do not stay for ever.
Swept == <>[](shots = {} /\ \A r \in Reports : place[r] \in Sites => ~Stored(r))

\* "Store before posting": GitHub hears of a report that is on record, and a
\* bounded number of times.
Promise == INSTANCE Outbox
  WITH Budget <- maxPostAttempts + Laps + MaxRestarts,
       sent <- calls

OutboxKept == Promise!OSpec
=============================================================================
