------------------------------ MODULE Feedback ------------------------------
(***************************************************************************)
(* internal/feedback: reviewer reports, from the request that brings one   *)
(* to the comment or issue it becomes.  A request's handler stores the     *)
(* report and posts it; once a minute the daemon's loop posts again what   *)
(* is stored and not posted, and sweeps what is past feedback.retention.   *)
(* Both hold a copy of the record while GitHub answers and then write the  *)
(* whole copy back.  Teardowns and restarts come in between.               *)
(*                                                                         *)
(* A poster is a report's own handler, named by the report, or Loop.       *)
(***************************************************************************)
EXTENDS Integers, FiniteSets

CONSTANTS Reports,          \* ids that NewID draws
          Previews, Sites,  \* what a report may be about
          Loop,
          maxPostAttempts,
          Laps,             \* Ticks that may begin while one handler posts
          MaxRestarts, MaxDeploys,
          Faults            \* "refused", "timeout", "disk", "unconfigured",
                            \* "unwired"

ASSUME NamesAssumption == Previews \cap Sites = {} /\ Loop \notin Reports

ASSUME BoundsAssumption == /\ maxPostAttempts \in Nat \ {0} /\ Laps \in Nat
                           /\ MaxRestarts \in Nat /\ MaxDeploys \in Nat

VARIABLES
  store,      \* the feedback bucket: store[r], NoRecord when absent
  shots,      \* screenshot files on disk
  place,      \* place[r]: the preview or site that report r is about
  old,        \* ids older than the retention window
  live,       \* previews with a record in the store
  unwired,    \* previews whose last teardown had no onTeardown to call
  tearing,    \* previews whose reports a teardown has dropped already
  sites,      \* sites in the configuration of this start
  instCache,  \* sites whose installation is cached
  landed,     \* comments or issues GitHub holds, per report
  calls,      \* calls of PostComment and CreateSiteIssue, per report
  pc, copy,   \* per poster: where it is, and the record it holds
  cur,        \* the report Loop has in hand
  todo,       \* the records Loop listed and has not come to
  files,      \* the screenshot files Loop has found and not come to
  restarts, deploys,
  laps,       \* Ticks begun while the handler was posting, per report
  unheard,    \* comments GitHub made without the daemon keeping the answer
  accepted,   \* reports that have been stored
  caught      \* reports in somebody's hands at, or received during, a teardown

diskVars    == <<store, shots>>
worldVars   == <<place, old, live, unwired>>
daemonVars  == <<sites, instCache, tearing>>
githubVars  == <<landed, calls, unheard>>
posterVars  == <<pc, copy>>
loopVars    == <<cur, todo, files>>
boundVars   == <<restarts, deploys, laps, accepted, caught>>
vars == <<diskVars, worldVars, daemonVars, githubVars, posterVars, loopVars,
          boundVars>>

Record   == [attempts : 0 .. maxPostAttempts, posted : BOOLEAN, shot : BOOLEAN]
NoRecord == [attempts |-> -1, posted |-> FALSE, shot |-> FALSE]

Posters == Reports \cup {Loop}

Waiting   == {"save", "put"}                          \* not stored yet
Posting   == {"post", "find", "create", "persist"}
HandlerPCs == {"none", "refused", "done"} \cup Waiting \cup Posting
LoopPCs   == {"idle", "retry", "sites", "removeRecord", "created",
              "remove"} \cup Posting

Stored(r)   == store[r] # NoRecord
InFlight(r) == pc[r] \in Posting
Hand(p)     == IF p = Loop THEN cur ELSE p
Holds(p, r) == pc[p] \in Posting /\ Hand(p) = r

TypeOK ==
  /\ store \in [Reports -> Record \cup {NoRecord}]
  /\ place \in [Reports -> Previews \cup Sites]
  /\ shots \subseteq Reports /\ old \subseteq Reports /\ files \subseteq Reports
  /\ live \subseteq Previews /\ tearing \subseteq live
  /\ unwired \subseteq Previews
  /\ sites \subseteq Sites /\ instCache \subseteq Sites
  /\ landed \in [Reports -> Nat] /\ calls \in [Reports -> Nat]
  /\ unheard \in [Reports -> Nat]
  /\ pc \in [Posters -> HandlerPCs \cup LoopPCs]
  /\ pc[Loop] \in LoopPCs /\ \A r \in Reports : pc[r] \in HandlerPCs
  /\ copy \in [Posters -> Record \cup {NoRecord}]
  /\ \A p \in Posters : pc[p] \in Posting => copy[p] \in Record
  /\ cur \in Reports \cup {Loop} /\ (pc[Loop] \in Posting => cur \in Reports)
  /\ todo \in [Reports -> Record \cup {NoRecord}]
  /\ restarts \in 0 .. MaxRestarts /\ deploys \in 0 .. MaxDeploys
  /\ laps \in [Reports -> 0 .. Laps] /\ accepted \subseteq Reports
  /\ caught \subseteq Reports

Init ==
  /\ place \in [Reports -> Previews \cup Sites]
  /\ store = [r \in Reports |-> NoRecord] /\ shots = {} /\ old = {}
  /\ live = Previews /\ tearing = {} /\ unwired = {}
  /\ sites = Sites /\ instCache = {}
  /\ landed = [r \in Reports |-> 0] /\ calls = landed /\ unheard = landed
  /\ pc = [p \in Posters |-> IF p = Loop THEN "idle" ELSE "none"]
  /\ copy = [p \in Posters |-> NoRecord]
  /\ cur = Loop /\ todo = store /\ files = {}
  /\ restarts = 0 /\ deploys = 0 /\ laps = landed
  /\ accepted = {} /\ caught = {}

Goto(p, l) == pc' = [pc EXCEPT ![p] = l]

-----------------------------------------------------------------------------
(* createReport and createSiteReport, up to the stored record.             *)

\* A request that passes the gate, the rate limit and the checks of its parts,
\* about a preview on record or a configured site.
Receive(r) ==
  /\ pc[r] = "none" /\ place[r] \in live \cup sites
  /\ \E s \in BOOLEAN :
       /\ copy' = [copy EXCEPT ![r] =
                     [attempts |-> 0, posted |-> FALSE, shot |-> s]]
       /\ Goto(r, IF s THEN "save" ELSE "put")
  /\ caught' = IF place[r] \in tearing THEN caught \cup {r} ELSE caught
  /\ UNCHANGED <<diskVars, worldVars, daemonVars, githubVars, loopVars,
                 restarts, deploys, laps, accepted>>

\* WriteFile may fail, and may leave a file behind when it does.
SaveScreenshot(r) ==
  /\ pc[r] = "save"
  /\ \/ shots' = shots \cup {r} /\ Goto(r, "put")
     \/ "disk" \in Faults /\ shots' \in {shots, shots \cup {r}}
        /\ Goto(r, "refused")
  /\ UNCHANGED <<store, worldVars, daemonVars, githubVars, copy, loopVars,
                 boundVars>>

\* Mutant: the report is posted first, and stored with the outcome.
PostFirst(r) ==
  /\ pc[r] = "put" /\ Goto(r, "post")
  /\ UNCHANGED <<diskVars, worldVars, daemonVars, githubVars, copy,
                 loopVars, boundVars>>

PutFeedback(r) ==
  /\ pc[r] = "put"
  /\ \/ /\ store' = [store EXCEPT ![r] = copy[r]]
        /\ accepted' = accepted \cup {r} /\ Goto(r, "post")
     \/ /\ "disk" \in Faults /\ Goto(r, "refused")
        /\ UNCHANGED <<store, accepted>>
  /\ UNCHANGED <<shots, worldVars, daemonVars, githubVars, copy, loopVars,
                 restarts, deploys, laps, caught>>

-----------------------------------------------------------------------------
(* postComment, postSiteIssue and retrySiteIssue, for a handler and Loop.  *)

Attempted(c) == [c EXCEPT !.attempts = @ + 1]
GivenUp(c)   == [c EXCEPT !.attempts = maxPostAttempts]

\* The poster keeps c in memory and goes on at l.
Keep(p, c, l) == copy' = [copy EXCEPT ![p] = c] /\ Goto(p, l)

\* What a call that creates something may come to.  "timeout": GitHub did it
\* and the answer is lost, or postTimeout cut the wait.
Answers == {"ok"} \cup (Faults \cap {"refused", "timeout"})

\* The call is made for report r with answer a; m notes what was not heard.
Created(r, a) ==
  /\ landed' = IF a = "refused" THEN landed ELSE [landed EXCEPT ![r] = @ + 1]
  /\ unheard' = IF a = "timeout" THEN [unheard EXCEPT ![r] = @ + 1]
                ELSE unheard

\* retrySiteIssue: the site is no longer configured.  (A report on a preview has
\* the InstallationID of the webhook that made the preview.)
CannotPost(p) ==
  /\ pc[p] = "post" /\ p = Loop /\ place[cur] \in Sites \ sites
  /\ Keep(p, GivenUp(copy[p]), "persist")
  /\ UNCHANGED <<diskVars, worldVars, daemonVars, githubVars, loopVars,
                 boundVars>>

PostComment(p) ==
  LET r == Hand(p) IN
  /\ pc[p] = "post" /\ place[r] \in Previews
  /\ calls' = [calls EXCEPT ![r] = @ + 1]
  /\ \E a \in Answers :
       /\ Created(r, a)
       /\ Keep(p, [Attempted(copy[p]) EXCEPT !.posted = (a = "ok")], "persist")
  /\ UNCHANGED <<diskVars, worldVars, daemonVars, loopVars, boundVars>>

\* installationFor: cached, asked for, or not to be had.
FindInstallation(p) ==
  LET s == place[Hand(p)] IN
  /\ pc[p] = "post" /\ s \in sites
  /\ \/ instCache' = instCache \cup {s} /\ Keep(p, copy[p], "find")
     \/ /\ "refused" \in Faults /\ s \notin instCache
        /\ UNCHANGED instCache
        /\ Keep(p, Attempted(copy[p]), "persist")
  /\ UNCHANGED <<diskVars, worldVars, sites, tearing, githubVars, loopVars,
                 boundVars>>

\* Mutant: a retry trusts that the last attempt created nothing.
NeverFound(r) == FALSE

\* The strongly consistent list of issues holds one with the report's marker.
\* How findByMarker walks the pages of that list is outside this module.
MarkerFound(r) == landed[r] > 0

\* CreateSiteIssue looks for the issue an earlier attempt created.
FindByMarker(p) ==
  LET r == Hand(p)
      c == Attempted(copy[p]) IN
  /\ pc[p] = "find"
  /\ calls' = [calls EXCEPT ![r] = @ + 1]
  /\ \/ MarkerFound(r) /\ Keep(p, [c EXCEPT !.posted = TRUE], "persist")
     \/ ~MarkerFound(r) /\ Keep(p, c, "create")
     \/ "refused" \in Faults /\ Keep(p, c, "persist")
  /\ UNCHANGED <<diskVars, worldVars, daemonVars, landed, unheard, loopVars,
                 boundVars>>

\* doCreateIssue.  A type that GitHub rejects creates nothing and is left out
\* of a second call, which ends like the first.
CreateIssue(p) ==
  /\ pc[p] = "create"
  /\ \E a \in Answers :
       /\ Created(Hand(p), a)
       /\ Keep(p, [copy[p] EXCEPT !.posted = (a = "ok")], "persist")
  /\ UNCHANGED <<diskVars, worldVars, daemonVars, calls, loopVars, boundVars>>

\* The poster is through with its report: persist logs an error and goes on.
Finish(p) ==
  /\ Keep(p, NoRecord, IF p = Loop THEN "retry" ELSE "done")
  /\ cur' = IF p = Loop THEN Loop ELSE cur
  /\ UNCHANGED <<shots, worldVars, daemonVars, githubVars, todo, files,
                 boundVars>>

\* Mutant: only what reached GitHub is written back.
PersistPosted(p) ==
  /\ pc[p] = "persist" /\ Finish(p)
  /\ store' = IF copy[p].posted THEN [store EXCEPT ![Hand(p)] = copy[p]]
              ELSE store

\* persist puts the whole record back, whatever became of it meanwhile.
Persist(p) ==
  /\ pc[p] = "persist" /\ Finish(p)
  /\ store' = [store EXCEPT ![Hand(p)] = copy[p]]

PostStep(p) == \/ CannotPost(p) \/ PostComment(p) \/ FindInstallation(p)
               \/ FindByMarker(p) \/ CreateIssue(p) \/ Persist(p)

HandlerStep(r) == SaveScreenshot(r) \/ PutFeedback(r) \/ PostStep(r)
=============================================================================
