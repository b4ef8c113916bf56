---------------------------- MODULE PullRequests ----------------------------
(***************************************************************************)
(* From a webhook to the previews of a pull request and to its sticky      *)
(* comment: which pushes and comments are let through, which apps they     *)
(* deploy, and what the comment then says.  One webhook at a time, and a   *)
(* deploy in one step: module Reconciler has the interleavings.            *)
(***************************************************************************)
EXTENDS RepoConfig, FiniteSets

CONSTANTS PRs,
          Outsiders,    \* those from a fork whose author nobody trusts
          Configs,      \* what .prevly.yml may be
          NoConfig,     \* the repository has none
          Changes,      \* sets of changed files
          Branch,       \* the head branch of each pull request
          Bodies,       \* bodies of comments
          Associations, \* of those who comment
          MaxPreviews,
          MaxWebhooks   \* a bound on the webhooks of a behaviour

\* .prevly.yml lists its apps; paths and globs are sequences of segments.
ASSUME ConfigsAssumption ==
  /\ \A c \in Configs :
       /\ Len(c.apps) \in Nat /\ DOMAIN c.apps = 1 .. Len(c.apps)
       /\ \A i \in DOMAIN c.apps :
            /\ c.apps[i].name \in STRING /\ c.apps[i].sub \in STRING
            /\ c.apps[i].paths \subseteq Seq(STRING)
  /\ \A files \in Changes : files \subseteq Seq(STRING)

ASSUME WebhooksAssumption == MaxWebhooks \in Nat

VARIABLES head,      \* head[pr]: the configuration at its head commit
          changed,   \* changed[pr]: the files it changes
          previews,  \* the records
          comment,   \* comment[pr]: the sticky comment
          gone,      \* previews that went without the comment being told
          closed,    \* closedPRs
          approved,  \* what a trusted comment has had deployed: pr and cfg
          webhooks

prVars == <<head, changed, previews, comment, gone, closed, approved, webhooks>>

\* cfg is what the preview was last deployed by; token gates its widget.
Row(p)  == [app |-> p.app, status |-> p.status, url |-> p.url,
            token |-> p.token]
Of(ps, pr)    == {p \in ps : p.pr = pr}
None          == [kind |-> "none", rows |-> {}]
Notice(k)     == [kind |-> k, rows |-> {}]
Table(ps, pr) == [kind |-> "table", rows |-> {Row(p) : p \in Of(ps, pr)}]

PRInit == /\ head = [pr \in PRs |-> NoConfig] /\ changed = [pr \in PRs |-> {}]
          /\ previews = {} /\ comment = [pr \in PRs |-> None]
          /\ gone = {} /\ closed = {} /\ approved = {} /\ webhooks = 0

\* A webhook with a valid signature, of a kind that dispatch knows.
Delivered == webhooks < MaxWebhooks /\ webhooks' = webhooks + 1

\* A new preview is given a token, and a redeploy keeps it.
Token(old) == IF old = {} THEN webhooks ELSE (CHOOSE p \in old : TRUE).token

\* Mutant: the host of a redeployed preview stays what it was.
UpsertKeepingHost(old, pr, a, c, status) ==
  [pr |-> pr, app |-> a.name, cfg |-> c, status |-> status, token |-> Token(old),
   host |-> IF old = {} THEN Host(pr, a) ELSE (CHOOSE p \in old : TRUE).host,
   url |-> Host(pr, a)]

Upsert(old, pr, a, c, status) ==
  [pr |-> pr, app |-> a.name, cfg |-> c, status |-> status, token |-> Token(old),
   host |-> Host(pr, a), url |-> Host(pr, a)]

\* deployApp to its end: acc has the previews and the comment so far, broken
\* the apps that do not build or never answer.  On a closed pull request the
\* build is given up and the record says building.
DeployApp(acc, pr, a, c, broken) ==
  LET old == {p \in Of(acc.previews, pr) : p.app = a.name}
      status == IF pr \in closed' THEN "building"
                ELSE IF a.name \in broken THEN "failed" ELSE "running"
      new == (acc.previews \ old) \cup {Upsert(old, pr, a, c, status)}
  IN  IF old = {} /\ Cardinality(acc.previews) >= MaxPreviews
        THEN [acc EXCEPT !.comment = Notice("capacity")]
        ELSE [previews |-> new, comment |-> Table(new, pr)]

\* deployApps: one after the other; a refused one does not stop the rest, and
\* its notice is replaced by what they publish.
DeployApps(pr, c, apps, broken) ==
  LET acc[n \in 0 .. Len(c.apps)] ==
        CASE n = 0 -> [previews |-> previews, comment |-> comment[pr]]
          [] n \in apps -> DeployApp(acc[n - 1], pr, c.apps[n], c, broken)
          [] OTHER -> acc[n - 1]
      end == acc[Len(c.apps)]
  IN  /\ previews' = end.previews
      /\ comment' = [comment EXCEPT ![pr] = end.comment]
      /\ gone' = IF apps = {} THEN gone ELSE {p \in gone : p.pr # pr}

Untouched == UNCHANGED <<previews, comment, gone>>

\* RepoConfig at the head commit, and what it selects; an invalid one is shown.
DeploySelected(pr, c, files, broken) ==
  \/ c = NoConfig /\ Untouched
  \/ /\ c # NoConfig /\ ~Validate(c)
     /\ comment' = [comment EXCEPT ![pr] = Notice("config")]
     /\ UNCHANGED <<previews, gone>>
  \/ /\ c # NoConfig /\ Validate(c)
     /\ DeployApps(pr, c, AppsToDeploy(c, "main", Branch[pr], files), broken)

FromFork(pr)    == pr \in Outsiders
Association(pr) == IF pr \in Outsiders THEN "NONE" ELSE "MEMBER"

\* Mutant: a pull request that has previews keeps being deployed.
DeployEveryPush(pr, c, files, broken) ==
  IF Of(previews, pr) # {} \/ AutoBuildAllowed(FromFork(pr), Association(pr))
    THEN DeploySelected(pr, c, files, broken) ELSE Untouched

DeployFromEvent(pr, c, files, broken) ==
  IF AutoBuildAllowed(FromFork(pr), Association(pr))
    THEN DeploySelected(pr, c, files, broken) ELSE Untouched

Names(c) == IF c = NoConfig THEN {} ELSE {c.apps[i].name : i \in DOMAIN c.apps}

\* opened, synchronize, reopened or ready_for_review.
Pushed(pr) ==
  /\ Delivered
  /\ closed' = closed \ {pr}
  /\ \E c \in Configs \cup {NoConfig}, files \in Changes :
       \E broken \in SUBSET Names(c) :
         /\ head' = [head EXCEPT ![pr] = c]
         /\ changed' = [changed EXCEPT ![pr] = files]
         /\ DeployFromEvent(pr, c, files, broken)
  /\ UNCHANGED approved

\* The comment is left as it is.
Closed(pr) ==
  /\ Delivered
  /\ closed' = closed \cup {pr}
  /\ gone' = gone \cup Of(previews, pr)
  /\ previews' = previews \ Of(previews, pr)
  /\ UNCHANGED <<head, changed, comment, approved>>

\* redeploy: the configuration at the head, and every app or the named one.
Redeploy(pr, app) ==
  /\ head[pr] # NoConfig /\ Validate(head[pr])
  /\ LET apps == {i \in DOMAIN head[pr].apps :
                     app \in {"", head[pr].apps[i].name}}
     IN
       /\ apps # {}
       /\ \E broken \in SUBSET Names(head[pr]) :
            DeployApps(pr, head[pr], apps, broken)
  /\ approved' = approved \cup {<<pr, head[pr]>>}

UpdateComment(ps, pr) ==
  /\ comment' = [comment EXCEPT ![pr] = Table(ps, pr)]
  /\ gone' = {p \in gone : p.pr # pr}

\* Mutant: the comment is not refreshed.
DestroyQuietly(pr, app) ==
  /\ previews' = {p \in previews : p.pr # pr \/ app \notin {"", p.app}}
  /\ UNCHANGED <<comment, gone, approved>>

DestroyPreviews(pr, app) ==
  /\ previews' = {p \in previews : p.pr # pr \/ app \notin {"", p.app}}
  /\ UpdateComment(previews', pr)
  /\ UNCHANGED approved

\* wakePR: some of those named wake up, whatever they were; if none does, they
\* are redeployed.
WakePR(pr, app) ==
  \/ /\ \E ps \in SUBSET {p \in Of(previews, pr) : app \in {"", p.app}} :
          /\ ps # {}
          /\ previews' = (previews \ ps)
                            \cup {[p EXCEPT !.status = "running"] : p \in ps}
     /\ UpdateComment(previews', pr) /\ UNCHANGED approved
  \/ Redeploy(pr, app)

\* HandleIssueComment.  Help is a reply of its own, and like a comment that is
\* no command, or nobody's to give, it changes nothing here.
Commented(pr) ==
  /\ Delivered /\ UNCHANGED <<head, changed, closed>>
  /\ \E body \in Bodies, who \in Associations :
       LET cmd == ParseCommand(body) IN
       /\ TrustedAuthor(who)
       /\ \/ /\ cmd.action = "status" /\ UpdateComment(previews, pr)
             /\ UNCHANGED <<previews, approved>>
          \/ cmd.action = "destroy"  /\ DestroyPreviews(pr, cmd.app)
          \/ cmd.action = "wake"     /\ WakePR(pr, cmd.app)
          \/ cmd.action = "redeploy" /\ Redeploy(pr, cmd.app)

\* Tick's teardown at the TTL tells GitHub of the Deployment only.
Expire(p) ==
  /\ previews' = previews \ {p} /\ gone' = gone \cup {p}
  /\ UNCHANGED <<head, changed, comment, closed, approved, webhooks>>

\* closedPRs lives in memory.
ForgetClosed ==
  closed' = {} /\ UNCHANGED <<head, changed, previews, comment, gone, approved, webhooks>>

WebhookStep == \E pr \in PRs : Pushed(pr) \/ Closed(pr) \/ Commented(pr)
ExpireStep  == \E p \in previews : Expire(p)

PRSpec == PRInit /\ [][WebhookStep \/ ExpireStep \/ ForgetClosed]_prVars

PRTypeOK ==
  LET Rows == [app : STRING, status : {"running", "failed", "building"},
               url : PRs \X STRING, token : 0 .. MaxWebhooks]
  IN  /\ head \in [PRs -> Configs \cup {NoConfig}]
      /\ changed \in [PRs -> SUBSET UNION Changes]
      /\ \A p \in previews \cup gone :
           p.pr \in PRs /\ p.cfg \in Configs /\ Row(p) \in Rows
           /\ p.host \in PRs \X STRING
      /\ \A pr \in PRs :
           /\ comment[pr].kind \in {"none", "config", "capacity", "table"}
           /\ \A r \in comment[pr].rows : r \in Rows
      /\ closed \subseteq PRs /\ approved \subseteq PRs \X Configs
      /\ webhooks \in 0 .. MaxWebhooks

-----------------------------------------------------------------------------
\* Two previews answer to one host only if .prevly.yml changed between their
\* deploys, and one app took the subdomain of another.
HostsDistinct ==
  \A p, q \in previews : p # q /\ p.host = q.host => p.cfg # q.cfg

\* "Untrusted fork code never runs automatically": of an outsider's pull request
\* nothing is previewed but what was at its head when a trusted comment was
\* handled, whatever is pushed, closed, reopened or woken afterwards.
OutsidersWait ==
  \A p \in previews : p.pr \in Outsiders => <<p.pr, p.cfg>> \in approved

\* The sticky comment shows the previews that there are, each as it is, and of
\* those that are not only such as a close or the TTL took since; or it is the
\* notice that the last deploy ended with.
CommentTellsTruth ==
  \A pr \in PRs :
    \/ comment[pr].kind \in {"config", "capacity"}
    \/ comment[pr].rows = {Row(p) : p \in Of(previews \cup gone, pr)}

\* A path filter selects the files that its glob means.
GlobsMeant ==
  \A pr \in PRs : head[pr] # NoConfig =>
    \A i \in DOMAIN head[pr].apps : LET a == head[pr].apps[i] IN
      AppMatches(a, changed[pr])
        <=> \E f \in changed[pr], g \in a.paths : Meant(g, f)
=============================================================================
