-------------------------------- MODULE Door --------------------------------
(***************************************************************************)
(* internal/ingress and the gates of internal/feedback: how a reviewer gets*)
(* from the link in the sticky comment to a report, through the proxy, the *)
(* cookie and the limiter.  What becomes of the report is in Feedback.     *)
(***************************************************************************)
EXTENDS PullRequests, Limiter

CONSTANTS Sites,     \* sites of the host configuration
          MaxClock,  \* a bound on the clock
          MaxVisits  \* a bound on the requests of a behaviour

ASSUME VisitsAssumption == MaxClock \in Nat /\ MaxVisits \in Nat

VARIABLES jar,  \* jar[h]: the token in the cookie for host h, or NoCookie
          visits

doorVars == <<now, bucket, jar, let, due, visits>>

Hosts    == UNION {{Host(pr, c.apps[i]) : i \in DOMAIN c.apps} : pr \in PRs, c \in Configs}
SiteKey(s) == <<0, s>>  \* "site:" and its name
NoCookie == -1

ASSUME BucketsAssumption == Hosts \cup {SiteKey(s) : s \in Sites} \subseteq Buckets

DoorTypeOK ==
  /\ LimiterTypeOK /\ now <= MaxClock /\ visits \in 0 .. MaxVisits
  /\ jar \in [Hosts -> 0 .. MaxWebhooks \cup {NoCookie}]

DoorInit == LimiterInit /\ jar = [h \in Hosts |-> NoCookie] /\ visits = 0

-----------------------------------------------------------------------------
(* Proxy.ServeHTTP, and the handlers behind it.                            *)

BaseDomain == <<0, "">>

Handler(host, widgetPath) ==
  CASE host = BaseDomain                -> "control"
    [] host # BaseDomain /\ widgetPath  -> "preview"
    [] host # BaseDomain /\ ~widgetPath -> "resolve"

\* previewFor.  Of several previews with the host the store answers the first
\* in the order of its keys: any of them here.
Routed(host)  == {p \in previews : p.host = host}
FeedbackOn(p) == p.cfg.feedback

Visited == /\ visits < MaxVisits /\ visits' = visits + 1
           /\ UNCHANGED <<prVars, now>>

\* activate, with the token of a link in the comment.
Activate(r) ==
  /\ Visited /\ Handler(r.url, TRUE) = "preview"
  /\ \E p \in Routed(r.url) : FeedbackOn(p) /\ p.token = r.token
  /\ jar' = [jar EXCEPT ![r.url] = r.token]
  /\ UNCHANGED <<bucket, let, due>>

\* createReport's gates before the limiter: 404, and 401 without the cookie.
Unlocked(host) ==
  \E p \in Routed(host) : FeedbackOn(p) /\ p.token = jar[host]

\* createReport.  What is wrong with a report that was let in - no multipart, a
\* part that is missing, too long or malformed - it has cost a token.
Report(host) ==
  /\ Visited /\ Handler(host, TRUE) = "preview" /\ Unlocked(host)
  /\ Allow(host) \/ Refuse(host)
  /\ UNCHANGED jar

\* createSiteReport, with the key of the site.
SiteReport(site) ==
  /\ Visited /\ Handler(BaseDomain, TRUE) = "control"
  /\ Allow(SiteKey(site)) \/ Refuse(SiteKey(site))
  /\ UNCHANGED jar

VisitStep == \/ \E pr \in PRs : \E r \in comment[pr].rows : Activate(r)
             \/ \E h \in Hosts : Report(h)
             \/ \E s \in Sites : SiteReport(s)

\* The clock runs once there is something to tell the time of.
Passes == now < MaxClock /\ visits > 0 /\ Pass /\ UNCHANGED <<prVars, jar, visits>>

-----------------------------------------------------------------------------
\* The "send feedback" link of a live preview in the sticky comment opens its
\* widget - unless the preview went since and the comment was not told, its
\* repository opted out, or another preview took its host.
LinksOpen ==
  \A pr \in PRs : \A r \in comment[pr].rows : r.status = "running" =>
    \/ /\ Routed(r.url) # {}
       /\ \A p \in Routed(r.url) : p.token = r.token \/ ~FeedbackOn(p)
    \/ \E p \in gone : r = Row(p)
    \/ Cardinality(Routed(r.url)) > 1
=============================================================================
