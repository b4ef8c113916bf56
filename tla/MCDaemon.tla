------------------------------ MODULE MCDaemon ------------------------------
EXTENDS Daemon

CONSTANTS app1, app2  \* GitHub Apps

Web(name, sub) == [name |-> name, sub |-> sub, runnable |-> TRUE,
                   paths |-> {<<"web", "**", "*">>}]
Api(sub) == [name |-> "api", sub |-> sub, runnable |-> TRUE,
             paths |-> {<<"api", "**">>, <<"**", "go">>}]
Config(apps, feedback) ==
  [version |-> 1, apps |-> apps, targets |-> {"main"},
   excluded |-> {<<"bot", "**">>}, feedback |-> feedback]

\* One app, the same under another name, two apps, two that may not be.
MCConfigs == {Config(<<Web("web", "w")>>, TRUE),
              Config(<<Web("site", "w")>>, FALSE),
              Config(<<Web("web", "x"), Api("y")>>, TRUE),
              Config(<<Web("web", "w"), Api("w")>>, TRUE)}

MCChanges == {{<<"web", "go">>}, {<<"docs", "md">>}}
MCBranch  == [pr \in PRs |-> <<"fix">>]

MCBuckets == Hosts \cup {SiteKey(s) : s \in Sites}

Line(words) == <<words>>
MCBodies ==
  {Line(<<"/preview", "redeploy">>), Line(<<"/preview", "redeploy", "web">>),
   Line(<<"/preview", "destroy", "web">>), Line(<<"/preview", "wake">>),
   <<<<"thanks">>, <<"/preview", "status">>>>, Line(<<"/preview">>),
   Line(<<"/prevly", "redeploy">>)}
=============================================================================
