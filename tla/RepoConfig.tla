----------------------------- MODULE RepoConfig -----------------------------
(***************************************************************************)
(* internal/config on a repository's .prevly.yml, and the part of          *)
(* internal/github that decides from it what a pull request deploys.  A    *)
(* path, a branch and a glob are sequences of segments.                    *)
(***************************************************************************)
EXTENDS Integers, Sequences

NoSub == ""  \* an app without a subdomain

\* path.Match on one segment: a literal, or "*" for any; "?" and classes are
\* finer patterns of the same kind.
SegMatch(p, s) == p = "*" \/ p = s

\* Mutant: "**" stands for one segment at least.
MatchSomeSegments(pat, name) ==
  LET m[i \in 1 .. Len(pat) + 1] ==
        CASE i > Len(pat) -> {Len(name) + 1}
          [] i <= Len(pat) /\ pat[i] = "**" ->
               {j \in 1 .. Len(name) + 1 :
                  i = Len(pat) \/ \E k \in j + 1 .. Len(name) + 1 : k \in m[i + 1]}
          [] OTHER -> {j \in 1 .. Len(name) :
                         SegMatch(pat[i], name[j]) /\ j + 1 \in m[i + 1]}
  IN  1 \in m[1]

\* matchSegments: m[i] are the places in name from which on it is matched by the
\* rest of pat from i on.
MatchSegments(pat, name) ==
  LET m[i \in 1 .. Len(pat) + 1] ==
        CASE i > Len(pat) -> {Len(name) + 1}
          [] i <= Len(pat) /\ pat[i] = "**" ->
               {j \in 1 .. Len(name) + 1 :
                  i = Len(pat) \/ \E k \in j .. Len(name) + 1 : k \in m[i + 1]}
          [] OTHER -> {j \in 1 .. Len(name) :
                         SegMatch(pat[i], name[j]) /\ j + 1 \in m[i + 1]}
  IN  1 \in m[1]

\* What a glob means: name can be cut into one piece for each segment of the
\* pattern, any number of segments for "**" and one that matches for another.
Meant(pat, name) ==
  \E cut \in [1 .. Len(pat) + 1 -> 0 .. Len(name)] :
    /\ cut[1] = 0 /\ cut[Len(pat) + 1] = Len(name)
    /\ \A i \in 1 .. Len(pat) :
         \/ pat[i] = "**" /\ cut[i] <= cut[i + 1]
         \/ cut[i + 1] = cut[i] + 1 /\ SegMatch(pat[i], name[cut[i + 1]])

AppMatches(a, changed) ==
  \E f \in changed, g \in a.paths : MatchSegments(g, f)

\* Of the apps, here and below, their places in the file.
MatchedApps(c, changed) ==
  {i \in DOMAIN c.apps : AppMatches(c.apps[i], changed)}

BranchAllowed(c, base, head) ==
  /\ c.targets = {} \/ base \in c.targets
  /\ \A g \in c.excluded : ~MatchSegments(g, head)

AppsToDeploy(c, base, head, changed) ==
  IF BranchAllowed(c, base, head) THEN MatchedApps(c, changed) ELSE {}

MultiApp(c) == Len(c.apps) > 1

NamesDiffer(c) ==
  \A i, j \in DOMAIN c.apps : i # j => c.apps[i].name # c.apps[j].name

\* Mutant: two apps may share a subdomain.
ValidNames(c) ==
  /\ c.version = 1 /\ c.apps # <<>>
  /\ \A i \in DOMAIN c.apps : c.apps[i].paths # {} /\ c.apps[i].runnable
  /\ NamesDiffer(c)
  /\ MultiApp(c) => \A i \in DOMAIN c.apps : c.apps[i].sub # NoSub

\* RepoConfig.Validate.  An app is runnable that has a dockerfile, a port in
\* range, and globs and names of the right form.
Validate(c) ==
  /\ c.version = 1 /\ c.apps # <<>>
  /\ \A i \in DOMAIN c.apps : c.apps[i].paths # {} /\ c.apps[i].runnable
  /\ NamesDiffer(c)
  /\ \A i, j \in DOMAIN c.apps :
       i # j /\ c.apps[i].sub # NoSub => c.apps[i].sub # c.apps[j].sub
  /\ MultiApp(c) => \A i \in DOMAIN c.apps : c.apps[i].sub # NoSub

\* Host: pr-<N>-<sub>.<base>, or pr-<N>.<base>.
Host(pr, a) == <<pr, a.sub>>

-----------------------------------------------------------------------------
(* ChatOps: a body is a sequence of lines, a line a sequence of words.     *)

Trusted == {"OWNER", "MEMBER", "COLLABORATOR"}

TrustedAuthor(association) == association \in Trusted

AutoBuildAllowed(fromFork, association) ==
  fromFork => TrustedAuthor(association)

Actions   == {"redeploy", "destroy", "status", "wake", "help"}
NoCommand == [action |-> "none", app |-> ""]

ParseCommand(body) ==
  LET found == SelectSeq(body, LAMBDA l : l # <<>> /\ l[1] = "/preview") IN
  CASE found = <<>> -> NoCommand
    [] found # <<>> /\ (Len(found[1]) = 1 \/ found[1][2] \notin Actions) ->
         [action |-> "help", app |-> ""]
    [] OTHER ->
         [action |-> found[1][2],
          app |-> IF Len(found[1]) >= 3 THEN found[1][3] ELSE ""]
=============================================================================
