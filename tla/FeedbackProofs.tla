---------------------------- MODULE FeedbackProofs ---------------------------
(***************************************************************************)
(* Proofs about FeedbackTick, for any number of reports, Ticks, restarts   *)
(* and attempts: types, the bound on calls of GitHub, that the sweep keeps *)
(* the screenshots of young reports, that a second comment or issue has a  *)
(* cause, and that FeedbackTick implements Outbox.                         *)
(***************************************************************************)
EXTENDS FeedbackTick, FiniteSetTheorems, TLAPS

\* Who has a record to write has one, and one that may be tried has an attempt
\* left.
Room ==
  /\ \A p \in Posters : pc[p] \in Waiting => copy[p] \in Record
  /\ \A p \in Posters : pc[p] \in Waiting \cup {"post", "find"}
       => copy[p].attempts < maxPostAttempts
  /\ pc[Loop] \in {"retry"} \cup Posting => \A r \in Reports :
       todo[r] # NoRecord => todo[r].attempts < maxPostAttempts

\* Loop has report r before it and has not called GitHub about it.
Ahead(r) == \/ pc[Loop] \in {"retry"} \cup Posting /\ todo[r] # NoRecord
            \/ pc[Loop] \in {"post", "find"} /\ cur = r

\* Loop has called GitHub about r, or failed to, and will write that down.
Called(r) == pc[Loop] \in {"create", "persist"} /\ cur = r

NotYet == Waiting \cup {"none", "refused"}

\* Every call of GitHub is an attempt that somebody wrote down or will, or
\* belongs to a Tick that overtook the handler, or was lost to a restart.
CountedOne(r) ==
  /\ Holds(Loop, r) => todo[r] = NoRecord
  /\ calls[r] <= maxPostAttempts + Laps + restarts
  /\ pc[r] \in NotYet => /\ r \notin accepted /\ calls[r] = 0
                         /\ store[r] = NoRecord /\ todo[r] = NoRecord
                         /\ ~Holds(Loop, r) /\ laps[r] = 0
  /\ pc[r] \in Waiting \cup {"post", "find"} => copy[r].attempts = 0
  /\ pc[r] \in Posting =>
       /\ pc[r] \in {"create", "persist"} => copy[r].attempts >= 1
       /\ calls[r] <= (IF pc[r] \in {"create", "persist"} THEN 1 ELSE 0)
                        + laps[r] - (IF Ahead(r) THEN 1 ELSE 0)
  /\ pc[r] = "done" =>
       /\ pc[Loop] \in {"retry"} \cup Posting /\ todo[r] # NoRecord =>
            calls[r] <= todo[r].attempts + Laps + restarts
       /\ pc[Loop] \in {"post", "find"} /\ cur = r =>
            calls[r] <= copy[Loop].attempts + Laps + restarts
       /\ Stored(r) =>
            calls[r] <= store[r].attempts + Laps + restarts
                          + (IF Called(r) THEN 1 ELSE 0)
  /\ Called(r) => /\ copy[Loop].attempts >= 1
                  /\ pc[r] = "done" =>
                       calls[r] <= copy[Loop].attempts + Laps + restarts

Counted == \A r \in Reports : CountedOne(r)

\* A report on record was accepted, and one in the making of whose issue GitHub
\* was asked for has a call more than issues.
LandedOne(r) ==
  /\ Stored(r) \/ todo[r] # NoRecord \/ pc[r] \in Posting \/ Holds(Loop, r)
       => r \in accepted
  /\ landed[r] + (IF pc[r] = "create" THEN 1 ELSE 0)
               + (IF pc[Loop] = "create" /\ cur = r THEN 1 ELSE 0) <= calls[r]

Landed == \A r \in Reports : LandedOne(r)

\* No copy of a young record names a file that is gone, and Loop is about to
\* remove old ones only.
ShotsOne(r) ==
  /\ pc[Loop] \in {"sites", "removeRecord"} /\ todo[r] # NoRecord => r \in old
  /\ pc[Loop] = "removeRecord" /\ cur = r => r \in old
  /\ pc[Loop] = "remove" /\ r \in files => r \in old
  /\ r \notin old =>
       /\ store[r].shot => r \in shots
       /\ todo[r].shot => r \in shots
       /\ pc[r] \in {"put"} \cup Posting /\ copy[r].shot => r \in shots
       /\ Holds(Loop, r) /\ copy[Loop].shot => r \in shots

Shots == \A r \in Reports : ShotsOne(r)

\* What a teardown has dropped nobody has in hand, unless it was caught.
TornOne(r) ==
  r \notin caught /\ place[r] \in Previews \ unwired
    /\ (place[r] \in tearing \/ place[r] \notin live)
    => ~Stored(r) /\ ~InHand(r)

Torn == \A r \in Reports : TornOne(r)

\* The handler may yet make a comment, or made none.
Unsaid(r) == \/ pc[r] \in NotYet \cup {"post"}
             \/ pc[r] = "persist" /\ ~copy[r].posted

\* So it is with Loop, ...
Unheard(r) == Ahead(r) \/ (Called(r) /\ ~copy[Loop].posted)

\* ... or Loop made one and will write that down.
Heard(r) == Called(r) /\ copy[Loop].posted

\* A truth, counted.
One(b) == IF b THEN 1 ELSE 0

\* Of a preview's report no issue is made, and it has no more comments than
\* were heard of, or may yet come, for the handler, for Loop and for each Tick
\* that overtook the handler.  A site's has an issue for the handler or for a
\* Tick that overtook it.
CauseOne(r) ==
  /\ place[r] \in Previews =>
       /\ pc[r] \notin {"find", "create"}
       /\ Holds(Loop, r) => pc[Loop] \notin {"find", "create"}
       /\ pc[r] # "done" =>
            landed[r] - unheard[r] + One(Unsaid(r)) + One(Unheard(r)) <= 1 + laps[r]
       /\ pc[r] = "done" =>
            landed[r] - unheard[r]
              + One(Unheard(r) \/ (Stored(r) /\ ~store[r].posted /\ ~Heard(r)))
              <= 1 + laps[r]
  /\ place[r] \in Sites /\ pc[r] = "done" =>
       landed[r] + One(pc[Loop] = "create" /\ cur = r) <= 1 + laps[r]

Cause == \A r \in Reports : CauseOne(r)

-----------------------------------------------------------------------------
(* Types, with the room for one more attempt.                              *)

LEMMA AttemptedType ==
  ASSUME NEW c \in Record, c.attempts < maxPostAttempts
  PROVE  Attempted(c) \in Record
BY BoundsAssumption DEF Attempted, Record

LEMMA PostedType ==
  ASSUME NEW c \in Record, NEW b \in BOOLEAN
  PROVE  [c EXCEPT !.posted = b] \in Record
BY DEF Record

\* A poster that holds a record keeps another, and goes on or writes it down.
LEMMA KeepType ==
  ASSUME TypeOK, Room, NEW p \in Posters, NEW c \in Record,
         NEW l \in {"find", "create", "persist"}, pc[p] \in Posting,
         l = "find" => c.attempts < maxPostAttempts, Keep(p, c, l),
         landed' \in [Reports -> Nat], calls' \in [Reports -> Nat],
         unheard' \in [Reports -> Nat], instCache' \subseteq Sites,
         UNCHANGED <<diskVars, worldVars, sites, tearing, loopVars, boundVars>>
  PROVE  TypeOK' /\ Room'
BY NamesAssumption, BoundsAssumption, SMTT(30)
DEF TypeOK, Room, Record, NoRecord, Posters, Waiting, Posting, HandlerPCs,
    LoopPCs, Keep, Goto, diskVars, worldVars, loopVars, boundVars

\* The record in hand, and the report it is of.
LEMMA HandType ==
  ASSUME TypeOK, Room, NEW p \in Posters, pc[p] \in Posting
  PROVE  /\ copy[p] \in Record /\ Hand(p) \in Reports
         /\ pc[p] \in {"post", "find"} =>
              /\ copy[p].attempts < maxPostAttempts
              /\ Attempted(copy[p]) \in Record
BY AttemptedType DEF TypeOK, Room, Posters, Hand, Waiting

LEMMA CreatedType ==
  ASSUME TypeOK, NEW r \in Reports, NEW a, Created(r, a)
  PROVE  landed' \in [Reports -> Nat] /\ unheard' \in [Reports -> Nat]
BY SMTT(30) DEF TypeOK, Created

LEMMA CalledType ==
  ASSUME TypeOK, NEW r \in Reports, calls' = [calls EXCEPT ![r] = @ + 1]
  PROVE  calls' \in [Reports -> Nat]
BY SMTT(30) DEF TypeOK

LEMMA TypePostComment ==
  ASSUME TypeOK, Room, NEW p \in Posters, PostComment(p)
  PROVE  TypeOK' /\ Room'
<1> DEFINE r == Hand(p)
<1>1. pc[p] \in Posting
  BY DEF PostComment, Posting
<1>2. PICK a \in Answers :
        /\ Created(r, a)
        /\ Keep(p, [Attempted(copy[p]) EXCEPT !.posted = (a = "ok")], "persist")
  BY DEF PostComment
<1>3. r \in Reports /\ Attempted(copy[p]) \in Record
  BY <1>1, HandType DEF PostComment
<1>4. [Attempted(copy[p]) EXCEPT !.posted = (a = "ok")] \in Record
  BY <1>3, PostedType
<1>5. landed' \in [Reports -> Nat] /\ unheard' \in [Reports -> Nat]
  BY <1>2, <1>3, CreatedType
<1>6. calls' \in [Reports -> Nat]
  BY <1>3, CalledType DEF PostComment
<1>7. instCache' \subseteq Sites
  BY DEF PostComment, daemonVars, TypeOK
<1> QED
  BY <1>1, <1>2, <1>4, <1>5, <1>6, <1>7, KeepType
  DEF PostComment, daemonVars

LEMMA TypeFindInstallation ==
  ASSUME TypeOK, Room, NEW p \in Posters, FindInstallation(p)
  PROVE  TypeOK' /\ Room'
<1>1. pc[p] = "post" /\ pc[p] \in Posting
  BY DEF FindInstallation, Posting
<1>2. /\ copy[p] \in Record /\ copy[p].attempts < maxPostAttempts
      /\ Attempted(copy[p]) \in Record
  BY <1>1, HandType
<1>3. /\ landed' \in [Reports -> Nat] /\ calls' \in [Reports -> Nat]
      /\ unheard' \in [Reports -> Nat] /\ instCache' \subseteq Sites
  BY DEF FindInstallation, githubVars, TypeOK
<1>4. CASE Keep(p, copy[p], "find")
  BY <1>1, <1>2, <1>3, <1>4, KeepType DEF FindInstallation
<1>5. CASE Keep(p, Attempted(copy[p]), "persist")
  BY <1>1, <1>2, <1>3, <1>5, KeepType DEF FindInstallation
<1> QED
  BY <1>4, <1>5 DEF FindInstallation

LEMMA TypeFindByMarker ==
  ASSUME TypeOK, Room, NEW p \in Posters, FindByMarker(p)
  PROVE  TypeOK' /\ Room'
<1> DEFINE c == Attempted(copy[p])
<1>1. pc[p] = "find" /\ pc[p] \in Posting
  BY DEF FindByMarker, Posting
<1>2. c \in Record /\ Hand(p) \in Reports /\ [c EXCEPT !.posted = TRUE] \in Record
  BY <1>1, HandType, PostedType
<1>3. calls' \in [Reports -> Nat]
  BY <1>2, CalledType DEF FindByMarker
<1>4. /\ landed' \in [Reports -> Nat] /\ unheard' \in [Reports -> Nat]
      /\ instCache' \subseteq Sites
  BY DEF FindByMarker, daemonVars, TypeOK
<1>5. CASE Keep(p, [c EXCEPT !.posted = TRUE], "persist")
  BY <1>1, <1>2, <1>3, <1>4, <1>5, KeepType DEF FindByMarker, daemonVars
<1>6. CASE Keep(p, c, "create")
  BY <1>1, <1>2, <1>3, <1>4, <1>6, KeepType DEF FindByMarker, daemonVars
<1>7. CASE Keep(p, c, "persist")
  BY <1>1, <1>2, <1>3, <1>4, <1>7, KeepType DEF FindByMarker, daemonVars
<1> QED
  BY <1>5, <1>6, <1>7 DEF FindByMarker

LEMMA TypeCreateIssue ==
  ASSUME TypeOK, Room, NEW p \in Posters, CreateIssue(p)
  PROVE  TypeOK' /\ Room'
<1>1. pc[p] \in Posting
  BY DEF CreateIssue, Posting
<1>2. PICK a \in Answers :
        /\ Created(Hand(p), a)
        /\ Keep(p, [copy[p] EXCEPT !.posted = (a = "ok")], "persist")
  BY DEF CreateIssue
<1>3. Hand(p) \in Reports /\ [copy[p] EXCEPT !.posted = (a = "ok")] \in Record
  BY <1>1, HandType, PostedType
<1>4. landed' \in [Reports -> Nat] /\ unheard' \in [Reports -> Nat]
  BY <1>2, <1>3, CreatedType
<1>5. calls' \in [Reports -> Nat] /\ instCache' \subseteq Sites
  BY DEF CreateIssue, daemonVars, TypeOK
<1> QED
  BY <1>1, <1>2, <1>3, <1>4, <1>5, KeepType DEF CreateIssue, daemonVars

LEMMA TypeSweepRecord ==
  ASSUME TypeOK, Room, SweepRecord
  PROVE  TypeOK' /\ Room'
<1>1. /\ store' \in [Reports -> Record \cup {NoRecord}]
      /\ todo' \in [Reports -> Record \cup {NoRecord}]
  BY DEF SweepRecord, TypeOK
<1>2. pc' = [pc EXCEPT ![Loop] = "sites"] /\ cur' = Loop
  BY DEF SweepRecord, Goto
<1> QED
  BY <1>1, <1>2, NamesAssumption, SMTT(30)
  DEF TypeOK, Room, Posters, Waiting, Posting, HandlerPCs, LoopPCs, SweepRecord,
      diskVars, worldVars, daemonVars, githubVars, loopVars, boundVars

LEMMA TypeRestart ==
  ASSUME TypeOK, Room, Restart
  PROVE  TypeOK' /\ Room'
<1>1. /\ pc' \in [Posters -> HandlerPCs \cup LoopPCs] /\ pc'[Loop] = "idle"
      /\ \A r \in Reports : pc'[r] \in HandlerPCs \ (Waiting \cup Posting)
  BY NamesAssumption, SMTT(30)
  DEF Restart, TypeOK, Posters, HandlerPCs, LoopPCs, Waiting, Posting
<1>2. unheard' \in [Reports -> Nat]
  <2> DEFINE lost(r) == {p \in Posters :
                           Holds(p, r) /\ pc[p] = "persist" /\ copy[p].posted}
  <2>1. \A r \in Reports : IsFiniteSet(lost(r))
    <3>1. \A r \in Reports : lost(r) \subseteq {r} \cup {Loop}
      BY DEF Holds, Hand, Posters
    <3>2. \A r \in Reports : IsFiniteSet({r} \cup {Loop})
      BY FS_Singleton, FS_AddElement
    <3> QED
      BY <3>1, <3>2, FS_Subset
  <2>2. \A r \in Reports : Cardinality(lost(r)) \in Nat
    BY <2>1, FS_CardinalityType
  <2>3. unheard' = [r \in Reports |-> unheard[r] + Cardinality(lost(r))]
    BY DEF Restart
  <2> HIDE DEF lost
  <2> QED
    BY <2>2, <2>3 DEF TypeOK
<1>3. sites' \subseteq Sites
  BY DEF Restart
<1>4. copy' = [p \in Posters |-> NoRecord] /\ todo' = none /\ cur' = Loop
  BY DEF Restart
<1>5. live' \subseteq Previews /\ unwired' \subseteq Previews
  <2>1. PICK K \in SUBSET live : live' = live \ K /\ unwired' = unwired \cup K
    BY DEF Restart, TornDownUnwired
  <2> QED
    BY <2>1 DEF TypeOK
<1> QED
  BY <1>1, <1>2, <1>3, <1>4, <1>5, NamesAssumption, BoundsAssumption, SMTT(30)
  DEF Restart, none, TypeOK, Room, NoRecord, Posters, LoopPCs, Waiting, Posting,
      diskVars, worldVars

LEMMA TypePutFeedback ==
  ASSUME TypeOK, Room, NEW r \in Reports, PutFeedback(r)
  PROVE  TypeOK' /\ Room'
<1>1. r \in Posters /\ r # Loop /\ pc[r] \in Waiting /\ copy[r] \in Record
  BY NamesAssumption DEF PutFeedback, Posters, Room, Waiting
<1>2. /\ store' \in [Reports -> Record \cup {NoRecord}]
      /\ accepted' \subseteq Reports
  BY <1>1 DEF PutFeedback, TypeOK
<1>3. PICK l \in {"post", "refused"} : pc' = [pc EXCEPT ![r] = l]
  BY DEF PutFeedback, Goto
<1>4. UNCHANGED <<shots, worldVars, daemonVars, githubVars, copy, loopVars,
                  restarts, deploys, laps, caught>>
  BY DEF PutFeedback
<1>5. TypeOK'
  <2>1. /\ pc' \in [Posters -> HandlerPCs \cup LoopPCs]
        /\ pc'[Loop] = pc[Loop] /\ \A q \in Reports : pc'[q] \in HandlerPCs
    BY <1>1, <1>3, NamesAssumption DEF TypeOK, Posters, HandlerPCs, Posting
  <2>2. \A p \in Posters : pc'[p] \in Posting => copy'[p] \in Record
    BY <1>1, <1>3, <1>4 DEF TypeOK, Posters
  <2> QED
    BY <1>2, <1>4, <2>1, <2>2
    DEF TypeOK, worldVars, daemonVars, githubVars, loopVars
<1>6. Room'
  BY <1>1, <1>3, <1>4, SMTT(30)
  DEF Room, TypeOK, Posters, Waiting, Posting, loopVars
<1> QED
  BY <1>5, <1>6

LEMMA TypeStep ==
  ASSUME TypeOK, Room, [Next]_vars
  PROVE  TypeOK' /\ Room'
<1>11. ASSUME NEW r \in Reports, Receive(r) PROVE TypeOK' /\ Room'
  BY <1>11, NamesAssumption, BoundsAssumption, SMTT(30)
  DEF TypeOK, Room, Record, NoRecord, Posters, Waiting, Posting, HandlerPCs,
      LoopPCs, Receive, Goto, vars, diskVars, worldVars, daemonVars,
      githubVars, posterVars, loopVars, boundVars
<1>12. ASSUME NEW r \in Reports, SaveScreenshot(r) PROVE TypeOK' /\ Room'
  BY <1>12, NamesAssumption, BoundsAssumption, SMTT(30)
  DEF TypeOK, Room, Record, NoRecord, Posters, Waiting, Posting, HandlerPCs,
      LoopPCs, SaveScreenshot, Goto, vars, diskVars, worldVars, daemonVars,
      githubVars, posterVars, loopVars, boundVars
<1>13. ASSUME NEW r \in Reports, PutFeedback(r) PROVE TypeOK' /\ Room'
  BY <1>13, TypePutFeedback
<1>14. ASSUME NEW p \in Posters, CannotPost(p) PROVE TypeOK' /\ Room'
  BY <1>14, NamesAssumption, BoundsAssumption, SMTT(30)
  DEF TypeOK, Room, Record, NoRecord, Posters, Waiting, Posting, HandlerPCs,
      LoopPCs, CannotPost, Goto, Keep, GivenUp, Hand, vars, diskVars,
      worldVars, daemonVars, githubVars, posterVars, loopVars, boundVars
<1>15. ASSUME NEW p \in Posters, PostComment(p) PROVE TypeOK' /\ Room'
  BY <1>15, TypePostComment
<1>16. ASSUME NEW p \in Posters, FindInstallation(p) PROVE TypeOK' /\ Room'
  BY <1>16, TypeFindInstallation
<1>17. ASSUME NEW p \in Posters, FindByMarker(p) PROVE TypeOK' /\ Room'
  BY <1>17, TypeFindByMarker
<1>18. ASSUME NEW p \in Posters, CreateIssue(p) PROVE TypeOK' /\ Room'
  BY <1>18, TypeCreateIssue
<1>19. ASSUME NEW p \in Posters, Persist(p) PROVE TypeOK' /\ Room'
  BY <1>19, NamesAssumption, BoundsAssumption, SMTT(30)
  DEF TypeOK, Room, Record, NoRecord, Posters, Waiting, Posting, HandlerPCs,
      LoopPCs, Persist, Finish, Goto, Keep, Hand, vars, diskVars, worldVars,
      daemonVars, githubVars, posterVars, loopVars, boundVars
<1>20. CASE ListUnposted
  BY <1>20, NamesAssumption, BoundsAssumption, SMTT(30)
  DEF TypeOK, Room, Record, NoRecord, Posters, Waiting, Posting, HandlerPCs,
      LoopPCs, ListUnposted, Postable, InFlight, Stored, Goto, vars, diskVars,
      worldVars, daemonVars, githubVars, posterVars, loopVars, boundVars
<1>21. ASSUME NEW r \in Reports, RetryNext(r) PROVE TypeOK' /\ Room'
  BY <1>21, NamesAssumption, BoundsAssumption, SMTT(30)
  DEF TypeOK, Room, Record, NoRecord, Posters, Waiting, Posting, HandlerPCs,
      LoopPCs, RetryNext, Goto, Keep, vars, diskVars, worldVars, daemonVars,
      githubVars, posterVars, loopVars, boundVars
<1>22. CASE ListSites
  BY <1>22, NamesAssumption, BoundsAssumption, SMTT(30)
  DEF TypeOK, Room, Record, NoRecord, Posters, Waiting, Posting, HandlerPCs,
      LoopPCs, ListSites, none, Goto, vars, diskVars, worldVars, daemonVars,
      githubVars, posterVars, loopVars, boundVars
<1>23. ASSUME NEW r \in Reports, SweepFile(r) PROVE TypeOK' /\ Room'
  BY <1>23, NamesAssumption, BoundsAssumption, SMTT(30)
  DEF TypeOK, Room, Record, NoRecord, Posters, Waiting, Posting, HandlerPCs,
      LoopPCs, SweepFile, Goto, vars, diskVars, worldVars, daemonVars,
      githubVars, posterVars, loopVars, boundVars
<1>24. CASE SweepRecord
  BY <1>24, TypeSweepRecord
<1>25. CASE ReadDir
  BY <1>25, NamesAssumption, BoundsAssumption, SMTT(30)
  DEF TypeOK, Room, Record, NoRecord, Posters, Waiting, Posting, HandlerPCs,
      LoopPCs, ReadDir, none, Goto, vars, diskVars, worldVars, daemonVars,
      githubVars, posterVars, loopVars, boundVars
<1>26. CASE ListCreated
  BY <1>26, NamesAssumption, BoundsAssumption, SMTT(30)
  DEF TypeOK, Room, Record, NoRecord, Posters, Waiting, Posting, HandlerPCs,
      LoopPCs, ListCreated, Stale, Goto, vars, diskVars, worldVars, daemonVars,
      githubVars, posterVars, loopVars, boundVars
<1>27. ASSUME NEW r \in Reports, RemoveFile(r) PROVE TypeOK' /\ Room'
  BY <1>27, NamesAssumption, BoundsAssumption, SMTT(30)
  DEF TypeOK, Room, Record, NoRecord, Posters, Waiting, Posting, HandlerPCs,
      LoopPCs, RemoveFile, vars, diskVars, worldVars, daemonVars, githubVars,
      posterVars, loopVars, boundVars
<1>28. CASE TickEnds
  BY <1>28, NamesAssumption, BoundsAssumption, SMTT(30)
  DEF TypeOK, Room, Record, NoRecord, Posters, Waiting, Posting, HandlerPCs,
      LoopPCs, TickEnds, Goto, vars, diskVars, worldVars, daemonVars,
      githubVars, posterVars, loopVars, boundVars
<1>29. ASSUME NEW r \in Reports, Ages(r) PROVE TypeOK' /\ Room'
  BY <1>29, NamesAssumption, BoundsAssumption, SMTT(30)
  DEF TypeOK, Room, Record, NoRecord, Posters, Waiting, Posting, HandlerPCs,
      LoopPCs, Ages, vars, diskVars, worldVars, daemonVars, githubVars,
      posterVars, loopVars, boundVars
<1>30. ASSUME NEW k \in Previews, OnTeardown(k) PROVE TypeOK' /\ Room'
  BY <1>30, NamesAssumption, BoundsAssumption, SMTT(30)
  DEF TypeOK, Room, Record, NoRecord, Posters, Waiting, Posting, HandlerPCs,
      LoopPCs, OnTeardown, DropReports, vars, diskVars, worldVars, daemonVars,
      githubVars, posterVars, loopVars, boundVars
<1>31. ASSUME NEW k \in Previews, DeletePreview(k) PROVE TypeOK' /\ Room'
  BY <1>31, NamesAssumption, BoundsAssumption, SMTT(30)
  DEF TypeOK, Room, Record, NoRecord, Posters, Waiting, Posting, HandlerPCs,
      LoopPCs, DeletePreview, vars, diskVars, worldVars, daemonVars,
      githubVars, posterVars, loopVars, boundVars
<1>32. ASSUME NEW k \in Previews, Redeploy(k) PROVE TypeOK' /\ Room'
  BY <1>32, NamesAssumption, BoundsAssumption, SMTT(30)
  DEF TypeOK, Room, Record, NoRecord, Posters, Waiting, Posting, HandlerPCs,
      LoopPCs, Redeploy, vars, diskVars, worldVars, daemonVars, githubVars,
      posterVars, loopVars, boundVars
<1>33. CASE Restart
  BY <1>33, TypeRestart
<1>34. CASE UNCHANGED vars
  BY <1>34, NamesAssumption, BoundsAssumption, SMTT(30)
  DEF TypeOK, Room, Record, NoRecord, Posters, Waiting, Posting, HandlerPCs,
      LoopPCs, vars, diskVars, worldVars, daemonVars, githubVars, posterVars,
      loopVars, boundVars
<1> QED
  BY <1>11, <1>12, <1>13, <1>14, <1>15, <1>16, <1>17, <1>18, <1>19, <1>20,
     <1>21, <1>22, <1>23, <1>24, <1>25, <1>26, <1>27, <1>28, <1>29, <1>30,
     <1>31, <1>32, <1>33, <1>34
  DEF Next, Environment, LoopStep, HandlerStep, PostStep, Posters

LEMMA ShapeOf ==
  ASSUME TypeOK
  PROVE  /\ store \in [Reports -> Record \cup {NoRecord}]
         /\ todo \in [Reports -> Record \cup {NoRecord}]
         /\ pc \in [Posters -> HandlerPCs \cup LoopPCs]
         /\ copy \in [Posters -> Record \cup {NoRecord}]
         /\ laps \in [Reports -> 0 .. Laps]
         /\ calls \in [Reports -> Nat] /\ landed \in [Reports -> Nat]
         /\ restarts \in Nat
         /\ cur \in Reports \cup {Loop} /\ (pc[Loop] \in Posting => cur \in Reports)
         /\ pc[Loop] \in LoopPCs /\ \A r \in Reports : pc[r] \in HandlerPCs
BY BoundsAssumption DEF TypeOK

-----------------------------------------------------------------------------
(* Screenshots.                                                            *)

LEMMA ShotsSweepRecord ==
  ASSUME TypeOK, Shots, SweepRecord
  PROVE  Shots'
<1> SUFFICES ASSUME NEW q \in Reports PROVE ShotsOne(q)'
  BY DEF Shots
<1>1. ShotsOne(q)
  BY DEF Shots
<1>2. store'[q] \in {store[q], NoRecord} /\ todo'[q] \in {todo[q], NoRecord}
  BY ShapeOf DEF SweepRecord
<1>3. /\ pc'[Loop] = "sites" /\ pc'[q] = pc[q] /\ cur' = Loop
      /\ pc[Loop] = "removeRecord" /\ UNCHANGED <<old, shots, copy>>
  BY ShapeOf, NamesAssumption
  DEF SweepRecord, Goto, Posters, worldVars
<1>4. ~NoRecord.shot
  BY DEF NoRecord
<1> QED
  BY <1>1, <1>2, <1>3, <1>4, SMTT(30) DEF ShotsOne, Holds, Hand, Posting

LEMMA ShotsFindByMarker ==
  ASSUME TypeOK, Shots, NEW p \in Posters, FindByMarker(p)
  PROVE  Shots'
<1> SUFFICES ASSUME NEW q \in Reports PROVE ShotsOne(q)'
  BY DEF Shots
<1>1. ShotsOne(q)
  BY DEF Shots
<1>2. /\ copy'[p].shot = copy[p].shot /\ pc[p] = "find"
      /\ pc'[p] \in {"create", "persist"}
      /\ \A o \in Posters \ {p} : pc'[o] = pc[o] /\ copy'[o] = copy[o]
  <2>1. copy[p] \in Record \cup {NoRecord}
    BY ShapeOf
  <2>2. /\ Attempted(copy[p]).shot = copy[p].shot
        /\ [Attempted(copy[p]) EXCEPT !.posted = TRUE].shot = copy[p].shot
    BY <2>1 DEF Attempted, Record, NoRecord
  <2> QED
    BY <2>2, ShapeOf DEF FindByMarker, Keep, Goto
<1>3. UNCHANGED <<store, shots, old, cur, todo, files>>
  BY DEF FindByMarker, diskVars, worldVars, loopVars
<1> QED
  BY <1>1, <1>2, <1>3, NamesAssumption, SMTT(30)
  DEF ShotsOne, Holds, Hand, Posting, Posters

LEMMA ShotsStep ==
  ASSUME TypeOK, Shots, [Next]_vars
  PROVE  Shots'
<1> SUFFICES ASSUME NEW q \in Reports PROVE ShotsOne(q)'
  BY DEF Shots
<1>1. ShotsOne(q)
  BY DEF Shots
<1>11. ASSUME NEW r \in Reports, Receive(r) PROVE ShotsOne(q)'
  BY <1>1, ShapeOf, <1>11, NamesAssumption, BoundsAssumption, SMTT(30)
  DEF ShotsOne, Holds, Hand, Record, NoRecord, Posters, Waiting, Posting,
      HandlerPCs, LoopPCs, Receive, Goto, vars, diskVars, worldVars,
      daemonVars, githubVars, posterVars, loopVars, boundVars
<1>12. ASSUME NEW r \in Reports, SaveScreenshot(r) PROVE ShotsOne(q)'
  BY <1>1, ShapeOf, <1>12, NamesAssumption, BoundsAssumption, SMTT(30)
  DEF ShotsOne, Holds, Hand, Record, NoRecord, Posters, Waiting, Posting,
      HandlerPCs, LoopPCs, SaveScreenshot, Goto, vars, diskVars, worldVars,
      daemonVars, githubVars, posterVars, loopVars, boundVars
<1>13. ASSUME NEW r \in Reports, PutFeedback(r) PROVE ShotsOne(q)'
  BY <1>1, ShapeOf, <1>13, NamesAssumption, BoundsAssumption, SMTT(30)
  DEF ShotsOne, Holds, Hand, Record, NoRecord, Posters, Waiting, Posting,
      HandlerPCs, LoopPCs, PutFeedback, Goto, vars, diskVars, worldVars,
      daemonVars, githubVars, posterVars, loopVars, boundVars
<1>14. ASSUME NEW p \in Posters, CannotPost(p) PROVE ShotsOne(q)'
  BY <1>1, ShapeOf, <1>14, NamesAssumption, BoundsAssumption, SMTT(30)
  DEF ShotsOne, Holds, Hand, Record, NoRecord, Posters, Waiting, Posting,
      HandlerPCs, LoopPCs, CannotPost, Goto, Keep, GivenUp, vars, diskVars,
      worldVars, daemonVars, githubVars, posterVars, loopVars, boundVars
<1>15. ASSUME NEW p \in Posters, PostComment(p) PROVE ShotsOne(q)'
  BY <1>1, ShapeOf, <1>15, NamesAssumption, BoundsAssumption, SMTT(30)
  DEF ShotsOne, Holds, Hand, Record, NoRecord, Posters, Waiting, Posting,
      HandlerPCs, LoopPCs, PostComment, Goto, Keep, Attempted, Created, vars,
      diskVars, worldVars, daemonVars, githubVars, posterVars, loopVars,
      boundVars
<1>16. ASSUME NEW p \in Posters, FindInstallation(p) PROVE ShotsOne(q)'
  BY <1>1, ShapeOf, <1>16, NamesAssumption, BoundsAssumption, SMTT(30)
  DEF ShotsOne, Holds, Hand, Record, NoRecord, Posters, Waiting, Posting,
      HandlerPCs, LoopPCs, FindInstallation, Goto, Keep, Attempted, vars,
      diskVars, worldVars, daemonVars, githubVars, posterVars, loopVars,
      boundVars
<1>17. ASSUME NEW p \in Posters, FindByMarker(p) PROVE ShotsOne(q)'
  BY <1>17, ShotsFindByMarker DEF Shots
<1>18. ASSUME NEW p \in Posters, CreateIssue(p) PROVE ShotsOne(q)'
  BY <1>1, ShapeOf, <1>18, NamesAssumption, BoundsAssumption, SMTT(30)
  DEF ShotsOne, Holds, Hand, Record, NoRecord, Posters, Waiting, Posting,
      HandlerPCs, LoopPCs, CreateIssue, Goto, Keep, Created, vars, diskVars,
      worldVars, daemonVars, githubVars, posterVars, loopVars, boundVars
<1>19. ASSUME NEW p \in Posters, Persist(p) PROVE ShotsOne(q)'
  BY <1>1, ShapeOf, <1>19, NamesAssumption, BoundsAssumption, SMTT(30)
  DEF ShotsOne, Holds, Hand, Record, NoRecord, Posters, Waiting, Posting,
      HandlerPCs, LoopPCs, Persist, Finish, Goto, Keep, vars, diskVars,
      worldVars, daemonVars, githubVars, posterVars, loopVars, boundVars
<1>20. CASE ListUnposted
  BY <1>1, ShapeOf, <1>20, NamesAssumption, BoundsAssumption, SMTT(30)
  DEF ShotsOne, Holds, Hand, Record, NoRecord, Posters, Waiting, Posting,
      HandlerPCs, LoopPCs, ListUnposted, Postable, InFlight, Stored, Goto,
      vars, diskVars, worldVars, daemonVars, githubVars, posterVars, loopVars,
      boundVars
<1>21. ASSUME NEW r \in Reports, RetryNext(r) PROVE ShotsOne(q)'
  BY <1>1, ShapeOf, <1>21, NamesAssumption, BoundsAssumption, SMTT(30)
  DEF ShotsOne, Holds, Hand, Record, NoRecord, Posters, Waiting, Posting,
      HandlerPCs, LoopPCs, RetryNext, Goto, Keep, vars, diskVars, worldVars,
      daemonVars, githubVars, posterVars, loopVars, boundVars
<1>22. CASE ListSites
  BY <1>1, ShapeOf, <1>22, NamesAssumption, BoundsAssumption, SMTT(30)
  DEF ShotsOne, Holds, Hand, Record, NoRecord, Posters, Waiting, Posting,
      HandlerPCs, LoopPCs, ListSites, none, Goto, vars, diskVars, worldVars,
      daemonVars, githubVars, posterVars, loopVars, boundVars
<1>23. ASSUME NEW r \in Reports, SweepFile(r) PROVE ShotsOne(q)'
  BY <1>1, ShapeOf, <1>23, NamesAssumption, BoundsAssumption, SMTT(30)
  DEF ShotsOne, Holds, Hand, Record, NoRecord, Posters, Waiting, Posting,
      HandlerPCs, LoopPCs, SweepFile, Goto, vars, diskVars, worldVars,
      daemonVars, githubVars, posterVars, loopVars, boundVars
<1>24. CASE SweepRecord
  BY <1>24, ShotsSweepRecord DEF Shots
<1>25. CASE ReadDir
  BY <1>1, ShapeOf, <1>25, NamesAssumption, BoundsAssumption, SMTT(30)
  DEF ShotsOne, Holds, Hand, Record, NoRecord, Posters, Waiting, Posting,
      HandlerPCs, LoopPCs, ReadDir, none, Goto, vars, diskVars, worldVars,
      daemonVars, githubVars, posterVars, loopVars, boundVars
<1>26. CASE ListCreated
  BY <1>1, ShapeOf, <1>26, NamesAssumption, BoundsAssumption, SMTT(30)
  DEF ShotsOne, Holds, Hand, Record, NoRecord, Posters, Waiting, Posting,
      HandlerPCs, LoopPCs, ListCreated, Stale, Goto, vars, diskVars, worldVars,
      daemonVars, githubVars, posterVars, loopVars, boundVars
<1>27. ASSUME NEW r \in Reports, RemoveFile(r) PROVE ShotsOne(q)'
  BY <1>1, ShapeOf, <1>27, NamesAssumption, BoundsAssumption, SMTT(30)
  DEF ShotsOne, Holds, Hand, Record, NoRecord, Posters, Waiting, Posting,
      HandlerPCs, LoopPCs, RemoveFile, vars, diskVars, worldVars, daemonVars,
      githubVars, posterVars, loopVars, boundVars
<1>28. CASE TickEnds
  BY <1>1, ShapeOf, <1>28, NamesAssumption, BoundsAssumption, SMTT(30)
  DEF ShotsOne, Holds, Hand, Record, NoRecord, Posters, Waiting, Posting,
      HandlerPCs, LoopPCs, TickEnds, Goto, vars, diskVars, worldVars,
      daemonVars, githubVars, posterVars, loopVars, boundVars
<1>29. ASSUME NEW r \in Reports, Ages(r) PROVE ShotsOne(q)'
  BY <1>1, ShapeOf, <1>29, NamesAssumption, BoundsAssumption, SMTT(30)
  DEF ShotsOne, Holds, Hand, Record, NoRecord, Posters, Waiting, Posting,
      HandlerPCs, LoopPCs, Ages, vars, diskVars, worldVars, daemonVars,
      githubVars, posterVars, loopVars, boundVars
<1>30. ASSUME NEW k \in Previews, OnTeardown(k) PROVE ShotsOne(q)'
  BY <1>1, ShapeOf, <1>30, NamesAssumption, BoundsAssumption, SMTT(30)
  DEF ShotsOne, Holds, Hand, Record, NoRecord, Posters, Waiting, Posting,
      HandlerPCs, LoopPCs, OnTeardown, DropReports, vars, diskVars, worldVars,
      daemonVars, githubVars, posterVars, loopVars, boundVars
<1>31. ASSUME NEW k \in Previews, DeletePreview(k) PROVE ShotsOne(q)'
  BY <1>1, ShapeOf, <1>31, NamesAssumption, BoundsAssumption, SMTT(30)
  DEF ShotsOne, Holds, Hand, Record, NoRecord, Posters, Waiting, Posting,
      HandlerPCs, LoopPCs, DeletePreview, vars, diskVars, worldVars,
      daemonVars, githubVars, posterVars, loopVars, boundVars
<1>32. ASSUME NEW k \in Previews, Redeploy(k) PROVE ShotsOne(q)'
  BY <1>1, ShapeOf, <1>32, NamesAssumption, BoundsAssumption, SMTT(30)
  DEF ShotsOne, Holds, Hand, Record, NoRecord, Posters, Waiting, Posting,
      HandlerPCs, LoopPCs, Redeploy, vars, diskVars, worldVars, daemonVars,
      githubVars, posterVars, loopVars, boundVars
<1>33. CASE Restart
  BY <1>1, ShapeOf, <1>33, NamesAssumption, BoundsAssumption, SMTT(30)
  DEF ShotsOne, Holds, Hand, Record, NoRecord, Posters, Waiting, Posting,
      HandlerPCs, LoopPCs, Restart, none, vars, diskVars, worldVars,
      daemonVars, githubVars, posterVars, loopVars, boundVars
<1>34. CASE UNCHANGED vars
  BY <1>1, ShapeOf, <1>34, NamesAssumption, BoundsAssumption, SMTT(30)
  DEF ShotsOne, Holds, Hand, Record, NoRecord, Posters, Waiting, Posting,
      HandlerPCs, LoopPCs, vars, diskVars, worldVars, daemonVars, githubVars,
      posterVars, loopVars, boundVars
<1> QED
  BY <1>11, <1>12, <1>13, <1>14, <1>15, <1>16, <1>17, <1>18, <1>19, <1>20,
     <1>21, <1>22, <1>23, <1>24, <1>25, <1>26, <1>27, <1>28, <1>29, <1>30,
     <1>31, <1>32, <1>33, <1>34
  DEF Next, Environment, LoopStep, HandlerStep, PostStep, Posters

-----------------------------------------------------------------------------
(* Calls of GitHub, and who accounts for them.                             *)

\* A poster notes an attempt: GitHub was asked, or could not be.
LEMMA CountedCall ==
  ASSUME TypeOK, Room, Counted, NEW p \in Posters, NEW q \in Reports,
         pc[p] \in {"post", "find"}, pc'[p] \in {"create", "persist"},
         \A o \in Posters \ {p} : pc'[o] = pc[o] /\ copy'[o] = copy[o],
         copy'[p].attempts = copy[p].attempts + 1,
         calls'[q] \in {calls[q], calls[q] + 1},
         q # Hand(p) => calls'[q] = calls[q],
         UNCHANGED <<store, cur, todo, laps, restarts, accepted>>
  PROVE  CountedOne(q)'
<1>1. CountedOne(q)
  BY DEF Counted
<1>2. /\ p = Loop \/ (p \in Reports /\ pc'[Loop] = pc[Loop])
      /\ q # p => pc'[q] = pc[q] /\ copy'[q] = copy[q]
      /\ p # Loop => copy'[Loop] = copy[Loop]
  <2>1. p = Loop \/ (p \in Reports /\ p # Loop)
    BY NamesAssumption DEF Posters
  <2>2. Loop \in Posters /\ q \in Posters
    BY DEF Posters
  <2> QED
    BY <2>1, <2>2
<1>3. /\ calls[q] \in Nat /\ laps[q] \in 0 .. Laps /\ restarts \in Nat
      /\ copy[p].attempts \in 0 .. maxPostAttempts - 1
      /\ Stored(q) => store[q].attempts \in Nat
  BY ShapeOf, HandType, BoundsAssumption DEF Posting, Record, Stored
<1>4. CASE p = Loop /\ q = cur
  <2>1. Holds(Loop, q) /\ Ahead(q) /\ todo[q] = NoRecord
    BY <1>1, <1>4 DEF CountedOne, Holds, Hand, Ahead, Posting
  <2>2. pc[q] \in Posting \/ pc[q] = "done"
    BY <1>1, <2>1, ShapeOf DEF CountedOne, HandlerPCs, NotYet
  <2>3. /\ ~Ahead(q)' /\ pc'[q] = pc[q] /\ copy'[q] = copy[q]
        /\ copy'[Loop].attempts = copy[Loop].attempts + 1
    BY <1>2, <1>4, <2>1, NamesAssumption DEF Ahead, Posting
  <2>4. CASE pc[q] \in Posting
    BY <1>1, <1>3, <1>4, <2>1, <2>3, <2>4, BoundsAssumption, SMTT(30)
    DEF CountedOne, NotYet, Waiting, Posting, Called
  <2>5. CASE pc[q] = "done"
    BY <1>1, <1>3, <1>4, <2>1, <2>3, <2>5, BoundsAssumption, SMTT(30)
    DEF CountedOne, NotYet, Waiting, Posting, Called, Stored
  <2> QED
    BY <2>2, <2>4, <2>5
<1>5. CASE p = Loop /\ q # cur
  BY <1>1, <1>2, <1>3, <1>5, NamesAssumption, BoundsAssumption, SMTT(30)
  DEF CountedOne, NotYet, Waiting, Posting, Holds, Hand, Ahead, Called, Stored
<1>6. CASE p \in Reports /\ q = p
  BY <1>1, <1>2, <1>3, <1>6, NamesAssumption, BoundsAssumption, SMTT(30)
  DEF CountedOne, NotYet, Waiting, Posting, Holds, Hand, Ahead, Called, Stored
<1>7. CASE p \in Reports /\ q # p
  BY <1>1, <1>2, <1>3, <1>7, NamesAssumption, BoundsAssumption, SMTT(30)
  DEF CountedOne, NotYet, Waiting, Posting, Holds, Hand, Ahead, Called, Stored
<1> QED
  BY <1>2, <1>4, <1>5, <1>6, <1>7

\* What the three kinds of attempt do to the record in hand.
LEMMA AttemptedIs ==
  ASSUME TypeOK, NEW p \in Posters, pc[p] \in Posting
  PROVE  /\ Attempted(copy[p]).attempts = copy[p].attempts + 1
         /\ \A b \in BOOLEAN :
              [Attempted(copy[p]) EXCEPT !.posted = b].attempts
                = copy[p].attempts + 1
BY DEF TypeOK, Attempted, Record

LEMMA CountedPutFeedback ==
  ASSUME TypeOK, Counted, NEW r \in Reports, PutFeedback(r)
  PROVE  Counted'
<1> SUFFICES ASSUME NEW q \in Reports PROVE CountedOne(q)'
  BY DEF Counted
<1>1. CountedOne(q)
  BY DEF Counted
<1>2. /\ UNCHANGED <<calls, cur, todo, copy, laps, restarts>>
      /\ pc'[Loop] = pc[Loop] /\ pc[r] = "put"
  BY ShapeOf, NamesAssumption
  DEF PutFeedback, Goto, githubVars, loopVars, Posters
<1>3. CASE q = r
  <2>1. \/ pc'[q] = "post"
        \/ pc'[q] = "refused" /\ UNCHANGED <<store, accepted>>
    BY <1>3, ShapeOf DEF PutFeedback, Goto, Posters
  <2>2. copy[q].attempts = 0
    BY <1>1, <1>2, <1>3 DEF CountedOne, Waiting
  <2> QED
    BY <1>1, <1>2, <1>3, <2>1, <2>2, SMTT(30)
    DEF CountedOne, NotYet, Waiting, Ahead, Called, Stored, Holds, Hand, Posting
<1>4. CASE q # r
  <2>1. /\ pc'[q] = pc[q] /\ store'[q] = store[q]
        /\ q \in accepted' <=> q \in accepted
    BY <1>4, ShapeOf DEF PutFeedback, Goto, Posters
  <2> QED
    BY <1>1, <1>2, <2>1, SMTT(30)
    DEF CountedOne, Ahead, Called, Stored, Holds, Hand
<1> QED
  BY <1>3, <1>4

LEMMA CountedPostComment ==
  ASSUME TypeOK, Room, Counted, NEW p \in Posters, PostComment(p)
  PROVE  Counted'
<1> SUFFICES ASSUME NEW q \in Reports PROVE CountedOne(q)'
  BY DEF Counted
<1>1. pc[p] = "post"
  BY DEF PostComment
<1>2. /\ pc'[p] = "persist"
      /\ \A o \in Posters \ {p} : pc'[o] = pc[o] /\ copy'[o] = copy[o]
      /\ copy'[p].attempts = copy[p].attempts + 1
  BY <1>1, ShapeOf, AttemptedIs DEF PostComment, Keep, Goto, Posting
<1>3. /\ calls'[q] \in {calls[q], calls[q] + 1}
      /\ q # Hand(p) => calls'[q] = calls[q]
  BY ShapeOf DEF PostComment
<1> QED
  BY <1>1, <1>2, <1>3, CountedCall DEF PostComment, diskVars, loopVars, boundVars

LEMMA CountedFindByMarker ==
  ASSUME TypeOK, Room, Counted, NEW p \in Posters, FindByMarker(p)
  PROVE  Counted'
<1> SUFFICES ASSUME NEW q \in Reports PROVE CountedOne(q)'
  BY DEF Counted
<1>1. pc[p] = "find"
  BY DEF FindByMarker
<1>2. /\ pc'[p] \in {"create", "persist"}
      /\ \A o \in Posters \ {p} : pc'[o] = pc[o] /\ copy'[o] = copy[o]
      /\ copy'[p].attempts = copy[p].attempts + 1
  BY <1>1, ShapeOf, AttemptedIs DEF FindByMarker, Keep, Goto, Posting
<1>3. /\ calls'[q] \in {calls[q], calls[q] + 1}
      /\ q # Hand(p) => calls'[q] = calls[q]
  BY ShapeOf DEF FindByMarker
<1> QED
  BY <1>1, <1>2, <1>3, CountedCall DEF FindByMarker, diskVars, loopVars, boundVars

LEMMA CountedFindInstallation ==
  ASSUME TypeOK, Room, Counted, NEW p \in Posters, FindInstallation(p)
  PROVE  Counted'
<1> SUFFICES ASSUME NEW q \in Reports PROVE CountedOne(q)'
  BY DEF Counted
<1>1. /\ pc[p] = "post"
      /\ UNCHANGED <<calls, store, cur, todo, laps, restarts, accepted>>
  BY DEF FindInstallation, githubVars, diskVars, loopVars, boundVars
<1>2. CASE Keep(p, copy[p], "find")
  <2>1. CountedOne(q)
    BY DEF Counted
  <2>2. /\ pc'[p] = "find" /\ copy'[p] = copy[p]
        /\ \A o \in Posters \ {p} : pc'[o] = pc[o] /\ copy'[o] = copy[o]
    BY <1>2, ShapeOf DEF Keep, Goto
  <2> QED
    BY <1>1, <2>1, <2>2, NamesAssumption, SMTT(30)
    DEF CountedOne, NotYet, Waiting, Posting, Posters, Holds, Hand, Ahead,
        Called, Stored
<1>3. CASE Keep(p, Attempted(copy[p]), "persist")
  <2>1. /\ pc'[p] = "persist"
        /\ \A o \in Posters \ {p} : pc'[o] = pc[o] /\ copy'[o] = copy[o]
        /\ copy'[p].attempts = copy[p].attempts + 1
    BY <1>1, <1>3, ShapeOf, AttemptedIs DEF Keep, Goto, Posting
  <2> QED
    BY <1>1, <2>1, CountedCall
<1> QED
  BY <1>2, <1>3 DEF FindInstallation

LEMMA CountedPersist ==
  ASSUME TypeOK, Room, Counted, NEW p \in Posters, Persist(p)
  PROVE  Counted'
<1> SUFFICES ASSUME NEW q \in Reports PROVE CountedOne(q)'
  BY DEF Counted
<1>1. CountedOne(q)
  BY DEF Counted
<1>2. /\ UNCHANGED <<calls, todo, laps, restarts, accepted>>
      /\ pc[p] = "persist"
      /\ \A o \in Posters \ {p} : pc'[o] = pc[o] /\ copy'[o] = copy[o]
      /\ store' = [store EXCEPT ![Hand(p)] = copy[p]]
  BY ShapeOf DEF Persist, Finish, Keep, Goto, githubVars, boundVars
<1>3. /\ calls[q] \in Nat /\ laps[q] \in 0 .. Laps /\ restarts \in Nat
      /\ q # Hand(p) => store'[q] = store[q]
      /\ q = Hand(p) => store'[q] = copy[p]
      /\ copy[p].attempts \in 0 .. maxPostAttempts
      /\ store[q].attempts >= -1 /\ (Stored(q) => store[q].attempts >= 0)
  BY <1>2, ShapeOf, HandType, BoundsAssumption, SMTT(30)
  DEF Posting, Record, NoRecord, Stored
<1>4. CASE p = Loop
  <2>1. pc'[Loop] = "retry" /\ cur' = Loop
    BY <1>4, ShapeOf DEF Persist, Finish, Keep, Goto, Posters
  <2>2. pc'[q] = pc[q] /\ copy'[q] = copy[q]
    BY <1>2, <1>4, NamesAssumption DEF Posters
  <2>3. CASE q = cur
    <3>1. /\ Holds(Loop, q) /\ Called(q) /\ todo[q] = NoRecord
          /\ store'[q] = copy[Loop]
      BY <1>1, <1>2, <1>3, <1>4, <2>3
      DEF CountedOne, Holds, Hand, Called, Posting
    <3>2. pc[q] \in NotYet \/ pc[q] \in Posting \/ pc[q] = "done"
      BY ShapeOf DEF HandlerPCs, NotYet
    <3>3. ~Called(q)' /\ ~Ahead(q)' /\ ~Holds(Loop, q)'
      BY <1>2, <2>1, <3>1 DEF Called, Ahead, Holds, Hand, Posting
    <3>4. pc[q] \notin NotYet
      BY <1>1, <3>1 DEF CountedOne
    <3>5. CASE pc[q] \in Posting
      BY <1>1, <1>2, <1>3, <2>1, <2>2, <3>1, <3>3, <3>5, SMTT(30)
      DEF CountedOne, NotYet, Waiting, Posting
    <3>6. CASE pc[q] = "done"
      BY <1>1, <1>2, <1>3, <1>4, <2>1, <2>2, <3>1, <3>3, <3>6, BoundsAssumption,
         SMTT(30)
      DEF CountedOne, NotYet, Waiting, Posting
    <3> QED
      BY <3>2, <3>4, <3>5, <3>6
  <2>4. CASE q # cur
    BY <1>1, <1>2, <1>3, <1>4, <2>1, <2>2, <2>4, NamesAssumption, SMTT(30)
    DEF CountedOne, NotYet, Waiting, Posting, Holds, Hand, Ahead, Called, Stored
  <2> QED
    BY <2>3, <2>4
<1>5. CASE p # Loop
  <2>1. pc'[p] = "done" /\ cur' = cur
    BY <1>5, ShapeOf DEF Persist, Finish, Keep, Goto
  <2>2. pc'[Loop] = pc[Loop] /\ copy'[Loop] = copy[Loop]
    BY <1>2, <1>5 DEF Posters
  <2>3. CASE q = p
    <3>1. /\ todo[q].attempts \in Nat \/ todo[q] = NoRecord
          /\ Holds(Loop, q) => copy[Loop].attempts \in Nat
          /\ Called(q) => Holds(Loop, q)
      BY ShapeOf, HandType DEF Record, Holds, Hand, Called, Posting, Posters
    <3>2. /\ calls[q] <= 1 + laps[q] - (IF Ahead(q) THEN 1 ELSE 0)
          /\ copy[q].attempts >= 1 /\ store'[q] = copy[q]
      BY <1>1, <1>2, <1>3, <1>5, <2>3 DEF CountedOne, Posting, Hand
    <3>3. /\ Called(q)' <=> Called(q)
          /\ Holds(Loop, q)' <=> Holds(Loop, q)
      BY <1>2, <2>1, <2>2 DEF Called, Holds, Hand
    <3>4. CASE Ahead(q)
      BY <1>1, <1>2, <1>3, <2>1, <2>2, <2>3, <3>1, <3>2, <3>3, <3>4, BoundsAssumption,
         SMTT(30)
      DEF CountedOne, NotYet, Waiting, Posting, Holds, Hand, Ahead
    <3>5. CASE ~Ahead(q)
      BY <1>1, <1>2, <1>3, <2>1, <2>2, <2>3, <3>1, <3>2, <3>3, <3>5, BoundsAssumption,
         SMTT(30)
      DEF CountedOne, NotYet, Waiting, Posting, Holds, Hand, Ahead
    <3> QED
      BY <3>4, <3>5
  <2>4. CASE q # p
    <3>1. pc'[q] = pc[q] /\ copy'[q] = copy[q] /\ store'[q] = store[q]
      BY <1>2, <1>3, <1>5, <2>4 DEF Posters, Hand
    <3> QED
      BY <1>1, <1>2, <2>1, <2>2, <3>1, SMTT(30)
      DEF CountedOne, Holds, Hand, Ahead, Called, Stored
  <2> QED
    BY <2>3, <2>4
<1> QED
  BY <1>4, <1>5

LEMMA CountedRetryNext ==
  ASSUME TypeOK, Counted, NEW r \in Reports, RetryNext(r)
  PROVE  Counted'
<1> SUFFICES ASSUME NEW q \in Reports PROVE CountedOne(q)'
  BY DEF Counted
<1>1. CountedOne(q)
  BY DEF Counted
<1>2. /\ UNCHANGED <<calls, store, laps, restarts, accepted>>
      /\ pc[Loop] = "retry" /\ pc'[Loop] = "post" /\ cur' = r
      /\ pc'[q] = pc[q] /\ copy'[q] = copy[q] /\ copy'[Loop] = todo[r]
      /\ todo[r] # NoRecord /\ todo'[r] = NoRecord
      /\ q # r => todo'[q] = todo[q]
  BY ShapeOf, NamesAssumption
  DEF RetryNext, Keep, Goto, githubVars, boundVars, diskVars, Posters
<1>3. CASE q = r
  BY <1>1, <1>2, <1>3, SMTT(30)
  DEF CountedOne, NotYet, Waiting, Posting, Holds, Hand, Ahead, Called, Stored
<1>4. CASE q # r
  BY <1>1, <1>2, <1>4, SMTT(30)
  DEF CountedOne, NotYet, Waiting, Posting, Holds, Hand, Ahead, Called, Stored
<1> QED
  BY <1>3, <1>4

LEMMA CountedListSites ==
  ASSUME TypeOK, Counted, ListSites
  PROVE  Counted'
<1> SUFFICES ASSUME NEW q \in Reports PROVE CountedOne(q)'
  BY DEF Counted
<1>1. CountedOne(q)
  BY DEF Counted
<1>2. /\ UNCHANGED <<calls, store, laps, restarts, accepted, copy, cur>>
      /\ pc[Loop] = "retry" /\ pc'[Loop] = "sites" /\ pc'[q] = pc[q]
      /\ todo[q] = NoRecord /\ todo'[q] \in {store[q], NoRecord}
  BY ShapeOf, NamesAssumption
  DEF ListSites, none, Goto, githubVars, boundVars, diskVars, Posters
<1> QED
  BY <1>1, <1>2, SMTT(30)
  DEF CountedOne, NotYet, Waiting, Posting, Holds, Hand, Ahead, Called, Stored

LEMMA CountedSweepRecord ==
  ASSUME TypeOK, Counted, SweepRecord
  PROVE  Counted'
<1> SUFFICES ASSUME NEW q \in Reports PROVE CountedOne(q)'
  BY DEF Counted
<1>1. CountedOne(q)
  BY DEF Counted
<1>2. /\ UNCHANGED <<calls, laps, restarts, accepted, copy>>
      /\ pc[Loop] = "removeRecord" /\ pc'[Loop] = "sites" /\ pc'[q] = pc[q]
      /\ store'[q] \in {store[q], NoRecord} /\ todo'[q] \in {todo[q], NoRecord}
  BY ShapeOf, NamesAssumption
  DEF SweepRecord, Goto, githubVars, boundVars, Posters
<1> QED
  BY <1>1, <1>2, SMTT(30)
  DEF CountedOne, NotYet, Waiting, Posting, Holds, Hand, Ahead, Called, Stored

LEMMA CountedOnTeardown ==
  ASSUME TypeOK, Counted, NEW k \in Previews, OnTeardown(k)
  PROVE  Counted'
<1> SUFFICES ASSUME NEW q \in Reports PROVE CountedOne(q)'
  BY DEF Counted
<1>1. CountedOne(q)
  BY DEF Counted
<1>2. /\ UNCHANGED <<calls, laps, restarts, accepted, pc, copy, cur, todo>>
      /\ store'[q] \in {store[q], NoRecord}
  BY ShapeOf DEF OnTeardown, DropReports, githubVars, posterVars, loopVars
<1> QED
  BY <1>1, <1>2, SMTT(30)
  DEF CountedOne, NotYet, Waiting, Posting, Holds, Hand, Ahead, Called, Stored

LEMMA CountedStep ==
  ASSUME TypeOK, Room, Counted, [Next]_vars
  PROVE  Counted'
<1> SUFFICES ASSUME NEW q \in Reports PROVE CountedOne(q)'
  BY DEF Counted
<1>1. CountedOne(q)
  BY DEF Counted
<1>11. ASSUME NEW r \in Reports, Receive(r) PROVE CountedOne(q)'
  BY <1>1, ShapeOf, <1>11, NamesAssumption, BoundsAssumption, SMTT(30)
  DEF CountedOne, Ahead, Called, NotYet, Holds, Hand, Stored, Record, NoRecord,
      Posters, Waiting, Posting, HandlerPCs, LoopPCs, Receive, Goto, vars,
      diskVars, worldVars, daemonVars, githubVars, posterVars, loopVars,
      boundVars
<1>12. ASSUME NEW r \in Reports, SaveScreenshot(r) PROVE CountedOne(q)'
  BY <1>1, ShapeOf, <1>12, NamesAssumption, BoundsAssumption, SMTT(30)
  DEF CountedOne, Ahead, Called, NotYet, Holds, Hand, Stored, Record, NoRecord,
      Posters, Waiting, Posting, HandlerPCs, LoopPCs, SaveScreenshot, Goto,
      vars, diskVars, worldVars, daemonVars, githubVars, posterVars, loopVars,
      boundVars
<1>13. ASSUME NEW r \in Reports, PutFeedback(r) PROVE CountedOne(q)'
  BY <1>13, CountedPutFeedback DEF Counted
<1>14. ASSUME NEW p \in Posters, CannotPost(p) PROVE CountedOne(q)'
  BY <1>1, ShapeOf, <1>14, NamesAssumption, BoundsAssumption, SMTT(30)
  DEF CountedOne, Ahead, Called, NotYet, Holds, Hand, Stored, Record, NoRecord,
      Posters, Waiting, Posting, HandlerPCs, LoopPCs, CannotPost, Goto, Keep,
      GivenUp, vars, diskVars, worldVars, daemonVars, githubVars, posterVars,
      loopVars, boundVars
<1>15. ASSUME NEW p \in Posters, PostComment(p) PROVE CountedOne(q)'
  BY <1>15, CountedPostComment DEF Counted
<1>16. ASSUME NEW p \in Posters, FindInstallation(p) PROVE CountedOne(q)'
  BY <1>16, CountedFindInstallation DEF Counted
<1>17. ASSUME NEW p \in Posters, FindByMarker(p) PROVE CountedOne(q)'
  BY <1>17, CountedFindByMarker DEF Counted
<1>18. ASSUME NEW p \in Posters, CreateIssue(p) PROVE CountedOne(q)'
  BY <1>1, ShapeOf, <1>18, NamesAssumption, BoundsAssumption, SMTT(30)
  DEF CountedOne, Ahead, Called, NotYet, Holds, Hand, Stored, Record, NoRecord,
      Posters, Waiting, Posting, HandlerPCs, LoopPCs, CreateIssue, Goto, Keep,
      Created, vars, diskVars, worldVars, daemonVars, githubVars, posterVars,
      loopVars, boundVars
<1>19. ASSUME NEW p \in Posters, Persist(p) PROVE CountedOne(q)'
  BY <1>19, CountedPersist DEF Counted
<1>20. CASE ListUnposted
  BY <1>1, ShapeOf, <1>20, NamesAssumption, BoundsAssumption, SMTT(30)
  DEF CountedOne, Ahead, Called, NotYet, Holds, Hand, Stored, Record, NoRecord,
      Posters, Waiting, Posting, HandlerPCs, LoopPCs, ListUnposted, Postable,
      InFlight, Goto, vars, diskVars, worldVars, daemonVars, githubVars,
      posterVars, loopVars, boundVars
<1>21. ASSUME NEW r \in Reports, RetryNext(r) PROVE CountedOne(q)'
  BY <1>21, CountedRetryNext DEF Counted
<1>22. CASE ListSites
  BY <1>22, CountedListSites DEF Counted
<1>23. ASSUME NEW r \in Reports, SweepFile(r) PROVE CountedOne(q)'
  BY <1>1, ShapeOf, <1>23, NamesAssumption, BoundsAssumption, SMTT(30)
  DEF CountedOne, Ahead, Called, NotYet, Holds, Hand, Stored, Record, NoRecord,
      Posters, Waiting, Posting, HandlerPCs, LoopPCs, SweepFile, Goto, vars,
      diskVars, worldVars, daemonVars, githubVars, posterVars, loopVars,
      boundVars
<1>24. CASE SweepRecord
  BY <1>24, CountedSweepRecord DEF Counted
<1>25. CASE ReadDir
  BY <1>1, ShapeOf, <1>25, NamesAssumption, BoundsAssumption, SMTT(30)
  DEF CountedOne, Ahead, Called, NotYet, Holds, Hand, Stored, Record, NoRecord,
      Posters, Waiting, Posting, HandlerPCs, LoopPCs, ReadDir, none, Goto,
      vars, diskVars, worldVars, daemonVars, githubVars, posterVars, loopVars,
      boundVars
<1>26. CASE ListCreated
  BY <1>1, ShapeOf, <1>26, NamesAssumption, BoundsAssumption, SMTT(30)
  DEF CountedOne, Ahead, Called, NotYet, Holds, Hand, Stored, Record, NoRecord,
      Posters, Waiting, Posting, HandlerPCs, LoopPCs, ListCreated, Stale, Goto,
      vars, diskVars, worldVars, daemonVars, githubVars, posterVars, loopVars,
      boundVars
<1>27. ASSUME NEW r \in Reports, RemoveFile(r) PROVE CountedOne(q)'
  BY <1>1, ShapeOf, <1>27, NamesAssumption, BoundsAssumption, SMTT(30)
  DEF CountedOne, Ahead, Called, NotYet, Holds, Hand, Stored, Record, NoRecord,
      Posters, Waiting, Posting, HandlerPCs, LoopPCs, RemoveFile, vars,
      diskVars, worldVars, daemonVars, githubVars, posterVars, loopVars,
      boundVars
<1>28. CASE TickEnds
  BY <1>1, ShapeOf, <1>28, NamesAssumption, BoundsAssumption, SMTT(30)
  DEF CountedOne, Ahead, Called, NotYet, Holds, Hand, Stored, Record, NoRecord,
      Posters, Waiting, Posting, HandlerPCs, LoopPCs, TickEnds, Goto, vars,
      diskVars, worldVars, daemonVars, githubVars, posterVars, loopVars,
      boundVars
<1>29. ASSUME NEW r \in Reports, Ages(r) PROVE CountedOne(q)'
  BY <1>1, ShapeOf, <1>29, NamesAssumption, BoundsAssumption, SMTT(30)
  DEF CountedOne, Ahead, Called, NotYet, Holds, Hand, Stored, Record, NoRecord,
      Posters, Waiting, Posting, HandlerPCs, LoopPCs, Ages, vars, diskVars,
      worldVars, daemonVars, githubVars, posterVars, loopVars, boundVars
<1>30. ASSUME NEW k \in Previews, OnTeardown(k) PROVE CountedOne(q)'
  BY <1>30, CountedOnTeardown DEF Counted
<1>31. ASSUME NEW k \in Previews, DeletePreview(k) PROVE CountedOne(q)'
  BY <1>1, ShapeOf, <1>31, NamesAssumption, BoundsAssumption, SMTT(30)
  DEF CountedOne, Ahead, Called, NotYet, Holds, Hand, Stored, Record, NoRecord,
      Posters, Waiting, Posting, HandlerPCs, LoopPCs, DeletePreview, vars,
      diskVars, worldVars, daemonVars, githubVars, posterVars, loopVars,
      boundVars
<1>32. ASSUME NEW k \in Previews, Redeploy(k) PROVE CountedOne(q)'
  BY <1>1, ShapeOf, <1>32, NamesAssumption, BoundsAssumption, SMTT(30)
  DEF CountedOne, Ahead, Called, NotYet, Holds, Hand, Stored, Record, NoRecord,
      Posters, Waiting, Posting, HandlerPCs, LoopPCs, Redeploy, vars, diskVars,
      worldVars, daemonVars, githubVars, posterVars, loopVars, boundVars
<1>33. CASE Restart
  BY <1>1, ShapeOf, <1>33, NamesAssumption, BoundsAssumption, SMTT(30)
  DEF CountedOne, Ahead, Called, NotYet, Holds, Hand, Stored, Record, NoRecord,
      Posters, Waiting, Posting, HandlerPCs, LoopPCs, Restart, none, vars,
      diskVars, worldVars, daemonVars, githubVars, posterVars, loopVars,
      boundVars
<1>34. CASE UNCHANGED vars
  BY <1>1, ShapeOf, <1>34, NamesAssumption, BoundsAssumption, SMTT(30)
  DEF CountedOne, Ahead, Called, NotYet, Holds, Hand, Stored, Record, NoRecord,
      Posters, Waiting, Posting, HandlerPCs, LoopPCs, vars, diskVars,
      worldVars, daemonVars, githubVars, posterVars, loopVars, boundVars
<1> QED
  BY <1>11, <1>12, <1>13, <1>14, <1>15, <1>16, <1>17, <1>18, <1>19, <1>20,
     <1>21, <1>22, <1>23, <1>24, <1>25, <1>26, <1>27, <1>28, <1>29, <1>30,
     <1>31, <1>32, <1>33, <1>34
  DEF Next, Environment, LoopStep, HandlerStep, PostStep, Posters

-----------------------------------------------------------------------------
(* What a teardown leaves.                                                 *)

LEMMA TornReceive ==
  ASSUME TypeOK, Torn, NEW r \in Reports, Receive(r)
  PROVE  Torn'
<1> SUFFICES ASSUME NEW q \in Reports PROVE TornOne(q)'
  BY DEF Torn
<1>1. TornOne(q)
  BY DEF Torn
<1>2. /\ UNCHANGED <<store, place, tearing, live, unwired, todo, cur>>
      /\ pc'[Loop] = pc[Loop] /\ (q # r => pc'[q] = pc[q])
      /\ q \in caught => q \in caught'
  BY ShapeOf, NamesAssumption
  DEF Receive, Goto, diskVars, worldVars, daemonVars, loopVars, Posters
<1>3. q = r => place[q] \in live \/ place[q] \notin Previews
  BY NamesAssumption DEF Receive, TypeOK
<1>4. q = r /\ place[q] \in tearing => q \in caught'
  BY DEF Receive
<1> QED
  BY <1>1, <1>2, <1>3, <1>4, SMTT(30)
  DEF TornOne, InHand, Stored, Holds, Hand, Waiting, Posting

LEMMA TornPutFeedback ==
  ASSUME TypeOK, Torn, NEW r \in Reports, PutFeedback(r)
  PROVE  Torn'
<1> SUFFICES ASSUME NEW q \in Reports PROVE TornOne(q)'
  BY DEF Torn
<1>1. TornOne(q)
  BY DEF Torn
<1>2. /\ UNCHANGED <<place, tearing, live, unwired, todo, cur, caught>>
      /\ pc'[Loop] = pc[Loop] /\ pc[r] = "put"
      /\ q # r => pc'[q] = pc[q] /\ store'[q] = store[q]
  BY ShapeOf, NamesAssumption
  DEF PutFeedback, Goto, worldVars, daemonVars, loopVars, Posters
<1> QED
  BY <1>1, <1>2, SMTT(30)
  DEF TornOne, InHand, Stored, Holds, Hand, Waiting, Posting

LEMMA TornPersist ==
  ASSUME TypeOK, Torn, NEW p \in Posters, Persist(p)
  PROVE  Torn'
<1> SUFFICES ASSUME NEW q \in Reports PROVE TornOne(q)'
  BY DEF Torn
<1>1. TornOne(q)
  BY DEF Torn
<1>2. /\ UNCHANGED <<place, tearing, live, unwired, todo, caught>>
      /\ pc[p] = "persist" /\ pc'[p] \in {"retry", "done"}
      /\ \A o \in Posters \ {p} : pc'[o] = pc[o]
      /\ p = Loop \/ cur' = cur
      /\ q # Hand(p) => store'[q] = store[q]
  BY ShapeOf
  DEF Persist, Finish, Keep, Goto, worldVars, daemonVars, boundVars
<1>3. q = Hand(p) => InHand(q)
  BY <1>2 DEF InHand, Holds, Hand, Posting
<1> QED
  BY <1>1, <1>2, <1>3, NamesAssumption, SMTT(30)
  DEF TornOne, InHand, Stored, Holds, Hand, Waiting, Posting, Posters

LEMMA TornRetryNext ==
  ASSUME TypeOK, Torn, NEW r \in Reports, RetryNext(r)
  PROVE  Torn'
<1> SUFFICES ASSUME NEW q \in Reports PROVE TornOne(q)'
  BY DEF Torn
<1>1. TornOne(q)
  BY DEF Torn
<1>2. /\ UNCHANGED <<store, place, tearing, live, unwired, caught>>
      /\ pc'[q] = pc[q] /\ todo'[q] \in {todo[q], NoRecord} /\ cur' = r
      /\ q = r => todo[q] # NoRecord
  BY ShapeOf, NamesAssumption
  DEF RetryNext, Keep, Goto, diskVars, worldVars, daemonVars, boundVars, Posters
<1> QED
  BY <1>1, <1>2, SMTT(30)
  DEF TornOne, InHand, Stored, Holds, Hand, Waiting, Posting

LEMMA TornSweepRecord ==
  ASSUME TypeOK, Torn, SweepRecord
  PROVE  Torn'
<1> SUFFICES ASSUME NEW q \in Reports PROVE TornOne(q)'
  BY DEF Torn
<1>1. TornOne(q)
  BY DEF Torn
<1>2. /\ UNCHANGED <<place, tearing, live, unwired, caught>>
      /\ pc'[q] = pc[q] /\ pc'[Loop] = "sites"
      /\ store'[q] \in {store[q], NoRecord} /\ todo'[q] \in {todo[q], NoRecord}
  BY ShapeOf, NamesAssumption
  DEF SweepRecord, Goto, worldVars, daemonVars, boundVars, Posters
<1> QED
  BY <1>1, <1>2, SMTT(30)
  DEF TornOne, InHand, Stored, Holds, Hand, Waiting, Posting

LEMMA TornOnTeardown ==
  ASSUME TypeOK, Torn, NEW k \in Previews, OnTeardown(k)
  PROVE  Torn'
<1> SUFFICES ASSUME NEW q \in Reports PROVE TornOne(q)'
  BY DEF Torn
<1>1. TornOne(q)
  BY DEF Torn
<1>2. /\ UNCHANGED <<place, live, pc, todo, cur>>
      /\ tearing' = tearing \cup {k} /\ unwired' = unwired \ {k}
      /\ store'[q] = IF place[q] = k THEN NoRecord ELSE store[q]
      /\ q \in caught' <=> IF place[q] = k THEN InHand(q) ELSE q \in caught
  BY DEF OnTeardown, DropReports, posterVars, loopVars
<1>3. InHand(q)' <=> InHand(q)
  BY <1>2 DEF InHand, Holds, Hand
<1> QED
  BY <1>1, <1>2, <1>3, SMTT(30) DEF TornOne, Stored

\* Previews that go without onTeardown are excused, and nobody has a report in
\* hand after a restart.
LEMMA TornRestart ==
  ASSUME TypeOK, NEW q \in Reports, TornOne(q), Restart
  PROVE  TornOne(q)'
<1>1. PICK K \in SUBSET live : live' = live \ K /\ unwired' = unwired \cup K
  BY DEF Restart, TornDownUnwired
<1>2. /\ caught' = caught /\ place' = place /\ tearing' = {}
      /\ Stored(q)' <=> Stored(q)
  BY DEF Restart, diskVars, Stored
<1>3. pc'[Loop] = "idle" /\ pc'[q] \notin Waiting \cup Posting
  BY NamesAssumption, SMTT(30)
  DEF Restart, TypeOK, Posters, HandlerPCs, LoopPCs, Waiting, Posting
<1>4. todo'[q] = NoRecord
  BY DEF Restart, none
<1>5. ~InHand(q)'
  BY <1>3, <1>4, NamesAssumption DEF InHand, Holds, Posting
<1> QED
  BY <1>1, <1>2, <1>5 DEF TornOne

LEMMA TornStep ==
  ASSUME TypeOK, Torn, [Next]_vars
  PROVE  Torn'
<1> SUFFICES ASSUME NEW q \in Reports PROVE TornOne(q)'
  BY DEF Torn
<1>1. TornOne(q)
  BY DEF Torn
<1>11. ASSUME NEW r \in Reports, Receive(r) PROVE TornOne(q)'
  BY <1>11, TornReceive DEF Torn
<1>12. ASSUME NEW r \in Reports, SaveScreenshot(r) PROVE TornOne(q)'
  BY <1>1, ShapeOf, <1>12, NamesAssumption, BoundsAssumption, SMTT(30)
  DEF TornOne, InHand, Holds, Hand, Stored, Record, NoRecord, Posters, Waiting,
      Posting, HandlerPCs, LoopPCs, SaveScreenshot, Goto, vars, diskVars,
      worldVars, daemonVars, githubVars, posterVars, loopVars, boundVars
<1>13. ASSUME NEW r \in Reports, PutFeedback(r) PROVE TornOne(q)'
  BY <1>13, TornPutFeedback DEF Torn
<1>14. ASSUME NEW p \in Posters, CannotPost(p) PROVE TornOne(q)'
  BY <1>1, ShapeOf, <1>14, NamesAssumption, BoundsAssumption, SMTT(30)
  DEF TornOne, InHand, Holds, Hand, Stored, Record, NoRecord, Posters, Waiting,
      Posting, HandlerPCs, LoopPCs, CannotPost, Goto, Keep, GivenUp, vars,
      diskVars, worldVars, daemonVars, githubVars, posterVars, loopVars,
      boundVars
<1>15. ASSUME NEW p \in Posters, PostComment(p) PROVE TornOne(q)'
  BY <1>1, ShapeOf, <1>15, NamesAssumption, BoundsAssumption, SMTT(30)
  DEF TornOne, InHand, Holds, Hand, Stored, Record, NoRecord, Posters, Waiting,
      Posting, HandlerPCs, LoopPCs, PostComment, Goto, Keep, Attempted,
      Created, vars, diskVars, worldVars, daemonVars, githubVars, posterVars,
      loopVars, boundVars
<1>16. ASSUME NEW p \in Posters, FindInstallation(p) PROVE TornOne(q)'
  BY <1>1, ShapeOf, <1>16, NamesAssumption, BoundsAssumption, SMTT(30)
  DEF TornOne, InHand, Holds, Hand, Stored, Record, NoRecord, Posters, Waiting,
      Posting, HandlerPCs, LoopPCs, FindInstallation, Goto, Keep, Attempted,
      vars, diskVars, worldVars, daemonVars, githubVars, posterVars, loopVars,
      boundVars
<1>17. ASSUME NEW p \in Posters, FindByMarker(p) PROVE TornOne(q)'
  BY <1>1, ShapeOf, <1>17, NamesAssumption, BoundsAssumption, SMTT(30)
  DEF TornOne, InHand, Holds, Hand, Stored, Record, NoRecord, Posters, Waiting,
      Posting, HandlerPCs, LoopPCs, FindByMarker, Goto, Keep, Attempted, vars,
      diskVars, worldVars, daemonVars, githubVars, posterVars, loopVars,
      boundVars
<1>18. ASSUME NEW p \in Posters, CreateIssue(p) PROVE TornOne(q)'
  BY <1>1, ShapeOf, <1>18, NamesAssumption, BoundsAssumption, SMTT(30)
  DEF TornOne, InHand, Holds, Hand, Stored, Record, NoRecord, Posters, Waiting,
      Posting, HandlerPCs, LoopPCs, CreateIssue, Goto, Keep, Created, vars,
      diskVars, worldVars, daemonVars, githubVars, posterVars, loopVars,
      boundVars
<1>19. ASSUME NEW p \in Posters, Persist(p) PROVE TornOne(q)'
  BY <1>19, TornPersist DEF Torn
<1>20. CASE ListUnposted
  BY <1>1, ShapeOf, <1>20, NamesAssumption, BoundsAssumption, SMTT(30)
  DEF TornOne, InHand, Holds, Hand, Stored, Record, NoRecord, Posters, Waiting,
      Posting, HandlerPCs, LoopPCs, ListUnposted, Postable, InFlight, Goto,
      vars, diskVars, worldVars, daemonVars, githubVars, posterVars, loopVars,
      boundVars
<1>21. ASSUME NEW r \in Reports, RetryNext(r) PROVE TornOne(q)'
  BY <1>21, TornRetryNext DEF Torn
<1>22. CASE ListSites
  BY <1>1, ShapeOf, <1>22, NamesAssumption, BoundsAssumption, SMTT(30)
  DEF TornOne, InHand, Holds, Hand, Stored, Record, NoRecord, Posters, Waiting,
      Posting, HandlerPCs, LoopPCs, ListSites, none, Goto, vars, diskVars,
      worldVars, daemonVars, githubVars, posterVars, loopVars, boundVars
<1>23. ASSUME NEW r \in Reports, SweepFile(r) PROVE TornOne(q)'
  BY <1>1, ShapeOf, <1>23, NamesAssumption, BoundsAssumption, SMTT(30)
  DEF TornOne, InHand, Holds, Hand, Stored, Record, NoRecord, Posters, Waiting,
      Posting, HandlerPCs, LoopPCs, SweepFile, Goto, vars, diskVars, worldVars,
      daemonVars, githubVars, posterVars, loopVars, boundVars
<1>24. CASE SweepRecord
  BY <1>24, TornSweepRecord DEF Torn
<1>25. CASE ReadDir
  BY <1>1, ShapeOf, <1>25, NamesAssumption, BoundsAssumption, SMTT(30)
  DEF TornOne, InHand, Holds, Hand, Stored, Record, NoRecord, Posters, Waiting,
      Posting, HandlerPCs, LoopPCs, ReadDir, none, Goto, vars, diskVars,
      worldVars, daemonVars, githubVars, posterVars, loopVars, boundVars
<1>26. CASE ListCreated
  BY <1>1, ShapeOf, <1>26, NamesAssumption, BoundsAssumption, SMTT(30)
  DEF TornOne, InHand, Holds, Hand, Stored, Record, NoRecord, Posters, Waiting,
      Posting, HandlerPCs, LoopPCs, ListCreated, Stale, Goto, vars, diskVars,
      worldVars, daemonVars, githubVars, posterVars, loopVars, boundVars
<1>27. ASSUME NEW r \in Reports, RemoveFile(r) PROVE TornOne(q)'
  BY <1>1, ShapeOf, <1>27, NamesAssumption, BoundsAssumption, SMTT(30)
  DEF TornOne, InHand, Holds, Hand, Stored, Record, NoRecord, Posters, Waiting,
      Posting, HandlerPCs, LoopPCs, RemoveFile, vars, diskVars, worldVars,
      daemonVars, githubVars, posterVars, loopVars, boundVars
<1>28. CASE TickEnds
  BY <1>1, ShapeOf, <1>28, NamesAssumption, BoundsAssumption, SMTT(30)
  DEF TornOne, InHand, Holds, Hand, Stored, Record, NoRecord, Posters, Waiting,
      Posting, HandlerPCs, LoopPCs, TickEnds, Goto, vars, diskVars, worldVars,
      daemonVars, githubVars, posterVars, loopVars, boundVars
<1>29. ASSUME NEW r \in Reports, Ages(r) PROVE TornOne(q)'
  BY <1>1, ShapeOf, <1>29, NamesAssumption, BoundsAssumption, SMTT(30)
  DEF TornOne, InHand, Holds, Hand, Stored, Record, NoRecord, Posters, Waiting,
      Posting, HandlerPCs, LoopPCs, Ages, vars, diskVars, worldVars,
      daemonVars, githubVars, posterVars, loopVars, boundVars
<1>30. ASSUME NEW k \in Previews, OnTeardown(k) PROVE TornOne(q)'
  BY <1>30, TornOnTeardown DEF Torn
<1>31. ASSUME NEW k \in Previews, DeletePreview(k) PROVE TornOne(q)'
  BY <1>1, ShapeOf, <1>31, NamesAssumption, BoundsAssumption, SMTT(30)
  DEF TornOne, InHand, Holds, Hand, Stored, Record, NoRecord, Posters, Waiting,
      Posting, HandlerPCs, LoopPCs, DeletePreview, vars, diskVars, worldVars,
      daemonVars, githubVars, posterVars, loopVars, boundVars
<1>32. ASSUME NEW k \in Previews, Redeploy(k) PROVE TornOne(q)'
  BY <1>1, ShapeOf, <1>32, NamesAssumption, BoundsAssumption, SMTT(30)
  DEF TornOne, InHand, Holds, Hand, Stored, Record, NoRecord, Posters, Waiting,
      Posting, HandlerPCs, LoopPCs, Redeploy, vars, diskVars, worldVars,
      daemonVars, githubVars, posterVars, loopVars, boundVars
<1>33. CASE Restart
  BY <1>1, <1>33, TornRestart
<1>34. CASE UNCHANGED vars
  BY <1>1, ShapeOf, <1>34, NamesAssumption, BoundsAssumption, SMTT(30)
  DEF TornOne, InHand, Holds, Hand, Stored, Record, NoRecord, Posters, Waiting,
      Posting, HandlerPCs, LoopPCs, vars, diskVars, worldVars, daemonVars,
      githubVars, posterVars, loopVars, boundVars
<1> QED
  BY <1>11, <1>12, <1>13, <1>14, <1>15, <1>16, <1>17, <1>18, <1>19, <1>20,
     <1>21, <1>22, <1>23, <1>24, <1>25, <1>26, <1>27, <1>28, <1>29, <1>30,
     <1>31, <1>32, <1>33, <1>34
  DEF Next, Environment, LoopStep, HandlerStep, PostStep, Posters

-----------------------------------------------------------------------------
(* Comments and issues, against calls.                                     *)

LEMMA LandedPutFeedback ==
  ASSUME TypeOK, Landed, Counted, NEW r \in Reports, PutFeedback(r)
  PROVE  Landed'
<1> SUFFICES ASSUME NEW q \in Reports PROVE LandedOne(q)'
  BY DEF Landed
<1>1. LandedOne(q) /\ CountedOne(q)
  BY DEF Landed, Counted
<1>2. UNCHANGED <<calls, landed, cur, todo>> /\ pc'[Loop] = pc[Loop]
  BY ShapeOf, NamesAssumption
  DEF PutFeedback, Goto, githubVars, loopVars, Posters
<1>3. CASE q = r
  <2>1. \/ pc'[q] = "post" /\ q \in accepted'
        \/ pc'[q] = "refused" /\ UNCHANGED <<store, accepted>>
    BY <1>3, ShapeOf DEF PutFeedback, Goto, Posters
  <2>2. pc[q] = "put"
    BY <1>3 DEF PutFeedback
  <2> QED
    BY <1>1, <1>2, <2>1, <2>2, SMTT(30)
    DEF LandedOne, CountedOne, NotYet, Waiting, Stored, Holds, Hand, Posting
<1>4. CASE q # r
  <2>1. /\ pc'[q] = pc[q] /\ store'[q] = store[q]
        /\ q \in accepted => q \in accepted'
    BY <1>4, ShapeOf DEF PutFeedback, Goto, Posters
  <2> QED
    BY <1>1, <1>2, <2>1, SMTT(30) DEF LandedOne, Stored, Holds, Hand, Posting
<1> QED
  BY <1>3, <1>4

LEMMA LandedPersist ==
  ASSUME TypeOK, Landed, Counted, NEW p \in Posters, Persist(p)
  PROVE  Landed'
<1> SUFFICES ASSUME NEW q \in Reports PROVE LandedOne(q)'
  BY DEF Landed
<1>1. LandedOne(q)
  BY DEF Landed
<1>2. /\ UNCHANGED <<calls, landed, todo, accepted>> /\ pc[p] = "persist"
      /\ pc'[p] \in {"retry", "done"} /\ cur' \in {Loop, cur}
      /\ p = Loop \/ cur' = cur
      /\ \A o \in Posters \ {p} : pc'[o] = pc[o]
      /\ q # Hand(p) => store'[q] = store[q]
  BY ShapeOf DEF Persist, Finish, Keep, Goto, githubVars, boundVars
<1>3. q = Hand(p) => q \in accepted
  BY <1>1, <1>2 DEF LandedOne, Holds, Hand, Posting
<1> QED
  BY <1>1, <1>2, <1>3, NamesAssumption, SMTT(30)
  DEF LandedOne, Stored, Holds, Hand, Posting, Posters

LEMMA LandedRetryNext ==
  ASSUME TypeOK, Landed, Counted, NEW r \in Reports, RetryNext(r)
  PROVE  Landed'
<1> SUFFICES ASSUME NEW q \in Reports PROVE LandedOne(q)'
  BY DEF Landed
<1>1. LandedOne(q)
  BY DEF Landed
<1>2. /\ UNCHANGED <<calls, landed, store, accepted>> /\ pc'[q] = pc[q]
      /\ pc'[Loop] = "post" /\ cur' = r
      /\ todo[r] # NoRecord /\ todo'[q] \in {todo[q], NoRecord}
  BY ShapeOf, NamesAssumption
  DEF RetryNext, Keep, Goto, githubVars, boundVars, diskVars, Posters
<1>3. LandedOne(r)
  BY DEF Landed
<1> QED
  BY <1>1, <1>2, <1>3, SMTT(30), ShapeOf
  DEF LandedOne, Stored, Holds, Hand, Posting, Posters

LEMMA LandedListSites ==
  ASSUME TypeOK, Landed, Counted, ListSites
  PROVE  Landed'
<1> SUFFICES ASSUME NEW q \in Reports PROVE LandedOne(q)'
  BY DEF Landed
<1>1. LandedOne(q)
  BY DEF Landed
<1>2. /\ UNCHANGED <<calls, landed, store, accepted, cur>> /\ pc'[q] = pc[q]
      /\ pc'[Loop] = "sites" /\ todo'[q] \in {store[q], NoRecord}
  BY ShapeOf, NamesAssumption
  DEF ListSites, Goto, githubVars, boundVars, diskVars, Posters
<1> QED
  BY <1>1, <1>2, SMTT(30), ShapeOf DEF LandedOne, Stored, Holds, Hand, Posting

LEMMA LandedSweepRecord ==
  ASSUME TypeOK, Landed, Counted, SweepRecord
  PROVE  Landed'
<1> SUFFICES ASSUME NEW q \in Reports PROVE LandedOne(q)'
  BY DEF Landed
<1>1. LandedOne(q)
  BY DEF Landed
<1>2. /\ UNCHANGED <<calls, landed, accepted>> /\ pc'[q] = pc[q]
      /\ pc'[Loop] = "sites" /\ cur' = Loop
      /\ store'[q] \in {store[q], NoRecord} /\ todo'[q] \in {todo[q], NoRecord}
  BY ShapeOf, NamesAssumption
  DEF SweepRecord, Goto, githubVars, boundVars, Posters
<1> QED
  BY <1>1, <1>2, SMTT(30), ShapeOf DEF LandedOne, Stored, Holds, Hand, Posting

LEMMA LandedOnTeardown ==
  ASSUME TypeOK, Landed, Counted, NEW k \in Previews, OnTeardown(k)
  PROVE  Landed'
<1> SUFFICES ASSUME NEW q \in Reports PROVE LandedOne(q)'
  BY DEF Landed
<1>1. LandedOne(q)
  BY DEF Landed
<1>2. /\ UNCHANGED <<calls, landed, accepted, pc, cur, todo>>
      /\ store'[q] \in {store[q], NoRecord}
  BY ShapeOf DEF OnTeardown, DropReports, githubVars, posterVars, loopVars
<1> QED
  BY <1>1, <1>2, SMTT(30), ShapeOf DEF LandedOne, Stored, Holds, Hand, Posting

LEMMA LandedStep ==
  ASSUME TypeOK, Counted, Landed, [Next]_vars
  PROVE  Landed'
<1> SUFFICES ASSUME NEW q \in Reports PROVE LandedOne(q)'
  BY DEF Landed
<1>1. LandedOne(q) /\ CountedOne(q)
  BY DEF Landed, Counted
<1>11. ASSUME NEW r \in Reports, Receive(r) PROVE LandedOne(q)'
  BY <1>1, ShapeOf, <1>11, NamesAssumption, BoundsAssumption, SMTT(30)
  DEF LandedOne, CountedOne, NotYet, Holds, Hand, Stored, Called, Record,
      NoRecord, Posters, Waiting, Posting, HandlerPCs, LoopPCs, Receive, Goto,
      vars, diskVars, worldVars, daemonVars, githubVars, posterVars, loopVars,
      boundVars
<1>12. ASSUME NEW r \in Reports, SaveScreenshot(r) PROVE LandedOne(q)'
  BY <1>1, ShapeOf, <1>12, NamesAssumption, BoundsAssumption, SMTT(30)
  DEF LandedOne, CountedOne, NotYet, Holds, Hand, Stored, Called, Record,
      NoRecord, Posters, Waiting, Posting, HandlerPCs, LoopPCs, SaveScreenshot,
      Goto, vars, diskVars, worldVars, daemonVars, githubVars, posterVars,
      loopVars, boundVars
<1>13. ASSUME NEW r \in Reports, PutFeedback(r) PROVE LandedOne(q)'
  BY <1>13, LandedPutFeedback DEF Landed
<1>14. ASSUME NEW p \in Posters, CannotPost(p) PROVE LandedOne(q)'
  BY <1>1, ShapeOf, <1>14, NamesAssumption, BoundsAssumption, SMTT(30)
  DEF LandedOne, CountedOne, NotYet, Holds, Hand, Stored, Called, Record,
      NoRecord, Posters, Waiting, Posting, HandlerPCs, LoopPCs, CannotPost,
      Goto, Keep, GivenUp, vars, diskVars, worldVars, daemonVars, githubVars,
      posterVars, loopVars, boundVars
<1>15. ASSUME NEW p \in Posters, PostComment(p) PROVE LandedOne(q)'
  BY <1>1, ShapeOf, <1>15, NamesAssumption, BoundsAssumption, SMTT(30)
  DEF LandedOne, CountedOne, NotYet, Holds, Hand, Stored, Called, Record,
      NoRecord, Posters, Waiting, Posting, HandlerPCs, LoopPCs, PostComment,
      Goto, Keep, Attempted, Created, vars, diskVars, worldVars, daemonVars,
      githubVars, posterVars, loopVars, boundVars
<1>16. ASSUME NEW p \in Posters, FindInstallation(p) PROVE LandedOne(q)'
  BY <1>1, ShapeOf, <1>16, NamesAssumption, BoundsAssumption, SMTT(30)
  DEF LandedOne, CountedOne, NotYet, Holds, Hand, Stored, Called, Record,
      NoRecord, Posters, Waiting, Posting, HandlerPCs, LoopPCs,
      FindInstallation, Goto, Keep, Attempted, vars, diskVars, worldVars,
      daemonVars, githubVars, posterVars, loopVars, boundVars
<1>17. ASSUME NEW p \in Posters, FindByMarker(p) PROVE LandedOne(q)'
  BY <1>1, ShapeOf, <1>17, NamesAssumption, BoundsAssumption, SMTT(30)
  DEF LandedOne, CountedOne, NotYet, Holds, Hand, Stored, Called, Record,
      NoRecord, Posters, Waiting, Posting, HandlerPCs, LoopPCs, FindByMarker,
      Goto, Keep, Attempted, vars, diskVars, worldVars, daemonVars, githubVars,
      posterVars, loopVars, boundVars
<1>18. ASSUME NEW p \in Posters, CreateIssue(p) PROVE LandedOne(q)'
  BY <1>1, ShapeOf, <1>18, NamesAssumption, BoundsAssumption, SMTT(30)
  DEF LandedOne, CountedOne, NotYet, Holds, Hand, Stored, Called, Record,
      NoRecord, Posters, Waiting, Posting, HandlerPCs, LoopPCs, CreateIssue,
      Goto, Keep, Created, vars, diskVars, worldVars, daemonVars, githubVars,
      posterVars, loopVars, boundVars
<1>19. ASSUME NEW p \in Posters, Persist(p) PROVE LandedOne(q)'
  BY <1>19, LandedPersist DEF Landed
<1>20. CASE ListUnposted
  BY <1>1, ShapeOf, <1>20, NamesAssumption, BoundsAssumption, SMTT(30)
  DEF LandedOne, CountedOne, NotYet, Holds, Hand, Stored, Called, Record,
      NoRecord, Posters, Waiting, Posting, HandlerPCs, LoopPCs, ListUnposted,
      Postable, InFlight, Goto, vars, diskVars, worldVars, daemonVars,
      githubVars, posterVars, loopVars, boundVars
<1>21. ASSUME NEW r \in Reports, RetryNext(r) PROVE LandedOne(q)'
  BY <1>21, LandedRetryNext DEF Landed
<1>22. CASE ListSites
  BY <1>22, LandedListSites DEF Landed
<1>23. ASSUME NEW r \in Reports, SweepFile(r) PROVE LandedOne(q)'
  BY <1>1, ShapeOf, <1>23, NamesAssumption, BoundsAssumption, SMTT(30)
  DEF LandedOne, CountedOne, NotYet, Holds, Hand, Stored, Called, Record,
      NoRecord, Posters, Waiting, Posting, HandlerPCs, LoopPCs, SweepFile,
      Goto, vars, diskVars, worldVars, daemonVars, githubVars, posterVars,
      loopVars, boundVars
<1>24. CASE SweepRecord
  BY <1>24, LandedSweepRecord DEF Landed
<1>25. CASE ReadDir
  BY <1>1, ShapeOf, <1>25, NamesAssumption, BoundsAssumption, SMTT(30)
  DEF LandedOne, CountedOne, NotYet, Holds, Hand, Stored, Called, Record,
      NoRecord, Posters, Waiting, Posting, HandlerPCs, LoopPCs, ReadDir, none,
      Goto, vars, diskVars, worldVars, daemonVars, githubVars, posterVars,
      loopVars, boundVars
<1>26. CASE ListCreated
  BY <1>1, ShapeOf, <1>26, NamesAssumption, BoundsAssumption, SMTT(30)
  DEF LandedOne, CountedOne, NotYet, Holds, Hand, Stored, Called, Record,
      NoRecord, Posters, Waiting, Posting, HandlerPCs, LoopPCs, ListCreated,
      Stale, Goto, vars, diskVars, worldVars, daemonVars, githubVars,
      posterVars, loopVars, boundVars
<1>27. ASSUME NEW r \in Reports, RemoveFile(r) PROVE LandedOne(q)'
  BY <1>1, ShapeOf, <1>27, NamesAssumption, BoundsAssumption, SMTT(30)
  DEF LandedOne, CountedOne, NotYet, Holds, Hand, Stored, Called, Record,
      NoRecord, Posters, Waiting, Posting, HandlerPCs, LoopPCs, RemoveFile,
      vars, diskVars, worldVars, daemonVars, githubVars, posterVars, loopVars,
      boundVars
<1>28. CASE TickEnds
  BY <1>1, ShapeOf, <1>28, NamesAssumption, BoundsAssumption, SMTT(30)
  DEF LandedOne, CountedOne, NotYet, Holds, Hand, Stored, Called, Record,
      NoRecord, Posters, Waiting, Posting, HandlerPCs, LoopPCs, TickEnds, Goto,
      vars, diskVars, worldVars, daemonVars, githubVars, posterVars, loopVars,
      boundVars
<1>29. ASSUME NEW r \in Reports, Ages(r) PROVE LandedOne(q)'
  BY <1>1, ShapeOf, <1>29, NamesAssumption, BoundsAssumption, SMTT(30)
  DEF LandedOne, CountedOne, NotYet, Holds, Hand, Stored, Called, Record,
      NoRecord, Posters, Waiting, Posting, HandlerPCs, LoopPCs, Ages, vars,
      diskVars, worldVars, daemonVars, githubVars, posterVars, loopVars,
      boundVars
<1>30. ASSUME NEW k \in Previews, OnTeardown(k) PROVE LandedOne(q)'
  BY <1>30, LandedOnTeardown DEF Landed
<1>31. ASSUME NEW k \in Previews, DeletePreview(k) PROVE LandedOne(q)'
  BY <1>1, ShapeOf, <1>31, NamesAssumption, BoundsAssumption, SMTT(30)
  DEF LandedOne, CountedOne, NotYet, Holds, Hand, Stored, Called, Record,
      NoRecord, Posters, Waiting, Posting, HandlerPCs, LoopPCs, DeletePreview,
      vars, diskVars, worldVars, daemonVars, githubVars, posterVars, loopVars,
      boundVars
<1>32. ASSUME NEW k \in Previews, Redeploy(k) PROVE LandedOne(q)'
  BY <1>1, ShapeOf, <1>32, NamesAssumption, BoundsAssumption, SMTT(30)
  DEF LandedOne, CountedOne, NotYet, Holds, Hand, Stored, Called, Record,
      NoRecord, Posters, Waiting, Posting, HandlerPCs, LoopPCs, Redeploy, vars,
      diskVars, worldVars, daemonVars, githubVars, posterVars, loopVars,
      boundVars
<1>33. CASE Restart
  BY <1>1, ShapeOf, <1>33, NamesAssumption, BoundsAssumption, SMTT(30)
  DEF LandedOne, CountedOne, NotYet, Holds, Hand, Stored, Called, Record,
      NoRecord, Posters, Waiting, Posting, HandlerPCs, LoopPCs, Restart, none,
      vars, diskVars, worldVars, daemonVars, githubVars, posterVars, loopVars,
      boundVars
<1>34. CASE UNCHANGED vars
  BY <1>1, ShapeOf, <1>34, NamesAssumption, BoundsAssumption, SMTT(30)
  DEF LandedOne, CountedOne, NotYet, Holds, Hand, Stored, Called, Record,
      NoRecord, Posters, Waiting, Posting, HandlerPCs, LoopPCs, vars, diskVars,
      worldVars, daemonVars, githubVars, posterVars, loopVars, boundVars
<1> QED
  BY <1>11, <1>12, <1>13, <1>14, <1>15, <1>16, <1>17, <1>18, <1>19, <1>20,
     <1>21, <1>22, <1>23, <1>24, <1>25, <1>26, <1>27, <1>28, <1>29, <1>30,
     <1>31, <1>32, <1>33, <1>34
  DEF Next, Environment, LoopStep, HandlerStep, PostStep, Posters

-----------------------------------------------------------------------------
(* Comments and issues that were made twice.                               *)

\* A report has one place, a preview or a site.
LEMMA PlaceOf ==
  ASSUME TypeOK
  PROVE  /\ place \in [Reports -> Previews \cup Sites] /\ sites \subseteq Sites
         /\ unheard \in [Reports -> Nat] /\ Previews \cap Sites = {}
BY NamesAssumption DEF TypeOK

\* Two things are a finite set.
LEMMA PairFinite == ASSUME NEW a, NEW b PROVE IsFiniteSet({a, b})
<1>1. IsFiniteSet({a}) /\ IsFiniteSet({b})
  BY FS_Singleton
<1>2. IsFiniteSet({a} \cup {b})
  BY <1>1, FS_Union
<1>3. {a, b} = {a} \cup {b}
  OBVIOUS
<1> QED BY <1>2, <1>3

\* A stored report goes on to its comment, or is refused.
LEMMA CausePutFeedback ==
  ASSUME TypeOK, Counted, Landed, Cause, NEW r \in Reports, PutFeedback(r)
  PROVE  Cause'
<1> SUFFICES ASSUME NEW q \in Reports PROVE CauseOne(q)'
  BY DEF Cause
<1>1. CauseOne(q) /\ CountedOne(q)
  BY DEF Cause, Counted
<1>2. /\ UNCHANGED <<landed, unheard, laps, cur, todo, place, copy>>
      /\ pc'[Loop] = pc[Loop]
  BY ShapeOf, NamesAssumption
  DEF PutFeedback, Goto, githubVars, loopVars, worldVars, Posters
<1>3. CASE q = r
  <2>1. pc[q] = "put" /\ pc'[q] \in {"post", "refused"}
    BY <1>3, ShapeOf DEF PutFeedback, Goto, Posters
  <2> QED
    BY <1>1, <1>2, <2>1, SMTT(30)
    DEF CauseOne, Unsaid, Unheard, Heard, Ahead, Called, One, NotYet, Waiting,
        Posting, Stored, Holds, Hand
<1>4. CASE q # r
  <2>1. pc'[q] = pc[q] /\ store'[q] = store[q]
    BY <1>4, ShapeOf DEF PutFeedback, Goto, Posters
  <2> QED
    BY <1>1, <1>2, <2>1, SMTT(30)
    DEF CauseOne, Unsaid, Unheard, Heard, Ahead, Called, One, NotYet, Waiting,
        Posting, Stored, Holds, Hand
<1> QED
  BY <1>3, <1>4

\* A comment: made and heard of, made and not heard of, or not made.
LEMMA CausePostComment ==
  ASSUME TypeOK, Counted, Landed, Cause, NEW p \in Posters, PostComment(p)
  PROVE  Cause'
<1> SUFFICES ASSUME NEW q \in Reports PROVE CauseOne(q)'
  BY DEF Cause
<1>1. CauseOne(q) /\ CountedOne(q)
  BY DEF Cause, Counted
<1>2. /\ UNCHANGED <<laps, cur, todo, place, store>> /\ pc[p] = "post"
      /\ pc'[p] = "persist" /\ Hand(p) \in Reports /\ place[Hand(p)] \in Previews
      /\ \A o \in Posters \ {p} : pc'[o] = pc[o] /\ copy'[o] = copy[o]
      /\ q \in Posters /\ q # Loop /\ Loop \in Posters
  BY ShapeOf, HandType, NamesAssumption
  DEF PostComment, Keep, Goto, diskVars, loopVars, worldVars, boundVars,
      Posters, TypeOK, Hand, Posting
<1>3. CASE q = Hand(p)
  <2>1. PICK a \in Answers :
          Created(q, a)
            /\ Keep(p, [Attempted(copy[p]) EXCEPT !.posted = (a = "ok")], "persist")
    BY <1>3 DEF PostComment
  <2>2. copy'[p].posted <=> a = "ok"
    <3>1. copy'[p] = [Attempted(copy[p]) EXCEPT !.posted = (a = "ok")]
      BY <2>1, ShapeOf DEF Keep
    <3>2. copy[p] \in Record
      BY <1>2 DEF TypeOK, Posting
    <3> QED BY <3>1, <3>2 DEF Attempted, Record
  <2>3. /\ landed'[q] - unheard'[q]
             = landed[q] - unheard[q] + One(a = "ok")
        /\ landed'[q] \in Nat /\ unheard'[q] \in Nat
    BY <2>1, ShapeOf, PlaceOf, SMTT(30) DEF Created, Answers, One
  <2>4. laps[q] \in Nat /\ landed[q] \in Nat /\ unheard[q] \in Nat
    BY ShapeOf, PlaceOf, BoundsAssumption
  <2>5. CASE p = q
    BY <1>1, <1>2, <1>3, <2>2, <2>3, <2>4, <2>5, PlaceOf, SMTT(30)
    DEF CauseOne, Unsaid, Unheard, Heard, Ahead, Called, One, NotYet, Waiting,
        Posting, Stored, Holds, Hand
  <2>6. CASE p = Loop
    BY <1>1, <1>2, <1>3, <2>2, <2>3, <2>4, <2>6, PlaceOf, SMTT(30)
    DEF CauseOne, Unsaid, Unheard, Heard, Ahead, Called, One, NotYet, Waiting,
        Posting, Stored, Holds, Hand, CountedOne
  <2> QED
    BY <1>3, <2>5, <2>6 DEF Hand
<1>4. CASE q # Hand(p)
  <2>1. landed'[q] = landed[q] /\ unheard'[q] = unheard[q]
    BY <1>4, <1>2, ShapeOf, PlaceOf DEF PostComment, Created
  <2> QED
    BY <1>1, <1>2, <1>4, <2>1, SMTT(30)
    DEF CauseOne, Unsaid, Unheard, Heard, Ahead, Called, One, NotYet, Waiting,
        Posting, Stored, Holds, Hand
<1> QED
  BY <1>3, <1>4

\* Who looks for the marker before there is an issue may create one.
LEMMA CauseFindByMarker ==
  ASSUME TypeOK, Counted, Landed, Cause, NEW p \in Posters, FindByMarker(p)
  PROVE  Cause'
<1> SUFFICES ASSUME NEW q \in Reports PROVE CauseOne(q)'
  BY DEF Cause
<1>1. CauseOne(q) /\ CountedOne(q)
  BY DEF Cause, Counted
<1>2. /\ UNCHANGED <<laps, cur, todo, place, store, landed, unheard>> /\ pc[p] = "find"
      /\ pc'[p] \in {"create", "persist"} /\ Hand(p) \in Reports
      /\ pc'[p] = "create" => landed[Hand(p)] = 0 \/ ~MarkerFound(Hand(p))
      /\ \A o \in Posters \ {p} : pc'[o] = pc[o] /\ copy'[o] = copy[o]
      /\ q \in Posters /\ q # Loop /\ Loop \in Posters
  BY ShapeOf, HandType, NamesAssumption
  DEF FindByMarker, Keep, Goto, diskVars, loopVars, worldVars, boundVars,
      Posters, TypeOK, Hand, Posting
<1>3. landed[q] \in Nat /\ laps[q] \in Nat /\ place[q] \in Previews \cup Sites
  BY ShapeOf, PlaceOf, BoundsAssumption
<1>4. CASE q = Hand(p)
  <2>1. place[q] \notin Previews
    BY <1>1, <1>2, <1>4 DEF CauseOne, Holds, Hand, Posting
  <2> QED
    BY <1>1, <1>2, <1>3, <1>4, <2>1, SMTT(30)
    DEF CauseOne, One, Hand, MarkerFound
<1>5. CASE q # Hand(p)
  BY <1>1, <1>2, <1>5, SMTT(30)
  DEF CauseOne, Unsaid, Unheard, Heard, Ahead, Called, One, NotYet, Waiting,
      Posting, Stored, Holds, Hand
<1> QED
  BY <1>4, <1>5

\* What was posted is written down, over what the store held.
LEMMA CausePersist ==
  ASSUME TypeOK, Counted, Landed, Cause, NEW p \in Posters, Persist(p)
  PROVE  Cause'
<1> SUFFICES ASSUME NEW q \in Reports PROVE CauseOne(q)'
  BY DEF Cause
<1>1. CauseOne(q) /\ CountedOne(q) /\ LandedOne(q)
  BY DEF Cause, Counted, Landed
<1>2. /\ UNCHANGED <<laps, todo, place, landed, unheard, calls>> /\ pc[p] = "persist"
      /\ pc'[p] = (IF p = Loop THEN "retry" ELSE "done")
      /\ cur' = IF p = Loop THEN Loop ELSE cur
      /\ \A o \in Posters \ {p} : pc'[o] = pc[o] /\ copy'[o] = copy[o]
      /\ Hand(p) \in Reports /\ store'[Hand(p)] = copy[p] /\ copy[p] \in Record
      /\ q # Hand(p) => store'[q] = store[q]
      /\ q \in Posters /\ q # Loop /\ Loop \in Posters
  BY ShapeOf, HandType, NamesAssumption
  DEF Persist, Finish, Keep, Goto, githubVars, worldVars, boundVars, Posters,
      TypeOK, Hand, Posting
<1>3. /\ landed[q] \in Nat /\ unheard[q] \in Nat /\ laps[q] \in Nat
      /\ calls[q] \in Nat
  BY ShapeOf, PlaceOf, BoundsAssumption
<1>4. CASE q # Hand(p)
  BY <1>1, <1>2, <1>4, SMTT(30)
  DEF CauseOne, Unsaid, Unheard, Heard, Ahead, Called, One, NotYet, Waiting,
      Posting, Stored, Holds, Hand
<1>5. CASE q = Hand(p) /\ p = Loop
  BY <1>1, <1>2, <1>3, <1>5, SMTT(30)
  DEF CauseOne, Unsaid, Unheard, Heard, Ahead, Called, One, NotYet, Waiting,
      Posting, Stored, Holds, Hand, CountedOne
<1>6. CASE q = Hand(p) /\ p = q
  BY <1>1, <1>2, <1>3, <1>6, SMTT(30)
  DEF CauseOne, Unsaid, Unheard, Heard, Ahead, Called, One, NotYet, Waiting,
      Posting, Stored, Holds, Hand, CountedOne, LandedOne
<1> QED
  BY <1>4, <1>5, <1>6, <1>2 DEF Hand

\* Loop takes up a record it listed.
LEMMA CauseRetryNext ==
  ASSUME TypeOK, Counted, Landed, Cause, NEW r \in Reports, RetryNext(r)
  PROVE  Cause'
<1> SUFFICES ASSUME NEW q \in Reports PROVE CauseOne(q)'
  BY DEF Cause
<1>1. CauseOne(q)
  BY DEF Cause
<1>2. /\ UNCHANGED <<laps, place, landed, unheard, store>> /\ pc'[q] = pc[q]
      /\ copy'[q] = copy[q] /\ pc[Loop] = "retry" /\ pc'[Loop] = "post" /\ cur' = r
      /\ todo[r] # NoRecord /\ todo'[r] = NoRecord
      /\ q # r => todo'[q] = todo[q]
  BY ShapeOf, NamesAssumption
  DEF RetryNext, Keep, Goto, githubVars, boundVars, diskVars, worldVars,
      Posters
<1> QED
  BY <1>1, <1>2, SMTT(30)
  DEF CauseOne, Unsaid, Unheard, Heard, Ahead, Called, One, NotYet, Waiting,
      Posting, Stored, Holds, Hand

\* The retries are over: nothing is listed.
LEMMA CauseListSites ==
  ASSUME TypeOK, Counted, Landed, Cause, ListSites
  PROVE  Cause'
<1> SUFFICES ASSUME NEW q \in Reports PROVE CauseOne(q)'
  BY DEF Cause
<1>1. CauseOne(q)
  BY DEF Cause
<1>2. /\ UNCHANGED <<laps, place, landed, unheard, store, cur, copy>> /\ pc'[q] = pc[q]
      /\ pc[Loop] = "retry" /\ pc'[Loop] = "sites" /\ todo[q] = NoRecord
  BY ShapeOf, NamesAssumption
  DEF ListSites, Goto, githubVars, boundVars, diskVars, worldVars, Posters,
      none
<1> QED
  BY <1>1, <1>2, SMTT(30)
  DEF CauseOne, Unsaid, Unheard, Heard, Ahead, Called, One, NotYet, Waiting,
      Posting, Stored, Holds, Hand

\* A site's old record goes.
LEMMA CauseSweepRecord ==
  ASSUME TypeOK, Counted, Landed, Cause, SweepRecord
  PROVE  Cause'
<1> SUFFICES ASSUME NEW q \in Reports PROVE CauseOne(q)'
  BY DEF Cause
<1>1. CauseOne(q)
  BY DEF Cause
<1>2. /\ UNCHANGED <<laps, place, landed, unheard, copy>> /\ pc'[q] = pc[q]
      /\ pc[Loop] = "removeRecord" /\ pc'[Loop] = "sites"
      /\ store'[q] \in {store[q], NoRecord}
      /\ landed[q] \in Int /\ unheard[q] \in Int /\ laps[q] \in Int
  BY ShapeOf, PlaceOf, NamesAssumption, BoundsAssumption
  DEF SweepRecord, Goto, githubVars, boundVars, worldVars, Posters
<1> QED
  BY <1>1, <1>2, SMTT(30)
  DEF CauseOne, Unsaid, Unheard, Heard, Ahead, Called, One, NotYet, Waiting,
      Posting, Stored, Holds, Hand

\* A preview's records go.
LEMMA CauseOnTeardown ==
  ASSUME TypeOK, Counted, Landed, Cause, NEW k \in Previews, OnTeardown(k)
  PROVE  Cause'
<1> SUFFICES ASSUME NEW q \in Reports PROVE CauseOne(q)'
  BY DEF Cause
<1>1. CauseOne(q)
  BY DEF Cause
<1>2. /\ UNCHANGED <<laps, place, landed, unheard, copy, pc, cur, todo>>
      /\ store'[q] \in {store[q], NoRecord}
      /\ landed[q] \in Int /\ unheard[q] \in Int /\ laps[q] \in Int
  BY ShapeOf, PlaceOf, BoundsAssumption
  DEF OnTeardown, DropReports, githubVars, posterVars, loopVars, worldVars
<1> QED
  BY <1>1, <1>2, SMTT(30)
  DEF CauseOne, Unsaid, Unheard, Heard, Ahead, Called, One, NotYet, Waiting,
      Posting, Stored, Holds, Hand

\* A restart forgets what GitHub answered and nobody wrote down yet.
LEMMA CauseRestart ==
  ASSUME TypeOK, Counted, Landed, Cause, Restart
  PROVE  Cause'
<1> SUFFICES ASSUME NEW q \in Reports PROVE CauseOne(q)'
  BY DEF Cause
<1>1. CauseOne(q) /\ CountedOne(q) /\ LandedOne(q)
  BY DEF Cause, Counted, Landed
<1> DEFINE lost == {p \in Posters :
                      Holds(p, q) /\ pc[p] = "persist" /\ copy[p].posted}
           n == Cardinality(lost)
<1>2. /\ UNCHANGED <<laps, place, landed, store, calls>>
      /\ q # Loop /\ q \in Posters /\ Loop \in Posters
      /\ unheard'[q] = unheard[q] + n
  BY NamesAssumption DEF Restart, worldVars, diskVars, Posters
<1>13. /\ pc'[Loop] = "idle"
       /\ pc'[q] = (IF pc[q] \in Waiting THEN "refused"
                     ELSE IF pc[q] \in Posting THEN "done" ELSE pc[q])
  <2> HIDE DEF lost, n
  <2>1. pc' = [p \in Posters |->
                 CASE p = Loop -> "idle"
                   [] p # Loop /\ pc[p] \in Waiting -> "refused"
                   [] p # Loop /\ pc[p] \in Posting -> "done"
                   [] OTHER -> pc[p]]
    BY DEF Restart
  <2>2. Waiting \cap Posting = {}
    BY DEF Waiting, Posting
  <2> QED BY <1>2, <2>1, <2>2
<1>3. n \in Nat /\ (lost # {} => n >= 1)
  <2>1. lost \subseteq {q, Loop}
    BY DEF Holds, Hand
  <2>2. IsFiniteSet({q, Loop})
    BY PairFinite
  <2>3. IsFiniteSet(lost)
    BY <2>1, <2>2, FS_Subset
  <2> HIDE DEF lost
  <2> QED BY <2>3, FS_CardinalityType, FS_EmptySet
<1>4. pc[q] = "persist" /\ copy[q].posted => lost # {}
  <2> SUFFICES ASSUME pc[q] = "persist", copy[q].posted PROVE q \in lost
    OBVIOUS
  <2> QED BY <1>2 DEF Holds, Hand, Posting
<1>5. place[q] \in Previews /\ Heard(q) => lost # {}
  <2> SUFFICES ASSUME place[q] \in Previews, Heard(q) PROVE Loop \in lost
    OBVIOUS
  <2>1. Holds(Loop, q) /\ pc[Loop] = "persist" /\ copy[Loop].posted
    BY <1>1 DEF Heard, Called, CauseOne, Holds, Hand, Posting
  <2> QED BY <1>2, <2>1
<1> HIDE DEF lost, n
<1>6. /\ landed[q] \in Nat /\ unheard[q] \in Nat /\ laps[q] \in Nat
      /\ calls[q] \in Nat
  BY ShapeOf, PlaceOf, BoundsAssumption
<1>7. ~Unheard(q)' /\ ~Heard(q)' /\ ~Holds(Loop, q)'
  BY <1>2, <1>13 DEF Unheard, Heard, Ahead, Called, Holds, Posting
<1>8. pc'[q] \notin {"find", "create"} /\ pc'[Loop] # "create"
      /\ (pc'[q] = "done" => pc[q] = "done" \/ pc[q] \in Posting)
      /\ (pc'[q] # "done" => pc[q] # "done" /\ (Unsaid(q)' => Unsaid(q)))
  BY <1>2, <1>13, ShapeOf DEF Unsaid, NotYet, Waiting, Posting, HandlerPCs
<1>9. CASE place[q] \in Previews /\ pc'[q] # "done"
  BY <1>1, <1>2, <1>3, <1>6, <1>7, <1>8, <1>9, PlaceOf, SMTT(30) DEF CauseOne, One
<1>10. CASE place[q] \in Previews /\ pc'[q] = "done" /\ pc[q] = "done"
  BY <1>1, <1>2, <1>3, <1>5, <1>6, <1>7, <1>8, <1>10, PlaceOf, SMTT(30)
  DEF CauseOne, One, Stored
<1>11. CASE place[q] \in Previews /\ pc'[q] = "done" /\ pc[q] \in Posting
  <2>1. Unsaid(q) \/ lost # {}
    BY <1>1, <1>4, <1>11 DEF Unsaid, CauseOne, Posting
  <2>2. pc[q] # "done"
    BY <1>11 DEF Posting
  <2> QED
    BY <1>1, <1>2, <1>3, <1>6, <1>7, <1>8, <1>11, <2>1, <2>2, PlaceOf, SMTT(30)
    DEF CauseOne, One, Stored
<1>12. CASE place[q] \notin Previews
  BY <1>1, <1>2, <1>6, <1>8, <1>12, SMTT(30)
  DEF CauseOne, One, CountedOne, LandedOne, Posting
<1> QED
  BY <1>8, <1>9, <1>10, <1>11, <1>12

\* A step per action; the ones without a lemma leave the count alone.
LEMMA CauseStep ==
  ASSUME TypeOK, Counted, Landed, Cause, [Next]_vars
  PROVE  Cause'
<1> SUFFICES ASSUME NEW q \in Reports PROVE CauseOne(q)'
  BY DEF Cause
<1>1. CauseOne(q) /\ CountedOne(q) /\ LandedOne(q)
  BY DEF Cause, Landed, Counted
<1>11. ASSUME NEW r \in Reports, Receive(r) PROVE CauseOne(q)'
  BY <1>1, ShapeOf, PlaceOf, <1>11, NamesAssumption, BoundsAssumption, SMTT(30)
  DEF CauseOne, Unsaid, Unheard, Heard, Ahead, One, CountedOne, NotYet, Holds,
      Hand, Stored, Called, Record, NoRecord, Posters, Waiting, Posting,
      HandlerPCs, LoopPCs, Receive, Goto, vars, diskVars, worldVars,
      daemonVars, githubVars, posterVars, loopVars, boundVars
<1>12. ASSUME NEW r \in Reports, SaveScreenshot(r) PROVE CauseOne(q)'
  BY <1>1, ShapeOf, PlaceOf, <1>12, NamesAssumption, BoundsAssumption, SMTT(30)
  DEF CauseOne, Unsaid, Unheard, Heard, Ahead, One, CountedOne, NotYet, Holds,
      Hand, Stored, Called, Record, NoRecord, Posters, Waiting, Posting,
      HandlerPCs, LoopPCs, SaveScreenshot, Goto, vars, diskVars, worldVars,
      daemonVars, githubVars, posterVars, loopVars, boundVars
<1>13. ASSUME NEW r \in Reports, PutFeedback(r) PROVE CauseOne(q)'
  BY <1>13, CausePutFeedback DEF Cause
<1>14. ASSUME NEW p \in Posters, CannotPost(p) PROVE CauseOne(q)'
  BY <1>1, ShapeOf, PlaceOf, <1>14, NamesAssumption, BoundsAssumption, SMTT(30)
  DEF CauseOne, Unsaid, Unheard, Heard, Ahead, One, CountedOne, NotYet, Holds,
      Hand, Stored, Called, Record, NoRecord, Posters, Waiting, Posting,
      HandlerPCs, LoopPCs, CannotPost, Goto, Keep, GivenUp, vars, diskVars,
      worldVars, daemonVars, githubVars, posterVars, loopVars, boundVars
<1>15. ASSUME NEW p \in Posters, PostComment(p) PROVE CauseOne(q)'
  BY <1>15, CausePostComment DEF Cause
<1>16. ASSUME NEW p \in Posters, FindInstallation(p) PROVE CauseOne(q)'
  BY <1>1, ShapeOf, PlaceOf, <1>16, NamesAssumption, BoundsAssumption, SMTT(30)
  DEF CauseOne, Unsaid, Unheard, Heard, Ahead, One, CountedOne, NotYet, Holds,
      Hand, Stored, Called, Record, NoRecord, Posters, Waiting, Posting,
      HandlerPCs, LoopPCs, FindInstallation, Goto, Keep, Attempted, vars,
      diskVars, worldVars, daemonVars, githubVars, posterVars, loopVars,
      boundVars
<1>17. ASSUME NEW p \in Posters, FindByMarker(p) PROVE CauseOne(q)'
  BY <1>17, CauseFindByMarker DEF Cause
<1>18. ASSUME NEW p \in Posters, CreateIssue(p) PROVE CauseOne(q)'
  BY <1>1, ShapeOf, PlaceOf, <1>18, NamesAssumption, BoundsAssumption, SMTT(30)
  DEF CauseOne, Unsaid, Unheard, Heard, Ahead, One, CountedOne, NotYet, Holds,
      Hand, Stored, Called, Record, NoRecord, Posters, Waiting, Posting,
      HandlerPCs, LoopPCs, CreateIssue, Goto, Keep, Created, vars, diskVars,
      worldVars, daemonVars, githubVars, posterVars, loopVars, boundVars
<1>19. ASSUME NEW p \in Posters, Persist(p) PROVE CauseOne(q)'
  BY <1>19, CausePersist DEF Cause
<1>20. CASE ListUnposted
  BY <1>1, ShapeOf, PlaceOf, <1>20, NamesAssumption, BoundsAssumption, SMTT(30)
  DEF CauseOne, Unsaid, Unheard, Heard, Ahead, One, CountedOne, NotYet, Holds,
      Hand, Stored, Called, Record, NoRecord, Posters, Waiting, Posting,
      HandlerPCs, LoopPCs, ListUnposted, Postable, InFlight, Goto, vars,
      diskVars, worldVars, daemonVars, githubVars, posterVars, loopVars,
      boundVars
<1>21. ASSUME NEW r \in Reports, RetryNext(r) PROVE CauseOne(q)'
  BY <1>21, CauseRetryNext DEF Cause
<1>22. CASE ListSites
  BY <1>22, CauseListSites DEF Cause
<1>23. ASSUME NEW r \in Reports, SweepFile(r) PROVE CauseOne(q)'
  BY <1>1, ShapeOf, PlaceOf, <1>23, NamesAssumption, BoundsAssumption, SMTT(30)
  DEF CauseOne, Unsaid, Unheard, Heard, Ahead, One, CountedOne, NotYet, Holds,
      Hand, Stored, Called, Record, NoRecord, Posters, Waiting, Posting,
      HandlerPCs, LoopPCs, SweepFile, Goto, vars, diskVars, worldVars,
      daemonVars, githubVars, posterVars, loopVars, boundVars
<1>24. CASE SweepRecord
  BY <1>24, CauseSweepRecord DEF Cause
<1>25. CASE ReadDir
  BY <1>1, ShapeOf, PlaceOf, <1>25, NamesAssumption, BoundsAssumption, SMTT(30)
  DEF CauseOne, Unsaid, Unheard, Heard, Ahead, One, CountedOne, NotYet, Holds,
      Hand, Stored, Called, Record, NoRecord, Posters, Waiting, Posting,
      HandlerPCs, LoopPCs, ReadDir, none, Goto, vars, diskVars, worldVars,
      daemonVars, githubVars, posterVars, loopVars, boundVars
<1>26. CASE ListCreated
  BY <1>1, ShapeOf, PlaceOf, <1>26, NamesAssumption, BoundsAssumption, SMTT(30)
  DEF CauseOne, Unsaid, Unheard, Heard, Ahead, One, CountedOne, NotYet, Holds,
      Hand, Stored, Called, Record, NoRecord, Posters, Waiting, Posting,
      HandlerPCs, LoopPCs, ListCreated, Stale, Goto, vars, diskVars,
      worldVars, daemonVars, githubVars, posterVars, loopVars, boundVars
<1>27. ASSUME NEW r \in Reports, RemoveFile(r) PROVE CauseOne(q)'
  BY <1>1, ShapeOf, PlaceOf, <1>27, NamesAssumption, BoundsAssumption, SMTT(30)
  DEF CauseOne, Unsaid, Unheard, Heard, Ahead, One, CountedOne, NotYet, Holds,
      Hand, Stored, Called, Record, NoRecord, Posters, Waiting, Posting,
      HandlerPCs, LoopPCs, RemoveFile, vars, diskVars, worldVars, daemonVars,
      githubVars, posterVars, loopVars, boundVars
<1>28. CASE TickEnds
  BY <1>1, ShapeOf, PlaceOf, <1>28, NamesAssumption, BoundsAssumption, SMTT(30)
  DEF CauseOne, Unsaid, Unheard, Heard, Ahead, One, CountedOne, NotYet, Holds,
      Hand, Stored, Called, Record, NoRecord, Posters, Waiting, Posting,
      HandlerPCs, LoopPCs, TickEnds, Goto, vars, diskVars, worldVars,
      daemonVars, githubVars, posterVars, loopVars, boundVars
<1>29. ASSUME NEW r \in Reports, Ages(r) PROVE CauseOne(q)'
  BY <1>1, ShapeOf, PlaceOf, <1>29, NamesAssumption, BoundsAssumption, SMTT(30)
  DEF CauseOne, Unsaid, Unheard, Heard, Ahead, One, CountedOne, NotYet, Holds,
      Hand, Stored, Called, Record, NoRecord, Posters, Waiting, Posting,
      HandlerPCs, LoopPCs, Ages, vars, diskVars, worldVars, daemonVars,
      githubVars, posterVars, loopVars, boundVars
<1>30. ASSUME NEW k \in Previews, OnTeardown(k) PROVE CauseOne(q)'
  BY <1>30, CauseOnTeardown DEF Cause
<1>31. ASSUME NEW k \in Previews, DeletePreview(k) PROVE CauseOne(q)'
  BY <1>1, ShapeOf, PlaceOf, <1>31, NamesAssumption, BoundsAssumption, SMTT(30)
  DEF CauseOne, Unsaid, Unheard, Heard, Ahead, One, CountedOne, NotYet, Holds,
      Hand, Stored, Called, Record, NoRecord, Posters, Waiting, Posting,
      HandlerPCs, LoopPCs, DeletePreview, vars, diskVars, worldVars,
      daemonVars, githubVars, posterVars, loopVars, boundVars
<1>32. ASSUME NEW k \in Previews, Redeploy(k) PROVE CauseOne(q)'
  BY <1>1, ShapeOf, PlaceOf, <1>32, NamesAssumption, BoundsAssumption, SMTT(30)
  DEF CauseOne, Unsaid, Unheard, Heard, Ahead, One, CountedOne, NotYet, Holds,
      Hand, Stored, Called, Record, NoRecord, Posters, Waiting, Posting,
      HandlerPCs, LoopPCs, Redeploy, vars, diskVars, worldVars, daemonVars,
      githubVars, posterVars, loopVars, boundVars
<1>33. CASE Restart
  BY <1>33, CauseRestart DEF Cause
<1>34. CASE UNCHANGED vars
  BY <1>1, ShapeOf, PlaceOf, <1>34, NamesAssumption, BoundsAssumption, SMTT(30)
  DEF CauseOne, Unsaid, Unheard, Heard, Ahead, One, CountedOne, NotYet, Holds,
      Hand, Stored, Called, Record, NoRecord, Posters, Waiting, Posting,
      HandlerPCs, LoopPCs, vars, diskVars, worldVars, daemonVars, githubVars,
      posterVars, loopVars, boundVars
<1> QED
  BY <1>11, <1>12, <1>13, <1>14, <1>15, <1>16, <1>17, <1>18, <1>19, <1>20,
     <1>21, <1>22, <1>23, <1>24, <1>25, <1>26, <1>27, <1>28, <1>29, <1>30,
     <1>31, <1>32, <1>33, <1>34
  DEF Next, Environment, LoopStep, HandlerStep, PostStep, Posters

-----------------------------------------------------------------------------
(* The inductive invariant and what follows from it.                       *)

IInv == TypeOK /\ Room /\ Counted /\ Landed /\ Shots /\ Torn /\ Cause

LEMMA InitIInv == Init => IInv
<1> SUFFICES ASSUME Init PROVE IInv
  OBVIOUS
<1>1. NoRecord \in Record \cup {NoRecord} /\ ~NoRecord.shot
  BY DEF NoRecord
<1>2. /\ pc = [p \in Posters |-> IF p = Loop THEN "idle" ELSE "none"]
      /\ \A r \in Reports : r \in Posters /\ r # Loop
      /\ Loop \in Posters
  BY NamesAssumption DEF Init, Posters
<1>3. TypeOK /\ Room
  BY <1>1, <1>2, BoundsAssumption, SMTT(30)
  DEF Init, TypeOK, Room, Posters, Waiting, Posting, HandlerPCs, LoopPCs
<1>4. /\ pc[Loop] = "idle"
      /\ \A r \in Reports : /\ pc[r] = "none" /\ calls[r] = 0 /\ landed[r] = 0
                            /\ store[r] = NoRecord /\ todo[r] = NoRecord
                            /\ laps[r] = 0 /\ unheard[r] = 0
  BY <1>2 DEF Init
<1>5. Counted
  BY <1>4, BoundsAssumption, SMTT(30)
  DEF Init, Counted, CountedOne, NotYet, Waiting, Posting, Holds, Ahead, Called,
      Stored
<1>6. Landed
  BY <1>4, SMTT(30) DEF Landed, LandedOne, Stored, Holds, Posting
<1>7. Shots
  BY <1>1, <1>4, SMTT(30) DEF Shots, ShotsOne, Holds, Posting
<1>8. Torn
  BY DEF Init, Torn, TornOne
<1>9. Cause
  BY <1>4, SMTT(30)
  DEF Cause, CauseOne, Unsaid, Unheard, Heard, Ahead, Called, One, NotYet,
      Waiting, Posting, Holds, Hand
<1> QED
  BY <1>3, <1>5, <1>6, <1>7, <1>8, <1>9 DEF IInv

LEMMA NextIInv == IInv /\ [Next]_vars => IInv'
BY TypeStep, CountedStep, LandedStep, ShotsStep, TornStep, CauseStep DEF IInv

THEOREM IInvHeld == Spec => []IInv
BY InitIInv, NextIInv, PTL DEF Spec

\* Every variable keeps its type: in particular a record's count of attempts
\* stays within maxPostAttempts, which both posters may raise.
THEOREM TypeCorrect == Spec => []TypeOK
<1>1. IInv => TypeOK
  BY DEF IInv
<1> QED
  BY <1>1, IInvHeld, PTL

\* "A comment is retried at most 5 times", for any number of reports and any
\* bounds: each call of GitHub is written down in the record, or belongs to a
\* Tick that overtook the handler, or was forgotten by a restart.
THEOREM RetriedAtMostHeld == Spec => []RetriedAtMost
<1>1. IInv => RetriedAtMost
  BY DEF IInv, Counted, CountedOne, RetriedAtMost
<1> QED
  BY <1>1, IInvHeld, PTL

\* The sweep of feedback.retention never takes the screenshot of a report that
\* is younger, however requests, Ticks, teardowns and restarts interleave.
THEOREM ScreenshotKeptHeld == Spec => []ScreenshotKept
<1>1. IInv => ScreenshotKept
  BY DEF IInv, Shots, ShotsOne, ScreenshotKept
<1> QED
  BY <1>1, IInvHeld, PTL

\* "Teardown of a preview deletes its feedback records": where onTeardown is set,
\* all but those that were in somebody's hands at the preview's last teardown.
THEOREM TornDownIsGoneHeld == Spec => []TornDownIsGone
<1>1. IInv => TornDownIsGone
  BY DEF IInv, Torn, TornOne, TornDownIsGone
<1> QED
  BY <1>1, IInvHeld, PTL

\* A second issue of a report comes of a Tick that overtook its handler only,
\* however many answers are lost and daemons die; a second comment of that or of
\* an answer nobody heard.
THEOREM DuplicateHasCauseHeld == Spec => []DuplicateHasCause
<1>1. IInv => DuplicateHasCause
  <2> SUFFICES ASSUME IInv, NEW r \in Reports
               PROVE  landed[r] <= 1 + laps[r]
                        + IF place[r] \in Previews THEN unheard[r] ELSE 0
    BY DEF DuplicateHasCause
  <2>1. CauseOne(r) /\ CountedOne(r) /\ LandedOne(r)
    BY DEF IInv, Cause, Counted, Landed
  <2>2. /\ landed[r] \in Nat /\ unheard[r] \in Nat /\ laps[r] \in Nat
        /\ calls[r] \in Nat /\ place[r] \in Previews \cup Sites
    BY ShapeOf, PlaceOf, BoundsAssumption DEF IInv
  <2>3. pc[r] \in NotYet \cup Posting \cup {"done"}
    BY ShapeOf DEF IInv, HandlerPCs, NotYet, Waiting, Posting
  <2>4. CASE place[r] \in Previews
    BY <2>1, <2>2, <2>4, SMTT(30) DEF CauseOne, One
  <2>5. CASE place[r] \notin Previews
    BY <2>1, <2>2, <2>3, <2>5, SMTT(30)
    DEF CauseOne, CountedOne, LandedOne, One
  <2> QED BY <2>4, <2>5
<1> QED
  BY <1>1, IInvHeld, PTL

-----------------------------------------------------------------------------
(* FeedbackTick implements Outbox.                                         *)

Budget == maxPostAttempts + Laps + MaxRestarts

LEMMA BudgetLeft ==
  ASSUME IInv, IInv', NEW r \in Reports, calls' = [calls EXCEPT ![r] = @ + 1]
  PROVE  calls[r] < Budget
<1>1. calls'[r] = calls[r] + 1 /\ calls[r] \in Nat
  BY DEF IInv, TypeOK
<1>2. calls'[r] <= maxPostAttempts + Laps + restarts'
  BY DEF IInv, Counted, CountedOne
<1>3. restarts' \in 0 .. MaxRestarts
  BY DEF IInv, TypeOK
<1> QED
  BY <1>1, <1>2, <1>3, BoundsAssumption DEF Budget

LEMMA AcceptStep ==
  ASSUME IInv, NEW r \in Reports, PutFeedback(r)
  PROVE  [Promise!ONext]_(Promise!ovars)
<1>1. r \notin accepted
  BY DEF IInv, Counted, CountedOne, NotYet, Waiting, PutFeedback
<1>2. UNCHANGED <<calls, landed>>
  BY DEF PutFeedback, githubVars
<1>3. CASE UNCHANGED accepted
  BY <1>2, <1>3 DEF Promise!ovars
<1>4. CASE accepted' = accepted \cup {r}
  BY <1>1, <1>2, <1>4 DEF Promise!ONext, Promise!Accept
<1> QED
  BY <1>3, <1>4 DEF PutFeedback

LEMMA CommentStep ==
  ASSUME IInv, IInv', NEW p \in Posters, PostComment(p)
  PROVE  Promise!ONext
<1> DEFINE r == Hand(p)
<1>1. r \in Reports /\ Holds(p, r)
  BY HandType DEF IInv, PostComment, Posting, Holds
<1>2. r \in accepted
  BY <1>1 DEF IInv, Landed, LandedOne, Holds, Hand
<1>3. calls' = [calls EXCEPT ![r] = @ + 1] /\ UNCHANGED accepted
  BY DEF PostComment, boundVars
<1>4. calls[r] < Budget
  BY <1>1, <1>3, BudgetLeft
<1>5. landed' = [landed EXCEPT ![r] = @ + 1] \/ UNCHANGED landed
  BY DEF PostComment, Created
<1> QED
  BY <1>1, <1>2, <1>3, <1>4, <1>5 DEF Promise!ONext, Promise!Attempt, Budget

LEMMA FindStep ==
  ASSUME IInv, IInv', NEW p \in Posters, FindByMarker(p)
  PROVE  Promise!ONext
<1> DEFINE r == Hand(p)
<1>1. r \in Reports /\ Holds(p, r)
  BY HandType DEF IInv, FindByMarker, Posting, Holds
<1>2. r \in accepted
  BY <1>1 DEF IInv, Landed, LandedOne, Holds, Hand
<1>3. calls' = [calls EXCEPT ![r] = @ + 1] /\ UNCHANGED <<accepted, landed>>
  BY DEF FindByMarker, boundVars
<1>4. calls[r] < Budget
  BY <1>1, <1>3, BudgetLeft
<1> QED
  BY <1>1, <1>2, <1>3, <1>4 DEF Promise!ONext, Promise!Attempt, Budget

LEMMA CreateStep ==
  ASSUME IInv, NEW p \in Posters, CreateIssue(p)
  PROVE  [Promise!ONext]_(Promise!ovars)
<1> DEFINE r == Hand(p)
<1>1. r \in Reports /\ Holds(p, r) /\ pc[p] = "create"
  BY HandType DEF IInv, CreateIssue, Posting, Holds
<1>2. r \in accepted
  BY <1>1 DEF IInv, Landed, LandedOne, Holds, Hand
<1>3. landed[r] < calls[r]
  <2>1. LandedOne(r) /\ landed[r] \in Nat /\ calls[r] \in Nat
    BY <1>1 DEF IInv, Landed, TypeOK
  <2> QED
    BY <1>1, <2>1, SMTT(30) DEF LandedOne, Hand
<1>4. UNCHANGED <<accepted, calls>>
  BY DEF CreateIssue, boundVars
<1>5. landed' = [landed EXCEPT ![r] = @ + 1] \/ UNCHANGED landed
  BY DEF CreateIssue, Created
<1> QED
  BY <1>1, <1>2, <1>3, <1>4, <1>5 DEF Promise!ONext, Promise!Land, Promise!ovars

\* Every other step leaves what the promise speaks of as it was.
LEMMA OtherStep ==
  ASSUME IInv, Next \/ UNCHANGED vars,
         \A r \in Reports : ~PutFeedback(r),
         \A p \in Posters : ~PostComment(p) /\ ~FindByMarker(p) /\ ~CreateIssue(p)
  PROVE  UNCHANGED Promise!ovars
<1>1. ASSUME NEW p \in Posters, PostStep(p)
      PROVE  UNCHANGED <<accepted, calls, landed>>
  BY <1>1 DEF PostStep, CannotPost, FindInstallation, Persist, Finish,
     githubVars, boundVars
<1>2. ASSUME NEW r \in Reports, HandlerStep(r)
      PROVE  UNCHANGED <<accepted, calls, landed>>
  BY <1>1, <1>2 DEF HandlerStep, SaveScreenshot, githubVars, boundVars, Posters
<1>3. ASSUME LoopStep
      PROVE  UNCHANGED <<accepted, calls, landed>>
  BY <1>1, <1>3
  DEF LoopStep, ListUnposted, ListSites, SweepRecord, ReadDir, ListCreated,
      TickEnds, RetryNext, SweepFile, RemoveFile, githubVars, boundVars, Posters
<1>4. ASSUME Environment
      PROVE  UNCHANGED <<accepted, calls, landed>>
  BY <1>4
  DEF Environment, Restart, Receive, Ages, OnTeardown, DeletePreview, Redeploy,
      githubVars, boundVars
<1>5. CASE UNCHANGED vars
  BY <1>5 DEF vars, githubVars, boundVars, Promise!ovars
<1> QED
  BY <1>2, <1>3, <1>4, <1>5 DEF Next, Promise!ovars

\* FeedbackTick implements Outbox: GitHub hears of a report only once it is on
\* record, is asked a bounded number of times, and holds no more comments or
\* issues than it was asked for.
THEOREM OutboxImplemented == Spec => OutboxKept
<1>1. Init => Promise!OInit
  BY DEF Init, Promise!OInit
<1>2. IInv /\ IInv' /\ [Next]_vars => [Promise!ONext]_(Promise!ovars)
  BY AcceptStep, CommentStep, FindStep, CreateStep, OtherStep
<1> QED
  BY <1>1, <1>2, IInvHeld, PTL DEF Spec, OutboxKept, Promise!OSpec
=============================================================================
