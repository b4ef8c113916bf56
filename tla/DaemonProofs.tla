---------------------------- MODULE DaemonProofs ----------------------------
(***************************************************************************)
(* What setup leaves in its two files and what prevly status answers, for  *)
(* any number of Apps, starts and deaths of the daemon.  And the daemon as *)
(* a whole runs the process of Setup, handles the webhooks of PullRequests *)
(* and asks the limiter, and touches none of them otherwise: what is shown *)
(* of each holds of the daemon, the types included.                        *)
(***************************************************************************)
EXTENDS Daemon, DoorProofs

-----------------------------------------------------------------------------
(* The process by itself: the files of setup.                              *)

Typed ==
  /\ setups \in Nat /\ done \in BOOLEAN /\ phase \in Phases
  /\ keyFile \in File /\ credsFile \in File
  /\ asked \in [Apps -> Nat]
  /\ cb \in [Apps -> {"none", "redirect", "over"} \cup InFlight]
  /\ loaded \in [creds : File \cup {"pinned"}, key : File \cup {"pinned"}]

\* An App is created once, by a handler that was made.
Created ==
  /\ \A a \in Apps : (cb[a] = "none" => asked[a] = 0) /\ asked[a] <= setups
  /\ phase = "setup" => setups # 0

\* A callback in flight is one of the handler of this life.
Current ==
  \A a \in Apps : cb[a] \in InFlight =>
    /\ asked[a] = setups /\ setups # 0 /\ phase \notin {"down", "start"}
    /\ phase = "load" => done

\* How far the files are when a callback is.
Written ==
  \A a \in Apps :
    /\ cb[a] \in {"key", "keyOpen", "creds"} => credsFile = "absent"
    /\ cb[a] \in {"creds", "credsOpen", "page"} => keyFile = a
    /\ cb[a] = "credsOpen" => credsFile = "torn"
    /\ cb[a] = "page" => credsFile = a

\* The App of this handler that is past its first file.
Past(a) == asked[a] = setups /\ cb[a] \in {"credsOpen", "page", "over"}

NotYet == phase = "setup" => credsFile = "absent" \/ \E a \in Apps : Past(a)

AtRest ==
  (\A a \in Apps : cb[a] \notin Saving)
    => credsFile \in {"absent", "torn"} \/ keyFile = credsFile

Finished ==
  done => setups # 0 /\ \E a \in Apps : asked[a] = setups /\ cb[a] = "over"

HalfLoaded ==
  phase = "loadKey" =>
    /\ \A a \in Apps : cb[a] \notin InFlight
    /\ credsFile \in Apps /\ loaded.creds = credsFile

Loaded ==
  phase \in {"open", "app", "serve", "normal"} => loaded.creds = loaded.key

\* None of it is promised once two Apps were created in one start.
OneApp == Written /\ NotYet /\ AtRest /\ Finished /\ HalfLoaded /\ Loaded

IInv == Typed /\ Created /\ Current /\ (Crowded \/ OneApp)

USE DEF InFlight, Saving, Phases, Nobody, File

\* Nothing is configured, created or loaded yet.
LEMMA InitIInv == LifeInit => IInv
<1> SUFFICES ASSUME LifeInit PROVE IInv OBVIOUS
<1>1. Typed BY DEF LifeInit, Typed
<1>2. Created /\ Current BY DEF LifeInit, Created, Current
<1>3. OneApp
  BY DEF LifeInit, OneApp, Written, NotYet, AtRest, Finished, HalfLoaded, Loaded
<1> QED BY <1>1, <1>2, <1>3 DEF IInv

\* A step that leaves App's creations alone leaves Crowded alone.
LEMMA CrowdedKept == UNCHANGED asked => Crowded' = Crowded
BY DEF Crowded

\* What ends the process.
LEMMA EndKeeps == ASSUME IInv, NEW s, End(s) PROVE IInv'
<1> USE DEF End, IInv, fileVars
<1>1. Typed' BY DEF Typed
<1>2. Created' BY DEF Created, Typed
<1>3. Current' BY DEF Current, Typed
<1>4. CASE Crowded BY <1>1, <1>2, <1>3, <1>4, CrowdedKept
<1>5. CASE ~Crowded
  <2>1. Written' BY <1>5 DEF OneApp, Written, Typed
  <2>2. AtRest'
    <3>1. CASE \A a \in Apps : cb[a] \notin Saving
      BY <1>5, <3>1 DEF OneApp, AtRest
    <3>2. CASE \E a \in Apps : cb[a] \in Saving
      BY <1>5, <3>2 DEF OneApp, AtRest, Written
    <3> QED BY <3>1, <3>2
  <2>3. (NotYet /\ Finished /\ HalfLoaded /\ Loaded)'
    BY DEF NotYet, Finished, HalfLoaded, Loaded
  <2> QED BY <1>1, <1>2, <1>3, <2>1, <2>2, <2>3 DEF OneApp
<1> QED BY <1>4, <1>5

\* The start of the daemon up to the credentials, setup included.
LEMMA StartKeeps ==
  ASSUME IInv, Start \/ Resolve \/ SetupDone PROVE IInv'
<1> USE DEF Start, Resolve, SetupDone, IInv, appVars, fileVars, runVars
<1>1. Typed' BY DEF Typed
<1>2. Created' BY DEF Created
<1>3. Current' BY DEF Current
<1>4. CASE Crowded BY <1>1, <1>2, <1>3, <1>4, CrowdedKept
<1>5. CASE ~Crowded
  <2>1. (Written /\ AtRest /\ Finished)'
    BY <1>5 DEF OneApp, Written, AtRest, Finished
  <2>2. (NotYet /\ HalfLoaded /\ Loaded)' BY DEF NotYet, HalfLoaded, Loaded
  <2> QED BY <1>1, <1>2, <1>3, <2>1, <2>2 DEF OneApp
<1> QED BY <1>4, <1>5

\* With one App, a handler that is done leaves no callback in flight.
LEMMA NoneInFlight ==
  ASSUME Typed, Current, Finished, ~Crowded, phase \in {"start", "load"}
  PROVE  \A a \in Apps : cb[a] \notin InFlight
<1> SUFFICES ASSUME NEW a \in Apps, cb[a] \in InFlight PROVE FALSE OBVIOUS
<1>1. done /\ asked[a] = setups BY DEF Current
<1>2. PICK b \in Apps : asked[b] = setups /\ cb[b] = "over" /\ setups # 0
  BY <1>1 DEF Finished
<1>3. a # b BY <1>2
<1> QED BY <1>1, <1>2, <1>3 DEF Crowded

\* setup.Load, app.json: found, or setup begins.
LEMMA LoadCredsKeeps == ASSUME IInv, LoadCreds PROVE IInv'
<1> USE DEF LoadCreds, IInv, appVars, fileVars
<1>1. Typed' BY DEF Typed
<1>2. Created' BY DEF Created, Typed
<1>3. Current' BY DEF Current
<1>4. CASE Crowded BY <1>1, <1>2, <1>3, <1>4, CrowdedKept
<1>5. CASE ~Crowded
  <2>1. \A a \in Apps : cb[a] \notin InFlight
    BY <1>5, NoneInFlight DEF OneApp
  <2>2. (Written /\ AtRest)' BY <1>5 DEF OneApp, Written, AtRest
  <2>3. (NotYet /\ Loaded)' BY DEF NotYet, Loaded
  <2>4. Finished' BY <1>5 DEF OneApp, Finished
  <2>5. HalfLoaded' BY <2>1, AppsAssumption DEF HalfLoaded, Typed
  <2> QED BY <1>1, <1>2, <1>3, <2>2, <2>3, <2>4, <2>5 DEF OneApp
<1> QED BY <1>4, <1>5

\* setup.Load, the key: that of the App whose credentials were read.
LEMMA LoadKeyKeeps == ASSUME IInv, LoadKey PROVE IInv'
<1> USE DEF LoadKey, IInv, appVars, fileVars
<1>1. Typed' BY DEF Typed
<1>2. Created' BY DEF Created
<1>3. Current' BY DEF Current
<1>4. CASE Crowded BY <1>1, <1>2, <1>3, <1>4, CrowdedKept
<1>5. CASE ~Crowded
  <2>1. (Written /\ AtRest /\ Finished)'
    BY <1>5 DEF OneApp, Written, AtRest, Finished
  <2>2. (NotYet /\ HalfLoaded)' BY DEF NotYet, HalfLoaded
  <2>3. credsFile \in Apps /\ loaded.creds = credsFile /\ keyFile = credsFile
    BY <1>5, AppsAssumption DEF OneApp, HalfLoaded, AtRest
  <2>4. loaded'.creds = loaded.creds /\ loaded'.key = keyFile BY DEF Typed
  <2>5. Loaded' BY <2>3, <2>4 DEF Loaded
  <2> QED BY <1>1, <1>2, <1>3, <2>1, <2>2, <2>5 DEF OneApp
<1> QED BY <1>4, <1>5

\* From the lock of the store to the status socket: the App is loaded.
LEMMA ServeKeeps == ASSUME IInv, OpenStore \/ NewApp \/ Listen PROVE IInv'
<1> USE DEF OpenStore, NewApp, Listen, IInv, appVars, fileVars
<1>1. Typed' BY DEF Typed
<1>2. Created' BY DEF Created
<1>3. Current' BY DEF Current
<1>4. CASE Crowded BY <1>1, <1>2, <1>3, <1>4, CrowdedKept
<1>5. CASE ~Crowded
  <2>1. (Written /\ AtRest /\ Finished /\ NotYet /\ HalfLoaded /\ Loaded)'
    BY <1>5 DEF OneApp, Written, AtRest, Finished, NotYet, HalfLoaded, Loaded
  <2> QED BY <1>1, <1>2, <1>3, <2>1 DEF OneApp
<1> QED BY <1>4, <1>5

\* A new App may make the start a crowded one, and never undoes that it is.
LEMMA CreateAppKeeps == ASSUME IInv, NEW a \in Apps, CreateApp(a) PROVE IInv'
<1> USE DEF CreateApp, At, IInv, fileVars, runVars
<1>1. Typed' BY DEF Typed
<1>2. Created' BY DEF Created, Typed
<1>3. Current' BY DEF Current, Typed
<1>4. asked[a] = 0 BY DEF Created
<1>5. Crowded => Crowded'
  <2> SUFFICES ASSUME Crowded PROVE Crowded' OBVIOUS
  <2>1. PICK b, c \in Apps : b # c /\ asked[b] # 0 /\ asked[b] = asked[c]
    BY DEF Crowded
  <2>2. asked'[b] = asked[b] /\ asked'[c] = asked[c] BY <1>4, <2>1 DEF Typed
  <2> QED BY <2>1, <2>2 DEF Crowded
<1>6. CASE Crowded BY <1>1, <1>2, <1>3, <1>5, <1>6
<1>7. CASE ~Crowded
  <2>1. \A b \in Apps : b # a => cb'[b] = cb[b] /\ asked'[b] = asked[b]
    BY DEF Typed
  <2>2. cb[a] = "none" /\ cb'[a] = "redirect" BY DEF Typed
  <2>3. Written' BY <1>7, <2>1, <2>2 DEF OneApp, Written
  <2>4. NotYet' BY <1>7, <2>1, <2>2 DEF OneApp, NotYet, Past
  <2>5. AtRest' BY <1>7, <2>1, <2>2 DEF OneApp, AtRest
  <2>6. Finished' BY <1>7, <2>1, <2>2 DEF OneApp, Finished
  <2>7. (HalfLoaded /\ Loaded)' BY DEF HalfLoaded, Loaded
  <2> QED BY <1>1, <1>2, <1>3, <2>3, <2>4, <2>5, <2>6, <2>7 DEF OneApp
<1> QED BY <1>6, <1>7

\* With one App, whoever is in flight or comes from GitHub is alone.
LEMMA Alone ==
  ASSUME ~Crowded, Typed, Current, setups # 0,
         NEW a \in Apps, asked[a] = setups
  PROVE  \A b \in Apps : b # a => asked[b] # setups /\ cb[b] \notin InFlight
BY DEF Crowded, Current

\* The exchange of the code, by the handler that drew the state.
LEMMA CallbackKeeps == ASSUME IInv, NEW a \in Apps, Callback(a) PROVE IInv'
<1> USE DEF Callback, At, IInv, fileVars, runVars
<1>1. Typed' BY DEF Typed
<1>2. Created' BY DEF Created, Typed
<1>3. Current'
  <2>1. (asked[a] = setups /\ setups # 0 /\ phase = "setup") \/ cb'[a] = "over"
    BY DEF Created, Typed
  <2> QED BY <2>1 DEF Current, Typed
<1>4. CASE Crowded BY <1>1, <1>2, <1>3, <1>4, CrowdedKept
<1>5. CASE ~Crowded
  <2>1. \A b \in Apps : b # a => cb'[b] = cb[b] BY DEF Typed
  <2>2. cb'[a] \in {"key", "over"} /\ cb[a] = "redirect" BY DEF Typed
  <2>3. cb'[a] = "key" => credsFile = "absent"
    <3> SUFFICES ASSUME cb'[a] = "key" PROVE credsFile = "absent" OBVIOUS
    <3>1. asked[a] = setups /\ setups # 0 /\ phase = "setup"
      BY <2>2 DEF Created, Typed
    <3>2. \A b \in Apps : ~Past(b)
      BY <1>5, <2>2, <3>1, Alone DEF Past
    <3> QED BY <1>5, <3>1, <3>2 DEF OneApp, NotYet
  <2>4. Written' BY <1>5, <2>1, <2>2, <2>3 DEF OneApp, Written
  <2>5. NotYet' BY <1>5, <2>1, <2>2 DEF OneApp, NotYet, Past
  <2>6. AtRest' BY <1>5, <2>1, <2>2 DEF OneApp, AtRest
  <2>7. Finished' BY <1>5, <2>1, <2>2 DEF OneApp, Finished
  <2>8. (HalfLoaded /\ Loaded)' BY DEF HalfLoaded, Loaded
  <2> QED BY <1>1, <1>2, <1>3, <2>4, <2>5, <2>6, <2>7, <2>8 DEF OneApp
<1> QED BY <1>4, <1>5

\* Save and the page, step by step.  All of them leave the run alone, but for
\* done, and belong to a callback that is alone in flight.
LEMMA FileStepKeeps ==
  ASSUME IInv, NEW a \in Apps, OpenFile(a) \/ FillFile(a) \/ SaveFails(a)
  PROVE  IInv'
<1> USE DEF OpenFile, FillFile, SaveFails, At, IInv, runVars, fileVars
<1>1. Typed' BY DEF Typed
<1>2. Created' BY DEF Created, Typed
<1>3. Current' BY DEF Current, Typed
<1>4. CASE Crowded BY <1>1, <1>2, <1>3, <1>4, CrowdedKept
<1>5. CASE ~Crowded
  <2>1. cb[a] \in Saving /\ asked[a] = setups /\ setups # 0
    BY DEF Current
  <2>2. \A b \in Apps : b # a => cb'[b] = cb[b] /\ cb[b] \notin InFlight
                                 /\ asked[b] # setups
    BY <1>5, <2>1, Alone DEF Typed
  <2>3. Written'
    <3>1. \A b \in Apps : b # a => cb'[b] \notin InFlight BY <2>2
    <3>2. cb[a] = "key" => credsFile = "absent" BY <1>5 DEF OneApp, Written
    <3>3. cb[a] = "keyOpen" => credsFile = "absent" BY <1>5 DEF OneApp, Written
    <3>4. cb[a] = "creds" => credsFile = "absent" /\ keyFile = a
      BY <1>5 DEF OneApp, Written
    <3>5. cb[a] = "credsOpen" => credsFile = "torn" /\ keyFile = a
      BY <1>5 DEF OneApp, Written
    <3> QED BY <2>1, <3>1, <3>2, <3>3, <3>4, <3>5 DEF Written, Typed
  <2>4. NotYet'
    BY <1>5, <2>1, <2>2 DEF OneApp, NotYet, Written, Past, Typed
  <2>5. AtRest'
    BY <1>5, <2>1, <2>2 DEF OneApp, AtRest, Written, Typed
  <2>6. ~done BY <1>5, <2>1, <2>2 DEF OneApp, Finished
  <2>7. Finished' BY <2>6 DEF Finished
  <2>8. HalfLoaded' BY <1>5, <2>1 DEF OneApp, HalfLoaded
  <2>9. Loaded' BY <1>5 DEF OneApp, Loaded
  <2> QED BY <1>1, <1>2, <1>3, <2>3, <2>4, <2>5, <2>7, <2>8, <2>9 DEF OneApp
<1> QED BY <1>4, <1>5

\* The success page and once.Do.
LEMMA CloseKeeps == ASSUME IInv, NEW a \in Apps, Close(a) PROVE IInv'
<1> USE DEF Close, At, IInv, fileVars
<1>1. Typed' BY DEF Typed
<1>2. Created' BY DEF Created, Typed
<1>3. Current' BY DEF Current, Typed
<1>4. CASE Crowded BY <1>1, <1>2, <1>3, <1>4, CrowdedKept
<1>5. CASE ~Crowded
  <2>1. asked[a] = setups /\ setups # 0 /\ cb'[a] = "over"
    BY DEF Current, Typed
  <2>2. \A b \in Apps : b # a => cb'[b] = cb[b] BY DEF Typed
  <2>3. Written' BY <1>5, <2>1, <2>2 DEF OneApp, Written
  <2>4. NotYet' BY <2>1 DEF NotYet, Past
  <2>5. AtRest' BY <1>5, <2>1, <2>2 DEF OneApp, AtRest, Written
  <2>6. Finished' BY <2>1 DEF Finished
  <2>7. HalfLoaded' BY <1>5 DEF OneApp, HalfLoaded
  <2>8. Loaded' BY <1>5 DEF OneApp, Loaded
  <2> QED BY <1>1, <1>2, <1>3, <2>3, <2>4, <2>5, <2>6, <2>7, <2>8 DEF OneApp
<1> QED BY <1>4, <1>5

\* What IInv speaks of; the CLI touches none of it.
seen == <<keyFile, credsFile, phase, setups, done, asked, cb, loaded>>

\* What it does not speak of may change.
LEMMA UnseenKeeps == ASSUME IInv, UNCHANGED seen PROVE IInv'
<1> USE DEF seen, IInv
<1>1. (Typed /\ Created /\ Current)' BY DEF Typed, Created, Current
<1>2. CASE Crowded BY <1>1, <1>2, CrowdedKept
<1>3. CASE ~Crowded
  <2>1. OneApp'
    BY <1>3 DEF OneApp, Written, NotYet, Past, AtRest, Finished, HalfLoaded, Loaded
  <2> QED BY <1>1, <2>1
<1> QED BY <1>2, <1>3

\* The commands of the CLI.
LEMMA CliKeeps == ASSUME IInv, StatusStep \/ Destroy \/ DestroyEnds PROVE IInv'
<1>1. UNCHANGED seen
  BY DEF seen, StatusStep, Query, Answer, ReadStore, StatusEnds, Destroy,
         DestroyEnds, fileVars, runVars, appVars
<1> QED BY <1>1, UnseenKeeps

\* A step per group of actions.
LEMMA NextIInv == IInv /\ [LifeNext]_lifeVars => IInv'
<1> SUFFICES ASSUME IInv, [LifeNext]_lifeVars PROVE IInv' OBVIOUS
<1>1. CASE UNCHANGED lifeVars
  BY <1>1, UnseenKeeps DEF seen, lifeVars, fileVars, runVars, appVars
<1>2. CASE Start \/ Resolve \/ SetupDone BY <1>2, StartKeeps
<1>3. CASE LoadCreds BY <1>3, LoadCredsKeeps
<1>4. CASE LoadKey BY <1>4, LoadKeyKeeps
<1>5. CASE OpenStore \/ NewApp \/ Listen BY <1>5, ServeKeeps
<1>6. CASE LoadFails \/ OpenTimesOut \/ NewAppFails \/ Die
  <2>1. \E s : End(s)
    BY <1>6 DEF LoadFails, OpenTimesOut, NewAppFails, Die, Fails
  <2> QED BY <2>1, EndKeeps
<1>7. CASE StatusStep \/ Destroy \/ DestroyEnds BY <1>7, CliKeeps
<1>8. ASSUME NEW a \in Apps,
             CreateApp(a) \/ Callback(a) \/ CallbackStep(a) \/ SaveFails(a)
      PROVE  IInv'
  BY <1>8, CreateAppKeeps, CallbackKeeps, FileStepKeeps, CloseKeeps
     DEF CallbackStep
<1> QED
  BY <1>1, <1>2, <1>3, <1>4, <1>5, <1>6, <1>7, <1>8 DEF LifeNext, DaemonStep

\* The inductive invariant of the files and of what the daemon loads from them.
THEOREM IInvHeld == LifeSpec => []IInv
BY InitIInv, NextIInv, PTL DEF LifeSpec

\* setup.Save and resolveCredentials: whatever step the daemon died at, the two
\* files are of one App, or setup runs again, or app.json does not parse.
THEOREM SetupSurvivesHeld == LifeSpec => []SetupSurvives
<1>1. IInv => SetupSurvives BY DEF IInv, OneApp, AtRest, SetupSurvives
<1> QED BY <1>1, IInvHeld, PTL

\* runNormal: the App of the key is the App of the webhook secret.
THEOREM IdentityIsOneAppHeld == LifeSpec => []IdentityIsOneApp
<1>1. IInv => IdentityIsOneApp BY DEF IInv, OneApp, Loaded, IdentityIsOneApp
<1> QED BY <1>1, IInvHeld, PTL

-----------------------------------------------------------------------------
(* The process by itself: the lock, the socket and prevly status.          *)

\* The daemon holds the lock from store.Open on, and listens at the end.
Held ==
  /\ lock \in {"free", "daemon", "destroy"}
  /\ lock = "daemon" <=> phase \in {"app", "serve", "normal"}
  /\ phase = "normal" => socket = "live"

\* Whoever found a socket finds it again, and whoever found none a free lock, but
\* in a race.
Asking ==
  /\ status = "dialed" => raced \/ socket = "live"
  /\ status = "down" => raced \/ lock = "free"
  /\ StatusAnswers

\* The first start is still to come.
LEMMA InitAsking == LifeInit => Held /\ Asking
BY DEF LifeInit, Held, Asking, StatusAnswers

\* The process ends, and with it its lock.
LEMMA EndAsking == ASSUME Held, Asking, NEW s, End(s) PROVE Held' /\ Asking'
BY DEF End, Held, Asking, StatusAnswers

\* prevly status: the first step of a query notes a race that is on already.
LEMMA StatusAsking == ASSUME Held, Asking, StatusStep PROVE Held' /\ Asking'
<1> USE DEF Held, Asking, StatusAnswers, runVars, hostVars
<1>1. CASE Query
  BY <1>1 DEF Query
<1>2. CASE Answer
  BY <1>2 DEF Answer
<1>3. CASE ReadStore
  BY <1>3 DEF ReadStore
<1>4. CASE StatusEnds
  BY <1>4 DEF StatusEnds
<1> QED BY <1>1, <1>2, <1>3, <1>4 DEF StatusStep

\* The daemon, the callbacks and the commands of the CLI.
LEMMA NextAsking ==
  Held /\ Asking /\ [LifeNext]_lifeVars => Held' /\ Asking'
<1> SUFFICES ASSUME Held, Asking, [LifeNext]_lifeVars PROVE Held' /\ Asking'
  OBVIOUS
<1> DEFINE Same == UNCHANGED <<lock, socket, status, raced>>
<1>1. ASSUME NEW s, End(s) PROVE Held' /\ Asking'
  BY <1>1, EndAsking
<1>2. CASE LoadFails \/ OpenTimesOut \/ NewAppFails \/ Die
  BY <1>1, <1>2 DEF LoadFails, OpenTimesOut, NewAppFails, Die, Fails
<1>3. CASE Start \/ Resolve \/ LoadCreds \/ LoadKey \/ SetupDone
  BY <1>3 DEF Start, Resolve, LoadCreds, LoadKey, SetupDone, Held, Asking,
              StatusAnswers, cliVars, hostVars
<1>4. CASE OpenStore \/ NewApp \/ Listen
  BY <1>4 DEF OpenStore, NewApp, Listen, Held, Asking, StatusAnswers, cliVars,
              hostVars
<1>5. CASE StatusStep
  BY <1>5, StatusAsking
<1>6. CASE Destroy \/ DestroyEnds
  BY <1>6 DEF Destroy, DestroyEnds, Held, Asking, StatusAnswers, runVars, cliVars
<1>7. ASSUME NEW a \in Apps,
             CreateApp(a) \/ Callback(a) \/ CallbackStep(a) \/ SaveFails(a)
      PROVE  Held' /\ Asking'
  <2>1. UNCHANGED <<phase, cliVars, hostVars>>
    BY <1>7 DEF CreateApp, Callback, CallbackStep, OpenFile, FillFile, Close,
                SaveFails, runVars
  <2> QED BY <2>1 DEF Held, Asking, StatusAnswers, cliVars, hostVars
<1>8. CASE UNCHANGED lifeVars
  BY <1>8 DEF lifeVars, runVars, cliVars, hostVars, Held, Asking, StatusAnswers
<1> QED
  BY <1>2, <1>3, <1>4, <1>5, <1>6, <1>7, <1>8 DEF LifeNext, DaemonStep

\* loadPreviews: prevly status has an answer, from the daemon or from the store,
\* unless the daemon came or went, or destroy ran, under it.
THEOREM StatusAnswersHeld == LifeSpec => []StatusAnswers
<1>1. Asking => StatusAnswers
  BY DEF Asking
<1> QED BY InitAsking, NextAsking, <1>1, PTL DEF LifeSpec

\* NewHandler is called once a life: a start that comes to setup again died there
\* before, or finds app.json, which nothing removes.
Starts ==
  /\ setups <= deaths + 1
  /\ setups = deaths + 1 => phase = "setup" \/ credsFile # "absent"
  /\ done \/ (\E a \in Apps : cb[a] \in {"credsOpen", "page"}) => credsFile # "absent"

\* What Typed and Created leave open of the types.
Bounded ==
  /\ Starts /\ pinned \in BOOLEAN /\ storeFile \in BOOLEAN /\ raced \in BOOLEAN
  /\ lock \in {"free", "daemon", "destroy"} /\ socket \in {"none", "stale", "live"}
  /\ status \in {"idle", "dialed", "down", "answered", "failed"}
  /\ deaths \in 0 .. MaxDeaths /\ destroys \in 0 .. MaxDestroys

\* Before the first start.
LEMMA InitBounded == LifeInit => Bounded
<1> SUFFICES ASSUME LifeInit PROVE Bounded
  OBVIOUS
<1>1. Starts
  BY DEF LifeInit, Starts
<1>2. deaths \in 0 .. MaxDeaths /\ destroys \in 0 .. MaxDestroys
  BY DeathsAssumption DEF LifeInit
<1> QED BY <1>1, <1>2 DEF LifeInit, Bounded

\* A death is counted; a failure leaves setup for good, or never was in it.
LEMMA EndBounded ==
  ASSUME IInv, Bounded, NEW s \in {"none", "stale", "live"}, End(s),
         \/ deaths < MaxDeaths /\ deaths' = deaths + 1
         \/ phase # "setup" /\ deaths' = deaths
  PROVE  Bounded'
<1>1. Typed
  BY DEF IInv
<1>2. Starts'
  BY <1>1 DEF End, Bounded, Starts, Typed, fileVars
<1> QED BY <1>2, DeathsAssumption DEF End, Bounded

\* A step per group of actions; only the daemon, its callbacks and deaths touch
\* what Starts counts.
LEMMA NextBounded ==
  IInv /\ Bounded /\ [LifeNext]_lifeVars => Bounded'
<1> SUFFICES ASSUME IInv, Bounded, [LifeNext]_lifeVars PROVE Bounded'
  OBVIOUS
<1> USE DeathsAssumption, AppsAssumption
<1>0. Typed
  BY DEF IInv
<1>1. CASE LoadFails \/ OpenTimesOut \/ NewAppFails
  <2>1. End(socket) /\ phase # "setup" /\ deaths' = deaths
    BY <1>1 DEF LoadFails, OpenTimesOut, NewAppFails, Fails
  <2>2. socket \in {"none", "stale", "live"}
    BY DEF Bounded
  <2> QED BY <2>1, <2>2, EndBounded
<1>2. CASE Die
  <2>1. PICK s \in {"none", "stale", "live"} : End(s)
    BY <1>2 DEF Die, Bounded
  <2>2. deaths < MaxDeaths /\ deaths' = deaths + 1
    BY <1>2 DEF Die
  <2> QED BY <2>1, <2>2, EndBounded
<1>3. CASE Start \/ Resolve \/ LoadKey \/ OpenStore \/ NewApp \/ Listen
  <2>1. UNCHANGED <<setups, deaths, credsFile, done, cb>> /\ phase # "setup"
    BY <1>3
    DEF Start, Resolve, LoadKey, OpenStore, NewApp, Listen, fileVars, appVars
  <2>2. Starts'
    BY <2>1 DEF Bounded, Starts
  <2>3. /\ UNCHANGED <<pinned, status, destroys>>
        /\ UNCHANGED storeFile \/ storeFile' = TRUE
        /\ UNCHANGED raced \/ raced' = TRUE
        /\ lock' \in {lock, "daemon"} /\ socket' \in {socket, "live"}
    BY <1>3
    DEF Start, Resolve, LoadKey, OpenStore, NewApp, Listen, cliVars, hostVars
  <2> QED BY <2>1, <2>2, <2>3 DEF Bounded
<1>4. CASE LoadCreds \/ SetupDone
  BY <1>0, <1>4
  DEF LoadCreds, SetupDone, Bounded, Starts, Typed, fileVars, appVars, cliVars,
      hostVars
<1>5. CASE StatusStep \/ Destroy \/ DestroyEnds
  <2>1. UNCHANGED <<setups, deaths, phase, credsFile, done, cb, pinned, socket>>
    BY <1>5
    DEF StatusStep, Query, Answer, ReadStore, StatusEnds, Destroy, DestroyEnds,
        fileVars, runVars, appVars, hostVars
  <2>2. Starts'
    BY <2>1 DEF Bounded, Starts
  <2>3. /\ UNCHANGED storeFile \/ storeFile' = TRUE
        /\ lock' \in {lock, "destroy", "free"}
        /\ status' \in {status, "idle", "dialed", "down", "answered", "failed"}
        /\ \/ destroys' = destroys
           \/ destroys < MaxDestroys /\ destroys' = destroys + 1
    BY <1>5
    DEF StatusStep, Query, Answer, ReadStore, StatusEnds, Destroy, DestroyEnds,
        cliVars, hostVars
  <2>4. raced' \in BOOLEAN
    BY <1>5
    DEF StatusStep, Query, Answer, ReadStore, StatusEnds, Destroy, DestroyEnds,
        cliVars, Bounded
  <2>5. destroys' \in 0 .. MaxDestroys
    BY <2>3 DEF Bounded
  <2> QED BY <2>1, <2>2, <2>3, <2>4, <2>5 DEF Bounded
<1>6. ASSUME NEW a \in Apps,
             CreateApp(a) \/ Callback(a) \/ CallbackStep(a) \/ SaveFails(a)
      PROVE  Bounded'
  <2>1. UNCHANGED <<pinned, phase, setups, cliVars, hostVars, deaths>>
    BY <1>6 DEF CreateApp, Callback, CallbackStep, OpenFile, FillFile, Close,
                SaveFails, runVars
  <2>2. Starts'
    BY <1>0, <1>6, <2>1
    DEF CreateApp, Callback, CallbackStep, OpenFile, FillFile, Close, SaveFails, At,
        Bounded, Starts, Typed, runVars, fileVars
  <2> QED BY <2>1, <2>2 DEF Bounded, cliVars, hostVars
<1>7. CASE UNCHANGED lifeVars
  BY <1>7
  DEF lifeVars, fileVars, runVars, appVars, cliVars, hostVars, Bounded, Starts
<1> QED
  BY <1>1, <1>2, <1>3, <1>4, <1>5, <1>6, <1>7 DEF LifeNext, DaemonStep

\* The process, its files and its commands are of their types, and setup is begun
\* at most once more than the daemon dies.
THEOREM LifeTypeCorrect == LifeSpec => []LifeTypeOK
<1>1. IInv /\ Bounded => LifeTypeOK
  <2> SUFFICES ASSUME IInv, Bounded PROVE LifeTypeOK
    OBVIOUS
  <2>1. setups \in 0 .. MaxDeaths + 1
    BY DeathsAssumption DEF IInv, Typed, Bounded, Starts
  <2>2. asked \in [Apps -> 0 .. setups]
    <3>1. \A a \in Apps : asked[a] \in 0 .. setups
      BY DEF IInv, Typed, Created
    <3> QED BY <3>1 DEF IInv, Typed
  <2> QED BY <2>1, <2>2 DEF LifeTypeOK, IInv, Typed, Bounded
<1> QED BY InitIInv, NextIInv, InitBounded, NextBounded, <1>1, PTL DEF LifeSpec

-----------------------------------------------------------------------------
(* The daemon as a whole.                                                  *)

\* Every step of the daemon is one of the process, or leaves it alone.
LEMMA LifeStep == ASSUME [Next]_vars PROVE [LifeNext]_lifeVars
<1>1. CASE UNCHANGED vars
  BY <1>1 DEF vars
<1>2. CASE Life(DaemonStep)
  BY <1>2 DEF Life, LifeNext
<1>3. CASE Dies
  BY <1>3 DEF Dies, LifeNext
<1>4. CASE CliStep
  BY <1>4 DEF CliStep, Life, LifeNext
<1>5. ASSUME NEW a \in Apps,
             Life(CreateApp(a) \/ Callback(a) \/ CallbackStep(a) \/ SaveFails(a))
      PROVE  LifeNext
  BY <1>5 DEF Life, LifeNext
<1>6. CASE Webhook \/ TTL \/ Visit \/ Clock \/ TurnedAway
  <2>1. UNCHANGED lifeVars
    BY <1>6 DEF Webhook, TTL, Visit, Clock, TurnedAway, vars
  <2> QED BY <2>1
<1> QED BY <1>1, <1>2, <1>3, <1>4, <1>5, <1>6 DEF Next

\* A request reaches the limiter once, with a bucket of its own, or not at all.
LEMMA VisitAsks == ASSUME VisitStep PROVE [LimiterNext]_limiterVars
<1>1. ASSUME NEW pr \in PRs, NEW r \in comment[pr].rows, Activate(r)
      PROVE  UNCHANGED limiterVars
  BY <1>1 DEF Activate, Visited, limiterVars
<1>2. ASSUME NEW h \in Hosts, Report(h) PROVE LimiterNext
  <2>1. h \in Buckets
    BY BucketsAssumption
  <2>2. (Allow(h) \/ Refuse(h)) /\ UNCHANGED now
    BY <1>2 DEF Report, Visited
  <2> QED BY <2>1, <2>2 DEF LimiterNext
<1>3. ASSUME NEW s \in Sites, SiteReport(s) PROVE LimiterNext
  <2>1. SiteKey(s) \in Buckets
    BY BucketsAssumption
  <2>2. (Allow(SiteKey(s)) \/ Refuse(SiteKey(s))) /\ UNCHANGED now
    BY <1>3 DEF SiteReport, Visited
  <2> QED BY <2>1, <2>2 DEF LimiterNext
<1> QED BY <1>1, <1>2, <1>3 DEF VisitStep

\* Every step of the daemon asks the limiter once, or leaves it alone.
LEMMA LimiterStep == ASSUME [Next]_vars PROVE [LimiterNext]_limiterVars
<1>1. CASE Visit
  BY <1>1, VisitAsks DEF Visit
<1>2. CASE Clock
  BY <1>2 DEF Clock, Passes, LimiterNext
<1>3. CASE Dies
  BY <1>3 DEF Dies, LimiterNext
<1>4. ASSUME UNCHANGED doorVars PROVE UNCHANGED limiterVars
  BY <1>4 DEF doorVars, limiterVars
<1>5. CASE UNCHANGED vars \/ Life(DaemonStep) \/ CliStep \/ Webhook \/ TTL \/ TurnedAway
  <2>1. UNCHANGED doorVars
    BY <1>5 DEF vars, Life, CliStep, Webhook, TTL, TurnedAway
  <2> QED BY <1>4, <2>1
<1>6. ASSUME NEW a \in Apps,
             Life(CreateApp(a) \/ Callback(a) \/ CallbackStep(a) \/ SaveFails(a))
      PROVE  UNCHANGED limiterVars
  BY <1>4, <1>6 DEF Life
<1> QED BY <1>1, <1>2, <1>3, <1>5, <1>6 DEF Next

\* Every step of the daemon is one of its webhooks, or leaves the previews alone.
LEMMA PRStep ==
  ASSUME [Next]_vars PROVE [WebhookStep \/ ExpireStep \/ ForgetClosed]_prVars
<1>1. CASE UNCHANGED vars \/ CliStep \/ Life(DaemonStep) \/ TurnedAway
  <2>1. UNCHANGED prVars
    BY <1>1 DEF vars, CliStep, Life, TurnedAway
  <2> QED BY <2>1
<1>2. CASE Dies
  BY <1>2 DEF Dies
<1>3. ASSUME NEW a \in Apps,
             Life(CreateApp(a) \/ Callback(a) \/ CallbackStep(a) \/ SaveFails(a))
      PROVE  UNCHANGED prVars
  BY <1>3 DEF Life
<1>4. CASE Webhook \/ TTL
  BY <1>4 DEF Webhook, TTL
<1>5. CASE Visit
  <2>1. UNCHANGED prVars
    BY <1>5 DEF Visit, VisitStep, Activate, Report, SiteReport, Visited
  <2> QED BY <2>1
<1>6. CASE Clock
  BY <1>6 DEF Clock, Passes
<1> QED BY <1>1, <1>2, <1>3, <1>4, <1>5, <1>6 DEF Next

\* The whole daemon is a process of Setup: webhooks, requests and the clock
\* write neither of its files and none of its state.
THEOREM LifeImplemented == Spec => LifeSpec
<1>1. Init => LifeInit
  BY DEF Init
<1> QED BY <1>1, LifeStep, PTL DEF Spec, LifeSpec

\* The whole daemon asks the limiter as ratelimit.go expects to be asked.
THEOREM LimiterImplemented == Spec => LimiterSpec
<1>1. Init => LimiterInit
  BY DEF Init, DoorInit
<1> QED BY <1>1, LimiterStep, PTL DEF Spec, LimiterSpec

\* setup.Save and resolveCredentials in the running daemon: whatever step it
\* died at, the two files are of one App, or setup runs again, or app.json does
\* not parse.
THEOREM DaemonSetupSurvives == Spec => []SetupSurvives
BY LifeImplemented, SetupSurvivesHeld, PTL

\* runNormal: the App of the key is the App of the webhook secret.
THEOREM DaemonIdentityIsOneApp == Spec => []IdentityIsOneApp
BY LifeImplemented, IdentityIsOneAppHeld, PTL

\* limiter.allow behind the proxy, the cookie and the site key: within any time
\* no host and no site is let more reports than a full bucket and what was
\* earned meanwhile.
THEOREM DaemonRateHeld == Spec => []RateHeld
BY LimiterImplemented, RateHeldAlways, PTL

\* The same of the time that Retry-After names, ...
THEOREM DaemonRetryAfterHonest == Spec => []RetryAfterHonest
BY LimiterImplemented, RetryAfterHonestAlways, PTL

\* ... and of what a refusal takes: max_per_hour reports within the last hour.
THEOREM DaemonRefusals == Spec => Refusals
<1>1. [RefusedForCause]_limiterVars => [RefusedForCause]_doorVars
  BY DEF limiterVars, RefusedForCause
<1> QED BY <1>1, LimiterImplemented, RefusedForCauseAlways, PTL DEF Refusals

\* The whole daemon handles webhooks as PullRequests does: setup, the CLI, the
\* door and the clock touch neither records nor comments.
THEOREM PullRequestsImplemented == Spec => PRSpec
<1>1. Init => PRInit
  BY DEF Init
<1> QED BY <1>1, PRStep, PTL DEF Spec, PRSpec

\* The running daemon never deploys a fork's code on its own, restarts included.
THEOREM DaemonOutsidersWait == Spec => []OutsidersWait
BY PullRequestsImplemented, OutsidersWaitHeld, PTL

\* Its sticky comments are true, ...
THEOREM DaemonCommentTellsTruth == Spec => []CommentTellsTruth
BY PullRequestsImplemented, CommentTellsTruthHeld, PTL

\* ... their links open what they name, ...
THEOREM DaemonLinksOpen == Spec => []LinksOpen
BY PullRequestsImplemented, LinksOpenHeld, PTL

\* ... and previews of one configuration have hosts of their own.
THEOREM DaemonHostsDistinct == Spec => []HostsDistinct
BY PullRequestsImplemented, HostsDistinctHeld, PTL

\* MatchedApps in the running daemon selects what the globs mean.
THEOREM DaemonGlobsMeant == Spec => []GlobsMeant
BY PullRequestsImplemented, GlobsMeantHeld, PTL

\* loadPreviews of the CLI, beside a daemon that serves.
THEOREM DaemonStatusAnswers == Spec => []StatusAnswers
BY LifeImplemented, StatusAnswersHeld, PTL

\* The cookies hold tokens of links, and the clock and the visits keep to their
\* bounds.
Visitors ==
  /\ now <= MaxClock /\ visits \in 0 .. MaxVisits
  /\ jar \in [Hosts -> 0 .. MaxWebhooks \cup {NoCookie}]

\* A visit or a tick of the clock, each within its bound.
LEMMA NextVisitors ==
  PRTypeOK /\ LimiterTypeOK /\ Visitors /\ [Next]_vars => Visitors'
<1> SUFFICES ASSUME PRTypeOK, LimiterTypeOK, Visitors, [Next]_vars PROVE Visitors'
  OBVIOUS
<1>1. CASE UNCHANGED doorVars
  BY <1>1 DEF doorVars, Visitors
<1>2. ASSUME NEW a \in Apps,
             Life(CreateApp(a) \/ Callback(a) \/ CallbackStep(a) \/ SaveFails(a))
      PROVE  UNCHANGED doorVars
  BY <1>2 DEF Life
<1>3. CASE UNCHANGED vars \/ Life(DaemonStep) \/ CliStep \/ Webhook \/ TTL \/ TurnedAway
  <2>1. UNCHANGED doorVars
    BY <1>3 DEF vars, Life, CliStep, Webhook, TTL, TurnedAway
  <2> QED BY <1>1, <2>1
<1>4. CASE Dies
  BY <1>4 DEF Dies, Forget, Visitors
<1>5. CASE Clock
  <2>1. now < MaxClock /\ now' = now + 1 /\ UNCHANGED <<jar, visits>>
    BY <1>5 DEF Clock, Passes, Pass
  <2>2. now \in Int /\ now' <= MaxClock
    BY <2>1, VisitsAssumption DEF LimiterTypeOK
  <2> QED BY <2>1, <2>2 DEF Visitors
<1>6. CASE Visit
  <2>1. Visited
    BY <1>6 DEF Visit, VisitStep, Activate, Report, SiteReport
  <2>2. now' = now /\ visits' \in 0 .. MaxVisits
    BY <2>1, VisitsAssumption DEF Visited, Visitors
  <2>3. ASSUME NEW pr \in PRs, NEW r \in comment[pr].rows, Activate(r)
        PROVE  jar' \in [Hosts -> 0 .. MaxWebhooks \cup {NoCookie}]
    <3>1. r.token \in 0 .. MaxWebhooks
      BY DEF PRTypeOK
    <3> QED BY <2>3, <3>1 DEF Activate, Visitors
  <2>4. ASSUME NEW h \in Hosts, Report(h) PROVE UNCHANGED jar
    BY <2>4 DEF Report
  <2>5. ASSUME NEW s \in Sites, SiteReport(s) PROVE UNCHANGED jar
    BY <2>5 DEF SiteReport
  <2>6. VisitStep /\ jar \in [Hosts -> 0 .. MaxWebhooks \cup {NoCookie}]
    BY <1>6 DEF Visit, Visitors
  <2>7. jar' \in [Hosts -> 0 .. MaxWebhooks \cup {NoCookie}]
    BY <2>3, <2>4, <2>5, <2>6 DEF VisitStep
  <2> QED BY <2>2, <2>7 DEF Visitors
<1> QED BY <1>1, <1>2, <1>3, <1>4, <1>5, <1>6 DEF Next

\* Every part of the running daemon is of its type.
THEOREM TypeCorrect == Spec => []TypeOK
<1>1. Init => Visitors
  BY VisitsAssumption DEF Init, DoorInit, LimiterInit, Visitors
<1>2. LimiterSpec => []LimiterTypeOK
  <2>1. LimiterInv => LimiterTypeOK
    BY DEF LimiterInv
  <2> QED BY LimiterInvInit, LimiterInvNext, <2>1, PTL DEF LimiterSpec
<1>3. LifeTypeOK /\ PRTypeOK /\ LimiterTypeOK /\ Visitors => TypeOK
  BY DEF TypeOK, DoorTypeOK, Visitors
<1>4. Spec => []PRTypeOK
  BY PullRequestsImplemented, PRTypeCorrect, PTL
<1>5. Spec => []Visitors
  BY <1>1, <1>2, <1>4, LimiterImplemented, NextVisitors, PTL DEF Spec
<1> QED
  BY <1>2, <1>3, <1>4, <1>5, LifeImplemented, LifeTypeCorrect, LimiterImplemented, PTL
=============================================================================
