------------------------------- MODULE Setup -------------------------------
(***************************************************************************)
(* The daemon as a process: from its start to the phase in which it serves *)
(* previews, by way of internal/setup when no GitHub App is configured     *)
(* yet, with the files that setup leaves, the lock of the store, the       *)
(* status socket, and the commands of the CLI that look at both.  The      *)
(* daemon may die at any step; systemd starts it again.                    *)
(***************************************************************************)
EXTENDS Naturals, FiniteSets

CONSTANTS Apps,          \* GitHub Apps an operator may create
          MaxDeaths,     \* how often the daemon may be killed or stopped
          MaxDestroys,   \* how often prevly destroy is run
          Faults         \* "github", "disk", "page"

ASSUME DeathsAssumption == MaxDeaths \in Nat /\ MaxDestroys \in Nat

ASSUME AppsAssumption == Apps \cap {"absent", "torn", "pinned"} = {}

VARIABLES
  pinned,     \* the host configuration names an App
  keyFile,    \* github-app.pem
  credsFile,  \* app.json
  phase,      \* where runDaemon is
  setups,     \* handlers that NewHandler made: the state it drew
  done,       \* the handler's done channel is closed
  asked,      \* asked[a]: the state that App a was created with, 0 if it was not
  cb,         \* cb[a]: where the callback that brings App a is
  loaded,     \* credentials and key in memory
  lock,       \* who holds the lock of the store
  storeFile,  \* the store exists
  socket,     \* the status socket
  status,     \* where prevly status is
  raced,      \* the daemon started or died, or destroy ran, since status began
  deaths, destroys

fileVars == <<keyFile, credsFile>>
runVars  == <<phase, setups, done, loaded>>
appVars  == <<asked, cb>>
cliVars  == <<status, raced, destroys>>
hostVars == <<lock, storeFile, socket>>
lifeVars == <<pinned, fileVars, runVars, appVars, cliVars, hostVars, deaths>>

File     == Apps \cup {"absent", "torn"}
Saving   == {"key", "keyOpen", "creds", "credsOpen"}
InFlight == Saving \cup {"page"}
Phases   == {"down", "start", "load", "loadKey", "setup", "open", "app", "serve",
             "normal"}
Nobody   == [creds |-> "absent", key |-> "absent"]

LifeTypeOK ==
  /\ pinned \in BOOLEAN /\ done \in BOOLEAN
  /\ keyFile \in File /\ credsFile \in File
  /\ phase \in Phases
  /\ setups \in 0 .. MaxDeaths + 1 /\ asked \in [Apps -> 0 .. setups]
  /\ cb \in [Apps -> {"none", "redirect", "over"} \cup InFlight]
  /\ loaded \in [creds : File \cup {"pinned"}, key : File \cup {"pinned"}]
  /\ lock \in {"free", "daemon", "destroy"} /\ storeFile \in BOOLEAN
  /\ socket \in {"none", "stale", "live"}
  /\ status \in {"idle", "dialed", "down", "answered", "failed"}
  /\ raced \in BOOLEAN
  /\ deaths \in 0 .. MaxDeaths /\ destroys \in 0 .. MaxDestroys

LifeInit ==
  /\ pinned \in BOOLEAN /\ keyFile = "absent" /\ credsFile = "absent"
  /\ phase = "down" /\ setups = 0 /\ done = FALSE /\ loaded = Nobody
  /\ asked = [a \in Apps |-> 0] /\ cb = [a \in Apps |-> "none"]
  /\ lock = "free" /\ storeFile = FALSE /\ socket = "none"
  /\ status = "idle" /\ raced = FALSE /\ deaths = 0 /\ destroys = 0

-----------------------------------------------------------------------------
(* runDaemon.                                                              *)

\* systemd starts the daemon: at boot, and after it failed or was killed.
Start == /\ phase = "down" /\ phase' = "start"
         /\ UNCHANGED <<pinned, fileVars, setups, done, loaded, appVars, cliVars,
                        hostVars, deaths>>

\* The process ends: with it its goroutines, its listeners and its lock.  A
\* socket that was not closed in order stays behind.
End(s) ==
  /\ phase' = "down" /\ done' = FALSE /\ loaded' = Nobody
  /\ cb' = [a \in Apps |-> IF cb[a] \in InFlight THEN "over" ELSE cb[a]]
  /\ lock' = IF lock = "daemon" THEN "free" ELSE lock
  /\ socket' = s
  /\ raced' = TRUE
  /\ UNCHANGED <<pinned, fileVars, setups, asked, status, storeFile, destroys>>

\* Killed, or stopped with a signal.
Die ==
  /\ phase # "down" /\ deaths < MaxDeaths /\ deaths' = deaths + 1
  /\ \E s \in IF socket = "live" THEN {"none", "stale"} ELSE {socket} : End(s)

\* runDaemon returns an error.
Fails == End(socket) /\ UNCHANGED deaths

\* resolveCredentials prefers the App of the host configuration.
Resolve ==
  /\ phase = "start"
  /\ \/ /\ pinned /\ phase' = "open"
        /\ loaded' = [creds |-> "pinned", key |-> "pinned"]
     \/ ~pinned /\ phase' = "load" /\ UNCHANGED loaded
  /\ UNCHANGED <<pinned, fileVars, setups, done, appVars, cliVars, hostVars,
                 deaths>>

\* setup.Load.  A handler that is done has left the file, so it is absent only
\* when Load was called by resolveCredentials: runSetupPhase begins.
LoadCreds ==
  /\ phase = "load"
  /\ \/ /\ credsFile \in Apps /\ phase' = "loadKey"
        /\ loaded' = [loaded EXCEPT !.creds = credsFile]
        /\ UNCHANGED <<setups, done>>
     \/ /\ credsFile = "absent" /\ ~done
        /\ phase' = "setup" /\ setups' = setups + 1
        /\ UNCHANGED <<done, loaded>>
  /\ UNCHANGED <<pinned, fileVars, appVars, cliVars, hostVars, deaths>>

\* What a write that was cut short left of it does not parse.
LoadFails == phase = "load" /\ credsFile = "torn" /\ Fails

LoadKey ==
  /\ phase = "loadKey" /\ keyFile # "absent" /\ phase' = "open"
  /\ loaded' = [loaded EXCEPT !.key = keyFile]
  /\ UNCHANGED <<pinned, fileVars, setups, done, appVars, cliVars, hostVars,
                 deaths>>

\* The proxy of the setup phase is shut down, after 5 seconds whatever it does,
\* and Load is called: a callback that is still in flight goes on.
SetupDone ==
  /\ phase = "setup" /\ done /\ phase' = "load"
  /\ UNCHANGED <<pinned, fileVars, setups, done, loaded, appVars, cliVars,
                 hostVars, deaths>>

\* store.Open waits 5 seconds for the lock; prevly destroy may take longer.
OpenStore ==
  /\ phase = "open" /\ lock = "free"
  /\ lock' = "daemon" /\ storeFile' = TRUE /\ phase' = "app"
  /\ raced' = TRUE
  /\ UNCHANGED <<pinned, fileVars, setups, done, loaded, appVars, status,
                 destroys, socket, deaths>>

OpenTimesOut == phase = "open" /\ lock = "destroy" /\ Fails

\* NewApp parses the key.
NewApp ==
  /\ phase = "app" /\ loaded.key # "torn" /\ phase' = "serve"
  /\ UNCHANGED <<pinned, fileVars, setups, done, loaded, appVars, cliVars,
                 hostVars, deaths>>

NewAppFails == phase = "app" /\ loaded.key = "torn" /\ Fails

\* statusapi.Serve removes what an earlier run left and listens.
Listen ==
  /\ phase = "serve" /\ phase' = "normal" /\ socket' = "live"
  /\ UNCHANGED <<pinned, fileVars, setups, done, loaded, appVars, cliVars,
                 lock, storeFile, deaths>>

DaemonStep == \/ Start \/ Resolve \/ LoadCreds \/ LoadFails \/ LoadKey
              \/ SetupDone \/ OpenStore \/ OpenTimesOut \/ NewApp \/ NewAppFails
              \/ Listen

-----------------------------------------------------------------------------
(* setup.Handler: page and create lead the operator to GitHub, callback    *)
(* brings the App back.                                                    *)

At(a, l) == cb' = [cb EXCEPT ![a] = l]

CreateApp(a) ==
  /\ phase = "setup" /\ cb[a] = "none" /\ At(a, "redirect")
  /\ asked' = [asked EXCEPT ![a] = setups]
  /\ UNCHANGED <<pinned, fileVars, runVars, cliVars, hostVars, deaths>>

\* Mutant: the state of the request is not looked at.
CallbackUnchecked(a) ==
  /\ cb[a] = "redirect" /\ phase = "setup"
  /\ \/ At(a, "key")
     \/ "github" \in Faults /\ At(a, "over")
  /\ UNCHANGED <<pinned, fileVars, runVars, asked, cliVars, hostVars, deaths>>

\* The state must be this handler's; the code is good for one exchange.
Callback(a) ==
  /\ cb[a] = "redirect" /\ phase = "setup"
  /\ \/ asked[a] = setups /\ At(a, "key")
     \/ (asked[a] # setups \/ "github" \in Faults) /\ At(a, "over")
  /\ UNCHANGED <<pinned, fileVars, runVars, asked, cliVars, hostVars, deaths>>

\* Mutant: a key that is there is kept.
OpenMissing(a) ==
  /\ \/ /\ cb[a] = "key" /\ UNCHANGED credsFile
        /\ keyFile' = IF keyFile \in Apps THEN keyFile ELSE "torn"
        /\ At(a, IF keyFile \in Apps THEN "creds" ELSE "keyOpen")
     \/ cb[a] = "creds" /\ credsFile' = "torn" /\ UNCHANGED keyFile
        /\ At(a, "credsOpen")
  /\ UNCHANGED <<pinned, runVars, asked, cliVars, hostVars, deaths>>

\* os.WriteFile empties the file and fills it.  A full disk ends the callback.
OpenFile(a) ==
  /\ \/ cb[a] = "key" /\ keyFile' = "torn" /\ UNCHANGED credsFile
        /\ At(a, "keyOpen")
     \/ cb[a] = "creds" /\ credsFile' = "torn" /\ UNCHANGED keyFile
        /\ At(a, "credsOpen")
  /\ UNCHANGED <<pinned, runVars, asked, cliVars, hostVars, deaths>>

FillFile(a) ==
  /\ \/ cb[a] = "keyOpen" /\ keyFile' = a /\ UNCHANGED credsFile
        /\ At(a, "creds")
     \/ cb[a] = "credsOpen" /\ credsFile' = a /\ UNCHANGED keyFile
        /\ At(a, "page")
  /\ UNCHANGED <<pinned, runVars, asked, cliVars, hostVars, deaths>>

SaveFails(a) ==
  /\ "disk" \in Faults /\ cb[a] \in Saving /\ At(a, "over")
  /\ UNCHANGED <<pinned, fileVars, runVars, asked, cliVars, hostVars, deaths>>

\* Mutant: a page that could not be sent ends the callback.
CloseIfShown(a) ==
  /\ cb[a] = "page" /\ At(a, "over")
  /\ done' \in (IF "page" \in Faults THEN BOOLEAN ELSE {TRUE})
  /\ UNCHANGED <<pinned, fileVars, phase, setups, loaded, asked, cliVars,
                 hostVars, deaths>>

\* The success page, shown or not, and once.Do.
Close(a) ==
  /\ cb[a] = "page" /\ At(a, "over") /\ done' = TRUE
  /\ UNCHANGED <<pinned, fileVars, phase, setups, loaded, asked, cliVars,
                 hostVars, deaths>>

CallbackStep(a) == OpenFile(a) \/ FillFile(a) \/ Close(a)

-----------------------------------------------------------------------------
(* prevly status and prevly destroy.                                       *)

\* Mutant: a socket that refuses is an error like any other.
QueryAbsent ==
  /\ status = "idle"
  /\ status' = IF socket = "none" THEN "down" ELSE "dialed"
  /\ raced' = (phase \in {"app", "serve"} \/ lock = "destroy")
  /\ UNCHANGED <<pinned, fileVars, runVars, appVars, hostVars, destroys, deaths>>

\* Query dials the socket: absent or refusing, the daemon is not running.
Query ==
  /\ status = "idle"
  /\ status' = IF socket = "live" THEN "dialed" ELSE "down"
  /\ raced' = (phase \in {"app", "serve"} \/ lock = "destroy")
  /\ UNCHANGED <<pinned, fileVars, runVars, appVars, hostVars, destroys, deaths>>

\* The daemon answers, or dies with the request.
Answer ==
  /\ status = "dialed"
  /\ status' = IF socket = "live" THEN "answered" ELSE "failed"
  /\ UNCHANGED <<pinned, fileVars, runVars, appVars, hostVars, raced, destroys,
                 deaths>>

\* loadPreviews falls back to the store: none yet, read under a shared lock, or
\* 5 seconds of waiting for one.
ReadStore ==
  /\ status = "down"
  /\ status' = IF ~storeFile \/ lock = "free" THEN "answered" ELSE "failed"
  /\ UNCHANGED <<pinned, fileVars, runVars, appVars, hostVars, raced, destroys,
                 deaths>>

StatusEnds ==
  /\ status \in {"answered", "failed"} /\ status' = "idle" /\ raced' = FALSE
  /\ UNCHANGED <<pinned, fileVars, runVars, appVars, hostVars, destroys, deaths>>

StatusStep == Query \/ Answer \/ ReadStore \/ StatusEnds

Destroy ==
  /\ lock = "free" /\ destroys < MaxDestroys
  /\ lock' = "destroy" /\ storeFile' = TRUE /\ destroys' = destroys + 1
  /\ raced' = TRUE
  /\ UNCHANGED <<pinned, fileVars, runVars, appVars, status, socket, deaths>>

DestroyEnds ==
  /\ lock = "destroy" /\ lock' = "free"
  /\ UNCHANGED <<pinned, fileVars, runVars, appVars, cliVars, storeFile, socket,
                 deaths>>

LifeNext ==
  \/ DaemonStep \/ Die \/ StatusStep \/ Destroy \/ DestroyEnds
  \/ \E a \in Apps : CreateApp(a) \/ Callback(a) \/ CallbackStep(a) \/ SaveFails(a)

LifeSpec == LifeInit /\ [][LifeNext]_lifeVars

-----------------------------------------------------------------------------
\* Two Apps were created from the pages of one start.
Crowded == \E a, b \in Apps : a # b /\ asked[a] # 0 /\ asked[a] = asked[b]

\* Save writes two files, and the daemon may die between the steps of either:
\* what is left is the files of one App, or no App, so that setup runs again -
\* unless app.json itself was cut short, or two Apps were created in one start.
SetupSurvives ==
  \/ Crowded \/ \E a \in Apps : cb[a] \in Saving
  \/ credsFile \in {"absent", "torn"} \/ keyFile = credsFile

\* The App that signs with the key is the App whose webhooks are checked.
IdentityIsOneApp ==
  phase \in {"app", "serve", "normal"} /\ ~Crowded => loaded.creds = loaded.key

\* prevly status has an answer, from the daemon or from the store, unless the
\* daemon came or went, or destroy ran, under it.
StatusAnswers == status = "failed" => raced

\* What setup saved is what the daemon runs with in the end: it never remains
\* in the setup phase, and no restart, lock or command keeps it from serving.
SavedIsServed ==
  (credsFile \in Apps /\ keyFile = credsFile)
     ~> (phase = "normal" \/ credsFile = "torn" \/ keyFile = "torn")
=============================================================================
