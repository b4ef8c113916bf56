# TLA+ models of prevly

prevly is a daemon that gives every pull request of a repository a preview: it
builds the head commit, runs it in a container, routes a host name to it, puts
it to sleep when idle, wakes it on a request and tears it down when the pull
request closes. Reviewers send feedback from a preview, or from any configured
site, which becomes a comment or an issue. This directory holds models of the
reconciler, of the feedback service, and of the daemon around them from its
first start to a reviewer's request, the TLC runs that check them and the proofs
TLAPS checks.

    tlc -workers 2 -config serial.cfg MCReconciler.tla     # one run
    tlapm ReconcilerProofs.tla                             # the proofs of a module

## 1. Inventory

| Component | State | Operations | Hard part | Correct when |
|---|---|---|---|---|
| Preview record (`internal/model`) | status, container, image, Deployment, last activity, windows | state machine, `IdleSince`, `Expired` | nobody consults the table of transitions | every write is a legal transition |
| Store (`internal/store`) | one bbolt bucket of records, one of reports, a file lock | Open, Get, Put, Delete, List… | a transaction per call: copies go stale between them | the record is the truth about the host |
| Reconciler, deploys (`reconcile/deploy.go`, `feedback.go`) | `buildSem`, `closedPRs` | deploy, build, run, recreate, teardown, publish | minutes long, any step fails, two at a time on one preview | slots balance, a closed or destroyed preview stays gone, images are what their tags say |
| Reconciler, events (`reconcile/events.go`, `resolve.go`) | none | closed, opened, synchronize, destroy, redeploy, wake; `Resolve` with wake and touch | goroutine per webhook and per request, no order between them | what is routed is up and can be recreated |
| ChatOps, filters, configuration (`github/chatops.go`, `config`) | none | parse, gate, match, validate | a glob or a gate that lets too much through | outsiders wait; a host is one preview's |
| Sticky comment (`github/feedback.go`, `reconcile/feedback.go`) | one comment per pull request | find, edit or create | rendered only by some of the operations that change previews | it says what there is, its links open |
| Reconciler, loop (`reconcile/loop.go`) | two snapshots per Tick | sleep, heal, TTL, orphans, work directories, feedback tick | works from snapshots that age while it works | the host drains |
| Docker, builder (`internal/runtime`, `internal/builder`) | containers, networks, images, checkouts | CLI calls | fail half way, fixed names, one checkout per preview | |
| Feedback reports (`internal/feedback`) | records, screenshots, posting attempts | receive, post, retry, sweep, drop at teardown | a handler and Tick hold copies of one record while GitHub answers | posted or given up in the end, twice only for a cause; images swept, never early |
| Feedback door (`internal/feedback`, `internal/ingress`) | cookies, token buckets | activate, report, refuse | fractions, rounding, a restart | the rate holds, and who is refused is told when to come back |
| GitHub App setup (`internal/setup`) | two files, one handler per start | page, callback, `Save`, `Load` | killed between any two steps, two callbacks | one App's key with its own secret, or setup again |
| Status API and CLI (`internal/statusapi`, `cmd/prevly`) | a socket, the store's lock | query, fallback, destroy | a daemon that comes and goes under it | status has an answer |
| Daemon (`cmd/prevly/run.go`) | phase, goroutines | start, stop, restart | killed at any point | it serves what setup saved |
| GitHub (`internal/github`) | pull requests, Deployments, environments, comments, issues | webhooks in, API calls out | lost, reordered, late, timed out though done | |

Calls between them: the webhook server and the ingress each start a goroutine per
call, which runs a handler of the reconciler or of the feedback service to its
end; `Run` is one more goroutine that calls `Tick` every minute, and from it the
feedback tick. All of them read and write the same store, the same docker host
and the same GitHub repository; `buildSem`, `closedMu` and the limiter's mutex
are the only synchronisation. The reconciler calls the feedback service back at
a teardown (`OnTeardown`) and at a Tick (`FeedbackTick`). The CLI is a process of
its own, which meets the daemon at the status socket and at the store's lock.

PROJECT.json lists every component and, under `hazards`, what in this code is
hard to reach with a test.

## 2. The modules

| Module | Models |
|---|---|
| `PreviewModel` | the record, its transitions and windows |
| `PreviewHost` | the shared state, the goroutines' program counters and local variables, the store's and docker's primitive operations, `TypeOK`, `Init` |
| `Deploy` | `deployApp`, `buildImage`, `Checkout`, `runContainer`, `recordFailure`, `publish`, `teardownPreview` |
| `Handlers` | `HandlePullRequest`, `/preview destroy`, `redeploy` and `wake`, `wake`, `recreateFromImage`, `Resolve`, `touch` |
| `TickLoop` | `Tick`: list, heal, TTL, sleep, orphans, work directories |
| `Reconciler` | the composition: outside world, `prevly destroy`, restarts, clock, fairness, properties |
| `Lifecycle` | abstract: what a preview may become, how many there may be, what a closed pull request may still do |
| `Feedback` | a report's handler and the posting that handler and Tick share: screenshot, record, comment, issue found by marker or created, persist |
| `FeedbackTick` | the feedback tick (retry, site sweep, image sweep), teardown, restart, properties |
| `Outbox` | abstract: accepted once, sent after that, a bounded number of times |
| `Setup` | `runDaemon` to its serving, `internal/setup`, the store's lock, the status socket, `prevly status` and `destroy` beside them |
| `RepoConfig` | `.prevly.yml`: `Validate`, globs, branch filters, `Host`; `ParseCommand` and the gates |
| `PullRequests` | webhooks to deployed apps, and the sticky comment |
| `Limiter` | the token bucket |
| `Door` | the proxy's choice of handler, the cookie, reports through the limiter |
| `Daemon` | `Setup` and, once it serves, `PullRequests` and `Door` |
| `MCReconciler`, `MCFeedback`, `MCDaemon` | instances for TLC |
| `ReconcilerProofs`, `RoutableProofs`, `SerialProofs`, `HostProofs`, `LifecycleProofs` | the proofs about `Reconciler`, each on top of the one before |
| `FeedbackProofs` | the proofs about `FeedbackTick` |
| `DoorProofs` | the proofs about `RepoConfig`, `PullRequests`, `Door` and `Limiter` |
| `DaemonProofs` | the proofs about `Setup` and `Daemon`, on top of `DoorProofs` |

The system is modelled at three grains, because one state space for all of it
would be beyond TLC. `Reconciler` has every interleaving of deploys, requests and Ticks,
and leaves open which apps a webhook deploys. `Daemon` settles that, with configurations, forks,
commands and the comment, and takes a deploy as one step. `FeedbackTick` has every
interleaving of posting, Ticks and teardowns, and takes a preview as a name that is
there or not. They meet at the record's states and at `OnTeardown`.

**Reconciler.** A goroutine is a program counter `pc[self]` and a
record of local variables `loc[self]`; an action is what the code does from one
call that another goroutine can interfere with to the next: a store transaction,
a checkout, a build, a `docker run`, a readiness wait, a GitHub call. The
handlers hold copies of records (`loc[self].p`, and `todo` for the
lists they loop over), and `Put` writes all of a copy back, as in the code.
`status = "destroyed"` stands for "no record": the code deletes a destroyed
record and never stores that status, so `Absent` is what a missing key reads as.
`cid` stands for ContainerID together with NetworkName, ContainerPort and
RunEnv, which are assigned with it (Port has a value before, from `upsertBuilding`, and
ports are not modelled); `img` for ImageTag and CommitSHA. A container remembers the commit its image was built
from (`src`), which is how the runs see that a record and its container differ.

The clock: `Tick` reads it once, at its start, so the age of a record
(`now - LastSeenAt`) matters only there. `Tick(TRUE)` is a Tick by which time has
passed: it makes the records, and the copies of them other goroutines hold, one
step older, up to the TTL. Ids of containers and Deployments are given out again
once nothing refers to them, so that runs without end stay finite.

**Feedback.** A poster is a report's handler or the loop; each has a `pc` and the
`copy` of the record it works on, which `Persist` writes back whole. `landed` is what
GitHub has, `calls` what it was asked, `unheard` what it did without the daemon keeping the
answer: a post that timed out may be any of the three. `old` holds the ids past
the retention; `laps` counts the Ticks that began while a handler was posting,
`caught` holds the reports somebody had in hand when their preview was last torn
down, or that came in meanwhile. A teardown is `OnTeardown`, then `DeletePreview`; where the
reconciler has no `onTeardown` (it is nil in `prevly destroy`, cmd/prevly/destroy.go:42,
and with feedback off, and deploy.go:276 skips it) the preview goes alone, between two lives of
the daemon: `TornDownUnwired`, which `unwired` remembers until the preview's next teardown.

**Daemon.** `phase` is where `runDaemon` stands; `cb[a]` where the callback that
brings App `a` stands in `Save`, which writes each file in two steps (opened and
truncated, filled), so that a death leaves it `"torn"`. `asked[a]` is the start
whose page created `a`, so that `state` is compared as in `callback`. A preview
record has the configuration it was deployed by, its host and its token; the
comment is a set of rows or a notice. The limiter counts in ticks: a bucket earns one unit a tick,
a report costs `Cost`, so that the code's fractions of a token are whole numbers.

## 3. The runs

| Run | Instance | Shows |
|---|---|---|
| `serial` | 2 pull requests, 1 app, 1 slot, one goroutine at a time, 5 events, installation known, failing builds and readiness | `CapacityRespected`, `RecordMatchesHost`, `BuildingHasBuilder`, `NameIsFree`, `ClosedLeavesNothing`, `LifecycleKept` |
| `concurrent` | 2 pull requests, one with a preview that runs at the start, 1 slot, 2 at a time, 2 events, every fault but leftovers, which `drain` has | `TypeOK`, `BuildSlots`, `RoutableIsRecreatable`, `OverLimitHasCause` |
| `drain` | 1 preview that runs at the start, 2 at a time, leftovers and restarts, fair | `HandlersEnd`, `HostDrains` |
| `reports` | 1 report of a preview or a site, 2 attempts, 2 Ticks during a handler's post, 1 restart, 1 redeploy, every fault | `TypeOK`, `RetriedAtMost`, `DuplicateHasCause`, `TornDownIsGone`, `ScreenshotKept`, `ReportsEnd`, `Swept`, `OutboxKept` |
| `daemon` | 2 Apps, 2 deaths, 1 destroy; 2 pull requests, one of an outsider, 4 configurations, 3 webhooks, 4 events; 10 ticks of 4 to a second, 2 reports an hour | `TypeOK`, `SetupSurvives`, `IdentityIsOneApp`, `StatusAnswers`, `SavedIsServed`, `HostsDistinct`, `OutsidersWait`, `CommentTellsTruth`, `GlobsMeant`, `LinksOpen`, `RateHeld`, `RetryAfterHonest`, `Refusals` |

### The reconciler's runs

`MaxEvents` bounds the outside events
(webhooks, comments, requests, prunes, exits, restarts, outages), `MaxBusy` the
goroutines that run at once, the loop included; Ticks are not bounded.
`Faults` names what the outside world may do in a run (see `Reconciler`):
failing builds, runs and readiness, a `docker run` that leaves its container
behind, outages of docker and GitHub, lost webhooks, comments on closed pull
requests, the operator's prune, exiting apps, restarts, `prevly destroy`.

Why these bounds: with one goroutine at a time the state at rest is what counts,
and the longest story is one of several events (open, push, fail, destroy, close,
reopen, on two pull requests that compete for one slot), so `serial` has five. A
race needs two goroutines and what made them start: in `concurrent` two events
and the Tick that is always possible give every pair of handlers, and every
handler against Tick, over a preview that already runs and beside a pull request that has
none yet, for which there is no slot until the first is gone. Commit 2 makes stale
writes visible; container ids are more than can be referred to at a time.

`LifecycleKept` is a refinement: with `status` the stored status of each preview and
`shut` the closed pull requests, every behaviour of `serial` is one of `Lifecycle`: previews move along
`allowedTransitions`, never more than `MaxPreviews` at a time, and those of a closed
pull request only end.

The limit on previews is the same count in two places, `checkCapacity` and the Put that
comes later. With one goroutine at a time it holds (`CapacityRespected` in `serial`); two
goroutines break it (`capacity_raced`, which needs no fault and no command: two webhooks
and one slot). `OverLimitHasCause`, checked in `concurrent` with every fault, says that there
are only two ways past it: a deploy is admitted while another one is between its check and its
Put, or a stale copy brings a deleted record back. Slots are counted as taken from
the check on (`SlotsTaken`).

What the sequential properties assume is in their run: `serial` has no lost
webhooks, comments on closed pull requests, leftovers or prunes, and with them
(or with two goroutines) several of its properties fail. The seven `violation`
runs show where that contradicts what the sources say:

| Run | What the sources say | What the code does |
|---|---|---|
| `destroyed_midbuild` | `abandoned` reports a record "deleted while a long step ran" (deploy.go:321) | its test of the record can never be true: `Get` answers a missing record with an error |
| `closed_midcommit` | "A PR merged while its build is queued must not come back" (reconcile_test.go:614) | check and write are two steps, and the first write checks nothing |
| `shared_checkout` | `Checkout` gives "the exact PR-head commit" (source.go:19) | two deploys of a preview share the directory |
| `capacity_raced` | "limit: %d concurrent previews" (github/feedback.go:61) | check and Put are two steps: two deploys pass with one slot left |
| `stale_touch` | the record "is the source of truth" (model.go:63) | `touch` writes a stale copy over it |
| `wake_failed` | only records of older versions lack recreate metadata (loop.go:83) | `/preview wake` makes a failed preview running |
| `reports_outlive` | "Teardown of a preview deletes its feedback records" (docs/feedback.md:355) | `persist` puts back the report whose comment was under way |

### `reports`

One report has every race in it: its handler against up to two Ticks, each against a
teardown and a redeploy of its preview or a sweep, and a death at any step; what
reports share (the loop's list, the installation cache, the configuration) does
not order them. Two attempts stand for five: a first, a last and one too many.
The report is of a preview or of a site, whose site may be out of the
configuration after a restart.

The properties are what the documentation promises, with what the code
adds to it. "A comment is retried at most 5 times" holds up to an attempt for
each Tick that overtook the handler and for each restart (`RetriedAtMost`). "One
plain comment per feedback" (docs/feedback.md) holds unless a Tick overtook the
handler or an answer was lost (`DuplicateHasCause`); for an issue, lost answers are
no excuse, since the retry finds the marker. "Teardown of a preview deletes its
feedback records" has two properties. `TeardownDeletes` is the sentence as it stands: what a teardown
deleted stays deleted; `reports_outlive` refutes it without a fault, a restart or a
redeploy. `TornDownIsGone` is what the code does keep: of a preview that is gone no report is stored but
those in somebody's hands at its last teardown (which `persist` may put back), those that came
in during it, and those of a preview whose last teardown had no `onTeardown` to
call. A later teardown takes what an earlier one left behind. `OutboxKept` is the refinement of `Outbox`.

### `daemon`

The stages follow each other (`Serving`, `Room`, `Unmixed` and `Events` in
`Daemon` are the bounds): setup with its deaths and the CLI beside it, on a host without
or with an App in its configuration; then webhooks and visits to a daemon whose App is
configured, with one death between them; time passes after at most one
webhook. Three webhooks make open, push and comment, or two pull requests and a
command; four configurations have one app, the same app renamed (so that its host
changes hands), two apps with globs, and one that must be refused. Ten ticks are
two costs: a full bucket is emptied and half of it earned again.

`SetupSurvives` and `IdentityIsOneApp` except what nothing in the code excludes:
two Apps created from the pages of one start (`Crowded`), and an `app.json` cut short,
which stops the daemon until an operator removes it. `StatusAnswers` excepts a daemon
that came or went under the command: its lock makes the store's open time out.
`LinksOpen` excepts a preview that a close or the TTL took since, whose row the code
leaves in the comment, an opted out repository, and a host that two previews
claim. `HostsDistinct` says when they do. `RateHeld` is a bound over any window,
not only the last hour; `Refusals` says that a refusal has that many reports
before it; `RetryAfterHonest` that who returns half a second after the time
named is not refused for that (the header rounds to the nearest second).

Every property of a passing run has a mutant in PROJECT.json: a plausible slip in
the code, as an operator beside the one it changes, that makes the run fail.

### Fairness

`Reconciler!FairSpec`: every handler goroutine that can go on does (weak fairness of
`GoroutineStep(g)`, for the Go scheduler), so does the loop, a Tick by which time
has passed happens again and again (strong fairness: it waits for a Tick under
way, and for the bound `MaxBusy`), and outages end. Nothing is assumed of the
outside world otherwise; since its events are bounded, "in the end" is after the
last of them. Waiting for a build slot is weakly fair only while it stays free,
as the channel send of `buildImage` is.

`HostDrains` says that with no more visitors the TTL frees everything: records,
containers (by record or as orphans) and checkouts. It leaves out networks and
images, which the code leaks (a network when its container could not be
removed, images of earlier commits). `drain` leaves out outages to stay short: with
docker outages added it holds too, on 770 857 states in four minutes.

`FeedbackTick!FairSpec`: the loop and every handler go on (scheduler, ticker and the
10 second limit on a post), and ids age. Requests, teardowns, restarts and good
answers from GitHub are not owed.

`Daemon!FairSpec`: the daemon's own steps, its start included (`Restart=on-failure`,
packaging/prevly.service; `Die` stands for a clean stop too, after which it is the operator who
starts it), the end of a `destroy`, and a callback's steps once it is in. The operator's
browser owes nothing: the redirect that begins a callback is not fair.

## 4. The proofs

All theorems hold for every value of the constants that meets the modules' named
assumptions: limits and windows natural or positive, disjoint names, a finite
set of goroutines without the loop, a bucket for every host and site,
configurations whose apps are a sequence, with names and subdomains that are strings
and globs that are, like paths, sequences of segments (`ConfigsAssumption`). Every
invariant and every action property of a passing run is a theorem, those of
`serial` under the hypotheses named below.

| Module | Theorems |
|---|---|
| `ReconcilerProofs` | `TypeCorrect`, `BuildSlotsHeld` |
| `RoutableProofs` | `RoutableHeld`, `OverLimitHasCauseHeld`, `CapacityHeld` |
| `SerialProofs` | `CapacityAlone`, and what the next two modules stand on |
| `HostProofs` | `NameIsFreeHeld`, `RecordMatchesHostHeld` |
| `LifecycleProofs` | `BuildingHasBuilderHeld`, `LifecycleImplemented`, `ClosedLeavesNothingHeld` |
| `FeedbackProofs` | `TypeCorrect`, `RetriedAtMostHeld`, `ScreenshotKeptHeld`, `TornDownIsGoneHeld`, `DuplicateHasCauseHeld`, `OutboxImplemented` |
| `DoorProofs` | `MatchIsMeant`, `GlobsMeantHeld`, `OutsidersWaitHeld`, `CommentTellsTruthHeld`, `HostsDistinctHeld`, `LinksOpenHeld`, `RateHeldAlways`, `RetryAfterHonestAlways`, `RefusedForCauseAlways` |
| `DaemonProofs` | `SetupSurvivesHeld`, `IdentityIsOneAppHeld`, `StatusAnswersHeld`, `LifeImplemented`, `PullRequestsImplemented`, `LimiterImplemented`, `TypeCorrect`, and, as `Daemon…`, what these make of the theorems before them |

**Build slots.** The inductive invariant is `TypeOK /\ BuildSlots`. `TypeOK` alone is not
inductive: `sem \in Nat` survives `LeaveBuild`'s `sem - 1` only because the
goroutine that leaves is counted, which is `BuildSlots`; and `BuildSlots` needs
the types of `pc` for its count of goroutines. There is a lemma per action
for its types, lemmas that an action moves one goroutine into, out of, or
neither into nor out of `BuildPCs` (`FiniteSetTheorems` gives the cardinalities),
and a step lemma that puts them together.

**Routable records.** `RoutableHeld` has one hypothesis, that reviewers do not use
`/preview wake`: with it the run `wake_failed` refutes the property, and the other
commands and every fault are allowed. `RInv` says of each program counter what its
copies must be: at the steps that write a record as running or sleeping whatever its
status (`Routing`), or on the way to it (`Finishing`), the copy names a container and
an image, and every copy anyone holds that is running or sleeping does. It needs no
relation between two goroutines, which is why it survives every interleaving.

**The limit on previews.** `OverLimitHasCauseHeld` has no hypothesis but that the previews found at the start
are finitely many: any number of goroutines, any faults, any commands. Step by step, `SlotsTaken` grows only
where `checkCapacity` lets a deploy pass (`Admits`) or a copy is put back (`PutsBack`); every other Put is of
a record that is there or of a deploy that was admitted, whose slot was counted then (`NoNewcomer`). Who passes alone has
seen every slot that is taken, and `checkCapacity` leaves room for one (`TakesOne`). `CapacityHeld` follows by
`SlotsBound`, which is inductive under it: as long as no step is one of the two (`Unraced`) and the start
is within the limit, so is every state. Its hypothesis is not a bound on the goroutines: it names the very
steps `capacity_raced` takes, and nothing else goes past the limit.

**One thing at a time.** The other properties of `serial` are false as soon as two
goroutines meet on a preview, as the `violation` runs show, so their theorems
say what the code does guarantee: `Sequential` is `MaxBusy = 1` without `/preview wake`, for any
number of pull requests, apps, commits, slots and events. `SeqInv` follows the one
goroutine that is busy: it is on the way of its event (`OnItsWay`, with the
place each call returns to), and its copy and its list are what the store holds,
or what it is about to write there (`Copied`, `Listed`). `CapInv` adds that who passed `capacity` but has
not put its record still finds room. With this the daemon keeps its
limit alone (`CapacityAlone`), with no hypothesis on how. The other theorems need more of the world:

| Hypothesis | Excludes | Without it |
|---|---|---|
| `HostSteady` | prunes, exits, outages of docker, deaths, `prevly destroy`, containers left behind | a record's container is gone, or one it does not name has the fixed name |
| `Heard` | lost webhooks, comments on closed pull requests | a close that never came ends nothing |
| `Survives` | deaths, `prevly destroy` | a build dies with its record saying building |
| `CallsReach` | failing `docker run`, outages of GitHub | a network or a Deployment nobody takes down |

`serial` meets all of them; `NameIsFreeHeld` and `RecordMatchesHostHeld` need `HostSteady`,
`BuildingHasBuilderHeld` `Heard` and `Survives` (docker and GitHub may fail), `LifecycleImplemented`
`Heard` and `HostSteady`, `ClosedLeavesNothingHeld` all but `Survives`, which `HostSteady` contains.
Builds, checkouts and readiness may fail under every one.

**Containers and records.** `HostInv`: a preview's container is the one its record names, as the record
says it is, but for a preview that a goroutine is between changing the container of and writing
it (`Between`), and what those steps find there is `HostAt`. An image is what its tag says
(`ImagesTrue`), and what Tick has not looked at yet is as docker listed it
(`ListTrue`), so that it heals nothing.

**Lives and ends.** `ClosedInv`: of a closed pull request nothing is being deployed, and
every record left is one the teardown under way will come to (`WillEnd`).
`BuildingHasBuilder` is inductive with it. `LifecycleImplemented` maps every step to a move along
`allowedTransitions`, an end, a close or a stutter; `CapInv` gives the room that admitting takes, `HostInv`
that no wake finds its container gone. `CleanInv`: a checkout and a Deployment belong to a record
(`Tidy`), a network to a record with a container or to the goroutine that is about to make one
(`Linked`); with `ClosedInv` nothing of a closed pull request is left.

**Reports.** `IInv` is `TypeOK` with six parts. `Room`: who may still post holds a
record with an attempt left. `Counted`: every call of GitHub is an attempt that a
record, a copy or the loop's list has counted or will, or belongs to a Tick that
overtook the handler or to a restart; it is a case for each place handler and loop
can be in, and is what `RetriedAtMost` alone cannot carry through a write of a
stale copy. `Landed`: GitHub holds no more than it was asked for, less the calls
under way. `Shots`: no copy of a young record names a file that is gone, and the
loop's list of files has old ones only. `Torn`: nobody has a report in hand that a
teardown dropped, but the caught, and no report of a preview torn down with its `onTeardown` is stored. `Cause`: of a preview's report GitHub has no more comments than
the daemon knows of or lost the answer to, and a record that says unposted, a handler or
a loop that may yet comment is counted as one already, so that a comment made spends
what was reserved for it; a site's issue is found by its marker, so only who
looked before there was one makes another. Each has a lemma per group of actions.
`OutboxImplemented` maps the initial states and then every action to `Accept`, `Attempt`, `Land` or a
stutter, from `Landed` and `Counted`.

**Setup.** `Created` and `Current` say that a callback in flight belongs to the handler
of this life; `OneApp`, which holds until two Apps were created in one start,
says how far the files are when a callback is, that the handler finds
`app.json` absent or written by itself, and that what `Load` has half read does not
change before it reads the rest.

**prevly status.** `Held`: the daemon holds the store's lock exactly from `store.Open` on, and
once it serves, it listens. `Asking`: whoever found a socket finds it again, and
whoever found none a free lock, or noticed a race. Both are inductive together.

**Globs and `deployApps`.** Both are recursions over data, as recursive functions. The
induction theorems of the library take an operator as a parameter, which the
provers cannot instantiate; `LeastNat`, a set of naturals has a least member (from
`WFMin`, which is about sets), gives induction over a *set* (`SetInduction`), and that
is enough: the set of the indices where the recursive function is what it should
be. `Places` says which places of a name the rest of a pattern matches
from; `PlacesRecursion` that it satisfies the equation of `matchSegments`, and
induction that nothing else does: `MatchIsMeant`, for every pattern and path. For
`deployApps`, `Arrives` is the sequence of previews and comments app by app, and `Kept`
what one deploy keeps of them.

**Webhooks and comments.** `PRInv`: the previews are finite, one for each app and pull
request, each with the host of its app in the valid configuration it was
deployed by (`InOrder`); `OutsidersWait`, which is inductive with it because every deploy either is
of a trusted author's push or is entered in `approved`; and a comment has the rows of what is
there or went unnoticed, or is a notice without rows (`Comments`). `HostsDistinct` and `LinksOpen`
follow from it in one state.

**The limiter.** `Earned`: for any report let in, the reports since it, at
their cost, and what is left in the bucket are no more than a full bucket and
what was earned from then until the bucket's last visit. A refill and a report keep it;
with a bucket that is never negative it gives `RateHeld` for any two reports.
`Spent` is its converse: what is left in the bucket and the cost of the reports since
any time are at least what was earned since then, or a full bucket, so a refusal
has its `Rate` reports within the hour. `Honest`: by the time last named, the bucket will have
earned a report's cost, but for the half second that rounding may cut off.

**The daemon.** Each step of `Daemon` is a step of `Setup` or leaves its state
alone, and likewise for `PullRequests` and `Limiter`: all three are shown to be implemented, and what
was proved of each holds of the whole. `TypeOK` needs one fact more, `Starts`: setup is begun at most
once more than the daemon dies, because a start that comes back to it without a
death has `app.json`, which nothing removes.

Only model-checked: liveness (`HandlersEnd`, `HostDrains`, `ReportsEnd`, `Swept`,
`SavedIsServed`), since fairness and ENABLED are out of the prover's reach. `ParseCommand` is only
run: the theorems about comments hold whatever it answers.

## 5. Abstractions

- bbolt and the disk under the store never fail; the disk under screenshots and
  setup's files does (`"disk"`). `persist`, which only logs an error, succeeds.
- The 30 minutes of a webhook's context and the 30 seconds of the publisher are
  not modelled: a call that runs out of time is a call that fails. A post that
  runs out of its 10 seconds may have reached GitHub.
- Idle and TTL are positive: a window of 0 disables it, and with no TTL nothing
  drains. The rate is positive: `allow` lets everything through without one. A
  retention is set.
- One step each: the removal of a network's old container with the creation of
  the network, what a teardown does to docker and the work directory, the two reads of
  `abandoned`, a Deployment's creation with the Put of its id and its first
  status.
- Loops over apps and records take them in any order in `Reconciler`, where
  which apps a webhook deploys is any set.
- A new goroutine takes a fixed free one: goroutines differ in name only.
- One repository; names are one to one with keys.
- `PullRequests` handles one webhook at a time and deploys in one step: `Deploy` has
  the interleavings. What a trusted command approves is the head when it is handled.
  A redeploy of a closed pull request leaves its record building, as in `Deploy`
  when the deploy is abandoned. A failed preview has a container to wake, or not.
- `ParseCommand` works on words and lines, globs on path segments; a token is
  drawn afresh, never guessed. `ListByHost` answers the first record by key: any of them here.
- A report that is malformed, too large or without a part has cost a token and is answered.
- GitHub's answers are delivered once; paging and installation tokens are external.

## 6. Not modelled

- `sanitize` and `model/naming.go`, comment and issue Markdown and its escaping, the HTML
  injection, header rewriting: they are about characters, which the models do not have.
- YAML parsing, defaults and durations of the host configuration: their values are the
  constants here. Secrets are environment lookups.
- `backfillFeedbackToken` (records of older versions; it writes back a record of the Tick's
  snapshot, as heal and sleep do) and `maybePrune` (dangling images and build
  cache, which nothing refers to).
- TLS, CertMagic and DNS; ports and resource limits of containers.
- `doctor`, `disk`, `init`, `secret`, `version`: each reads, prints or writes once.
- The feedback widget: one page's event loop, which shares nothing with the
  daemon but the report it sends.

Observed while modelling, with no run of their own:

- `runContainer` promises to "Replace any previous container on redeploy." (reconcile/deploy.go:165) but
  removes only the one the record names. A `docker run` that fails after creating its
  container leaves one with the preview's fixed name that no record names, and the next redeploy's
  `docker run` finds the name taken, until the preview is recreated or gone;
  `recreateFromImage` removes by name (reconcile/deploy.go:226). `"leftover"` in `Faults` is this, and in `drain`.
- `prevly destroy` builds its reconciler without a GitHub client (cmd/prevly/destroy.go:42), and
  `deactivateDeployment` calls it for any preview with an installation and a
  Deployment (reconcile/deploy.go:292): the command dies after it removed the container and before it deletes the
  record. `CliDestroy` is this.
- For a preview without a Deployment the same command goes through, and leaves the preview's reports in the
  store: it has no `OnTeardown` either. So does a daemon with feedback off. (`TornDownUnwired`)
- `deployApps` posts the notice that no slot is left as the sticky comment; the
  next app of the same push renders the table over it, and the author sees the
  "silent absence of preview" that reconcile/feedback.go:108 wants to avoid.
- That notice tells the author to comment `/prevly redeploy` (github/feedback.go:62);
  `ParseCommand` knows `/preview` only.
- Two publishers that find no sticky comment both create one (github/feedback.go:117):
  later edits go to the first.
- The limiter's map of buckets is never emptied; a host stays in it until a restart.
