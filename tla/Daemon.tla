------------------------------- MODULE Daemon -------------------------------
(***************************************************************************)
(* The daemon from its first start to the reports of reviewers: the process*)
(* of Setup, and once it serves, the webhooks of PullRequests and the door *)
(* that Door models.  What is stored outlives the process; the limiter     *)
(* does not.                                                               *)
(***************************************************************************)
EXTENDS Setup, Door

CONSTANT MaxEvents  \* a bound on webhooks and requests together

vars == <<lifeVars, prVars, doorVars>>

TypeOK == LifeTypeOK /\ PRTypeOK /\ DoorTypeOK

Init == LifeInit /\ PRInit /\ DoorInit

\* Bounds of the model.  Webhooks and requests come to a daemon whose App is
\* pinned, after any use of the CLI, and of all that may trouble the daemon only
\* one death comes between them; the last webhook does not meet a request; time
\* passes after the webhooks, and after one at most.
Events     == webhooks + visits
Serving    == /\ phase = "normal" /\ pinned /\ destroys = 0 /\ status = "idle"
              /\ Events = 0 => deaths = 0
Room       == Serving /\ Events < MaxEvents
Unmixed(n) == visits = 0 \/ n < MaxWebhooks

Life(A) == A /\ UNCHANGED <<prVars, doorVars>>

Dies == /\ Events = 0 \/ (deaths = 0 /\ Events < MaxEvents - 1)
        /\ Die /\ ForgetClosed /\ Forget /\ UNCHANGED <<jar, visits>>

CliStep == Events = 0 /\ Life(StatusStep \/ Destroy \/ DestroyEnds)

Webhook == /\ Room /\ now = 0 /\ Unmixed(webhooks + 1)
           /\ WebhookStep /\ UNCHANGED <<lifeVars, doorVars>>

TTL == /\ Serving /\ now = 0 /\ ExpireStep /\ UNCHANGED <<lifeVars, doorVars>>

Visit == /\ Room /\ webhooks < MaxWebhooks
         /\ VisitStep /\ UNCHANGED lifeVars

\* A webhook with a wrong signature or of another kind, a request for a host or
\* path that is not there or without its cookie or key: answered, and that is all.
TurnedAway == phase = "normal" /\ UNCHANGED vars

Clock == Serving /\ webhooks < 2 /\ Passes /\ UNCHANGED lifeVars

Next ==
  \/ Life(DaemonStep) \/ Dies \/ CliStep
  \/ \E a \in Apps :
       Life(CreateApp(a) \/ Callback(a) \/ CallbackStep(a) \/ SaveFails(a))
  \/ Webhook \/ TTL \/ Visit \/ Clock \/ TurnedAway

Fairness == /\ WF_vars(Life(DaemonStep)) /\ WF_vars(Life(DestroyEnds))
            /\ \A a \in Apps : WF_vars(Life(CallbackStep(a)))

Spec == Init /\ [][Next]_vars
FairSpec == Spec /\ Fairness

Refusals == [][RefusedForCause]_doorVars
=============================================================================
