------------------------------ MODULE Lifecycle ------------------------------
(***************************************************************************)
(* What prevly promises of previews, without goroutines, docker or GitHub: *)
(* each moves along model.allowedTransitions, there are never more than    *)
(* MaxPreviews, and those of a closed pull request only come to an end.    *)
(***************************************************************************)
EXTENDS PreviewModel, FiniteSets

CONSTANTS PRs, Apps, MaxPreviews

VARIABLES status,  \* the Status of each preview
          shut     \* pull requests that are closed

lvars == <<status, shut>>

Previews == PRs \X Apps
Alive == {k \in Previews : status[k] # "destroyed"}

LInit == status \in [Previews -> Status] /\ shut = {}

\* A preview of an open pull request is built, runs, sleeps, wakes or fails.
Move(k) ==
  /\ k[1] \notin shut
  /\ \E s \in Status : /\ CanTransition(status[k], s)
                       /\ status' = [status EXCEPT ![k] = s]
  /\ status[k] = "destroyed" => Cardinality(Alive) < MaxPreviews
  /\ UNCHANGED shut

\* One of a closed pull request goes.
End(k) == /\ k \in Alive /\ status' = [status EXCEPT ![k] = "destroyed"]
          /\ UNCHANGED shut

Close(r)  == r \notin shut /\ shut' = shut \cup {r} /\ UNCHANGED status
Reopen(r) == r \in shut /\ shut' = shut \ {r} /\ UNCHANGED status

LNext == \/ \E k \in Previews : Move(k) \/ End(k)
         \/ \E r \in PRs : Close(r) \/ Reopen(r)

LSpec == LInit /\ [][LNext]_lvars
=============================================================================
