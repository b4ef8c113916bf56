------------------------------- MODULE Outbox -------------------------------
(***************************************************************************)
(* What the feedback service promises of a report, whatever lies between:  *)
(* it is accepted once, sent only after it was accepted, and GitHub is     *)
(* asked a bounded number of times.  An attempt may reach GitHub or not.   *)
(***************************************************************************)
EXTENDS Naturals

CONSTANTS Reports,
          Budget     \* how often GitHub may be asked for one report

VARIABLES accepted,  \* the reports that were stored at some time
          sent,      \* attempts made, per report
          landed     \* comments or issues GitHub holds, per report

ovars == <<accepted, sent, landed>>

OInit == /\ accepted = {}
         /\ sent = [r \in Reports |-> 0]
         /\ landed = [r \in Reports |-> 0]

Accept(r) == /\ r \notin accepted
             /\ accepted' = accepted \cup {r}
             /\ UNCHANGED <<sent, landed>>

\* The call is made; a comment exists afterwards, or it does not.
Attempt(r) ==
  /\ r \in accepted /\ sent[r] < Budget
  /\ sent' = [sent EXCEPT ![r] = @ + 1]
  /\ \/ landed' = [landed EXCEPT ![r] = @ + 1]
     \/ UNCHANGED landed
  /\ UNCHANGED accepted

\* The second half of an attempt that first looked for what earlier ones left.
Land(r) == /\ r \in accepted /\ landed[r] < sent[r]
           /\ landed' = [landed EXCEPT ![r] = @ + 1]
           /\ UNCHANGED <<accepted, sent>>

ONext == \E r \in Reports : Accept(r) \/ Attempt(r) \/ Land(r)

OSpec == OInit /\ [][ONext]_ovars
=============================================================================
