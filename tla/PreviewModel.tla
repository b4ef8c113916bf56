---------------------------- MODULE PreviewModel ----------------------------
(***************************************************************************)
(* internal/model: the preview record, its state machine and its two       *)
(* windows.  A record keeps what the reconciler's decisions depend on:     *)
(*                                                                         *)
(*   status  Status; "destroyed" stands for "no record", because the code  *)
(*           deletes the record of a destroyed preview and never stores    *)
(*           that status                                                   *)
(*   cid     ContainerID, 0 when empty; NetworkName, ContainerPort and     *)
(*           RunEnv are set with it (Port earlier, by upsertBuilding, and  *)
(*           no decision depends on it)                                    *)
(*   img     the commit named by ImageTag, 0 when empty; CommitSHA is      *)
(*           assigned together with ImageTag                               *)
(*   dep     DeploymentID, 0 when empty                                    *)
(*   age     now - LastSeenAt, in steps of an abstract clock, up to TTLAge *)
(***************************************************************************)
EXTENDS Integers

CONSTANTS IdleAge,     \* Preview.Idle, in clock steps
          TTLAge,      \* Preview.TTL, in clock steps
          Cids,        \* container ids docker can give out
          Deps,        \* deployment ids GitHub can give out
          MaxCommit    \* the commits of a pull request are 1..MaxCommit

ASSUME WindowsAssumption == /\ IdleAge \in Nat \ {0}
                            /\ TTLAge \in Nat
                            /\ IdleAge < TTLAge

ASSUME IdsAssumption == /\ Cids \subseteq Nat \ {0}
                        /\ Deps \subseteq Nat \ {0}
                        /\ MaxCommit \in Nat \ {0}

Status == {"building", "running", "sleeping", "failed", "destroyed"}

allowedTransitions ==
  [ building  |-> {"running", "failed", "destroyed"},
    running   |-> {"sleeping", "building", "failed", "destroyed"},
    sleeping  |-> {"running", "building", "destroyed"},
    failed    |-> {"building", "destroyed"},
    destroyed |-> {"building"} ]

CanTransition(s, to) == s = to \/ to \in allowedTransitions[s]

Commits == 1 .. MaxCommit

Preview == [ status : Status,
             cid    : Cids \cup {0},
             img    : Commits \cup {0},
             dep    : Deps \cup {0},
             age    : 0 .. TTLAge ]

\* What the store answers for a key it does not hold.
Absent == [status |-> "destroyed", cid |-> 0, img |-> 0, dep |-> 0, age |-> 0]

\* Mutant: the status is not tested.
IdleSinceAnyStatus(p) == p.age >= IdleAge

IdleSince(p) == p.status = "running" /\ p.age >= IdleAge

Expired(p) == p.status # "destroyed" /\ p.age >= TTLAge

\* The record as it reads one clock step later.
Older(p) == IF p.status # "destroyed" /\ p.age < TTLAge
            THEN [p EXCEPT !.age = @ + 1] ELSE p
=============================================================================
