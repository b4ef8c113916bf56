------------------------------ MODULE Limiter ------------------------------
(***************************************************************************)
(* internal/feedback/ratelimit.go: a token bucket for each host and site.  *)
(*                                                                         *)
(* Time is counted in ticks: a bucket earns one unit a tick and a report   *)
(* costs Cost of them, so that the code's fractions of a token are whole.  *)
(***************************************************************************)
EXTENDS Integers, Sequences, FiniteSets

CONSTANTS Buckets,  \* the hosts and "site:" names that ask
          Rate,     \* max_per_hour
          Cost,     \* ticks in which a report is earned
          Second    \* ticks in a second, for Retry-After

ASSUME RateAssumption == /\ Rate \in Nat \ {0} /\ Cost \in Nat \ {0}
                         /\ Second \in Nat \ {0}

VARIABLES now,
          bucket,  \* bucket[k]: of the limiter, or NoBucket
          let,     \* let[k]: when the limiter let a report in
          due      \* due[k]: when the last Retry-After said to come again

limiterVars == <<now, bucket, let, due>>

Full     == Rate * Cost
NoBucket == [tokens |-> -1, at |-> 0]
Never    == -1

LimiterTypeOK ==
  /\ now \in Nat
  /\ bucket \in [Buckets -> [tokens : 0 .. Full, at : 0 .. now] \cup {NoBucket}]
  /\ let \in [Buckets -> Seq(0 .. now)]
  /\ due \in [Buckets -> Int]

LimiterInit == /\ now = 0 /\ bucket = [k \in Buckets |-> NoBucket]
               /\ let = [k \in Buckets |-> <<>>]
               /\ due = [k \in Buckets |-> Never]

-----------------------------------------------------------------------------
(* limiter.allow.                                                          *)

Least(a, b) == IF a < b THEN a ELSE b

\* Mutant: the time of the last visit is not kept.
FilledFromStart(k) ==
  IF bucket[k] = NoBucket THEN [tokens |-> Full, at |-> now]
  ELSE [bucket[k] EXCEPT !.tokens = Least(Full, @ + (now - bucket[k].at))]

\* Mutant: a bucket starts empty.
FilledFromNothing(k) ==
  IF bucket[k] = NoBucket THEN [tokens |-> Cost, at |-> now]
  ELSE [tokens |-> Least(Full, bucket[k].tokens + (now - bucket[k].at)),
        at |-> now]

\* The bucket of k, brought up to date.
Filled(k) ==
  IF bucket[k] = NoBucket THEN [tokens |-> Full, at |-> now]
  ELSE [tokens |-> Least(Full, bucket[k].tokens + (now - bucket[k].at)),
        at |-> now]

\* Mutant: a part of a token is enough.
AllowOwing(k) ==
  /\ Filled(k).tokens > 0
  /\ bucket' = [bucket EXCEPT ![k] = [Filled(k) EXCEPT !.tokens = @ - Cost]]
  /\ let' = [let EXCEPT ![k] = Append(@, now)]
  /\ due' = [due EXCEPT ![k] = Never]

Allow(k) ==
  /\ Filled(k).tokens >= Cost
  /\ bucket' = [bucket EXCEPT ![k] = [Filled(k) EXCEPT !.tokens = @ - Cost]]
  /\ let' = [let EXCEPT ![k] = Append(@, now)]
  /\ due' = [due EXCEPT ![k] = Never]

\* Mutant: the whole seconds of the wait, be it none.
RetryAfterCut(wait) == wait \div Second

\* Retry-After: the wait, a second at least, rounded to the nearest second.
RetryAfter(wait) ==
  LET w == IF wait < Second THEN Second ELSE wait
  IN  (2 * w + Second) \div (2 * Second)

Refuse(k) ==
  /\ Filled(k).tokens < Cost
  /\ bucket' = [bucket EXCEPT ![k] = Filled(k)]
  /\ due' = [due EXCEPT ![k] =
               now + RetryAfter(Cost - Filled(k).tokens) * Second]
  /\ UNCHANGED let

-----------------------------------------------------------------------------
Pass == now' = now + 1 /\ UNCHANGED <<bucket, let, due>>

\* The limiter lives in memory: a restart has every bucket full again.
Forget == /\ bucket' = [k \in Buckets |-> NoBucket]
          /\ let' = [k \in Buckets |-> <<>>] /\ due' = [k \in Buckets |-> Never]
          /\ UNCHANGED now

LimiterNext == \/ \E k \in Buckets : (Allow(k) \/ Refuse(k)) /\ UNCHANGED now
               \/ Pass \/ Forget

LimiterSpec == LimiterInit /\ [][LimiterNext]_limiterVars

-----------------------------------------------------------------------------
\* Within any time, no host or site is let more reports than a full bucket and
\* what was earned meanwhile.
RateHeld ==
  \A k \in Buckets : \A i, j \in DOMAIN let[k] :
    i <= j => (j - i + 1) * Cost <= Full + let[k][j] - let[k][i]

\* Whoever comes again half a second after the time that Retry-After named is
\* let in, unless somebody else was: the header is rounded to the nearest second.
RetryAfterHonest ==
  \A k \in Buckets :
    due[k] # Never /\ 2 * (now - due[k]) >= Second => Filled(k).tokens >= Cost

\* A reviewer is refused only when the last hour saw max_per_hour reports.
RefusedForCause ==
  \A k \in Buckets : due'[k] # due[k] /\ due'[k] # Never =>
    Cardinality({i \in DOMAIN let[k] : let[k][i] > now - Full}) >= Rate
=============================================================================
