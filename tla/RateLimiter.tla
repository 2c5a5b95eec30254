----------------------------- MODULE RateLimiter -----------------------------
(***************************************************************************)
(* RateLimiter of src/internal/auth/ratelimit.go: a token bucket per key,  *)
(* refilled when it is asked. Allow and RetryAfter are two critical        *)
(* sections of rl.mu: others may take tokens in between.                   *)
(*                                                                         *)
(* Time goes in ticks, and a bucket is counted in fractions of a token,    *)
(* One of them to a token, so that a tick brings a whole number of them.   *)
(* Rounding of float64 is abstracted. A definition marked "Variant" is a   *)
(* plausible mistake in the definition after it.                           *)
(***************************************************************************)
EXTENDS Integers, FiniteSets

CONSTANTS
  Keys,
  Burst,      \* tokens of a full bucket
  One,        \* fractions that make a token
  Rate,       \* fractions a tick brings
  Second,     \* ticks to a second
  Stale,      \* the ticks after which Prune drops a bucket
  Nothing,    \* no bucket, no promise
  MaxPeriod   \* bound: the ticks of a period that is looked at

Full == Burst * One

\* Prune has no caller but its test. Whoever calls it must leave a bucket the
\* time to be full, or it hands out more than the burst.
ASSUME RateLimiterAssumption ==
  /\ Burst \in Nat \ {0} /\ One \in Nat \ {0}
  /\ Rate \in Nat \ {0} /\ Second \in Nat \ {0}
  /\ Stale \in Nat /\ Stale * Rate >= Full
  /\ Nothing \notin Int /\ MaxPeriod \in Nat

VARIABLES
  level,      \* what was in a bucket when it was last asked
  idle,       \* the ticks since then, counted until Prune may drop the bucket
  period,     \* the ticks since the period that is looked at began
  admitted,   \* the requests admitted since then
  promised    \* the ticks after which a refused client was told to retry

limiterVars == <<level, idle, period, admitted, promised>>

LimiterTypeOK ==
  /\ level \in [Keys -> (0 .. Full) \cup {Nothing}]
  /\ idle \in [Keys -> 0 .. Stale + 1]
  /\ period \in Nat
  /\ admitted \in [Keys -> Nat]
  /\ promised \in [Keys -> Nat \cup {Nothing}]

LimiterInit ==
  /\ level = [k \in Keys |-> Nothing] /\ idle = [k \in Keys |-> 0]
  /\ period = 0 /\ admitted = [k \in Keys |-> 0]
  /\ promised = [k \in Keys |-> Nothing]

-----------------------------------------------------------------------------
(* Allow. *)

\* Variant: idle time counts beyond the burst.
FilledBeyond(k) == IF level[k] = Nothing THEN Full ELSE level[k] + idle[k] * Rate

\* What Allow finds in the bucket; a new one is full.
Filled(k) ==
  IF level[k] = Nothing \/ level[k] + idle[k] * Rate > Full THEN Full
  ELSE level[k] + idle[k] * Rate

\* Allow takes a token.
Take(k) ==
  /\ Filled(k) >= One
  /\ level' = [level EXCEPT ![k] = Filled(k) - One]
  /\ idle' = [idle EXCEPT ![k] = 0]
  /\ admitted' = [admitted EXCEPT ![k] = @ + 1]
  /\ promised' = [promised EXCEPT ![k] = Nothing]
  /\ UNCHANGED period

\* Variant: the time is remembered only if a token was taken.
DenyForgetsTime(k) ==
  /\ Filled(k) < One
  /\ level' = [level EXCEPT ![k] = Filled(k)]
  /\ UNCHANGED <<idle, period, admitted, promised>>

\* Allow refuses.
Deny(k) ==
  /\ Filled(k) < One
  /\ level' = [level EXCEPT ![k] = Filled(k)]
  /\ idle' = [idle EXCEPT ![k] = 0]
  /\ UNCHANGED <<period, admitted, promised>>

-----------------------------------------------------------------------------
(* RetryAfter and Prune. *)

\* Variant: the seconds are rounded down.
RetryAfterDown(k) ==
  IF level[k] = Nothing \/ level[k] >= One THEN 0
  ELSE (One - level[k]) \div (Rate * Second)

\* In seconds, from the level at the last Allow.
RetryAfter(k) ==
  IF level[k] = Nothing \/ level[k] >= One THEN 0
  ELSE (One - level[k] + Rate * Second - 1) \div (Rate * Second)

Sooner(p, q) == IF p # Nothing /\ p <= q THEN p ELSE q

\* A client is told when to retry.
Promise(k) ==
  /\ promised' = [promised EXCEPT ![k] = Sooner(@, RetryAfter(k) * Second)]
  /\ UNCHANGED <<level, idle, period, admitted>>

\* Buckets that were not used for a while are dropped.
Prune ==
  /\ level' = [k \in Keys |-> IF idle[k] > Stale THEN Nothing ELSE level[k]]
  /\ level' # level
  /\ UNCHANGED <<idle, period, admitted, promised>>

-----------------------------------------------------------------------------
(* Time, and the period that is looked at: it may begin at any time. *)

ClockTicks ==
  /\ period < MaxPeriod /\ period' = period + 1
  /\ idle' = [k \in Keys |-> IF idle[k] > Stale THEN idle[k] ELSE idle[k] + 1]
  /\ promised' = [k \in Keys |-> IF promised[k] \in {Nothing, 0} THEN promised[k]
                                 ELSE promised[k] - 1]
  /\ UNCHANGED <<level, admitted>>

LookFromNow ==
  /\ period' = 0 /\ admitted' = [k \in Keys |-> 0]
  /\ UNCHANGED <<level, idle, promised>>

-----------------------------------------------------------------------------
(* Properties. *)

\* In any period, Allow admits no more requests of a key than the burst and
\* what the period's time is worth, however they are spaced.
Limited == \A k \in Keys : admitted[k] * One <= Full + period * Rate

\* A client that waits as long as Retry-After says is admitted, unless another
\* request of the key took a token after the header was computed; RetryAfter
\* runs after Allow let rl.mu go.
RetrySuffices == \A k \in Keys : promised[k] = 0 => Filled(k) >= One
=============================================================================
