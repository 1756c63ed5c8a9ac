----------------------------- MODULE RateLimit -----------------------------
(***************************************************************************)
(* The token buckets of apps/server/src/ratelimit.ts.                      *)
(*                                                                         *)
(* A bucket holds at most capacity tokens and refills steadily; consume    *)
(* refills, then takes a token or refuses.  A token is counted in units:   *)
(* REFILL of them flow in per unit of time and UNITS make a token, so that *)
(* no fraction is left out.                                                *)
(*                                                                         *)
(* The sweep looks a bucket's limit up by the part of its key before the   *)
(* first colon.  A route that has a colon itself (ws:..., avatar:...,      *)
(* deckmaster:...) is not found, and its buckets are dropped at every      *)
(* sweep, however empty; the bucket of a route without one (sponsor) is    *)
(* found, and is dropped when it is stored full, which consume never       *)
(* leaves it.                                                              *)
(***************************************************************************)
EXTENDS Naturals, FiniteSets

CONSTANTS
  Keys,       \* bucket keys: a route and a caller
  Found,      \* the keys whose limit the sweep finds
  CAPACITY,   \* tokens of a full bucket
  UNITS,      \* units of a token
  REFILL,     \* units per unit of time
  SWEEP,      \* time between two sweeps
  MaxClock    \* bound: the last time

ASSUME RateAssumption ==
  /\ Found \subseteq Keys
  /\ CAPACITY \in Nat \ {0} /\ UNITS \in Nat \ {0} /\ REFILL \in Nat \ {0}
  /\ SWEEP \in Nat \ {0} /\ MaxClock \in Nat

Full == CAPACITY * UNITS
NoBucket == [stored |-> FALSE, units |-> 0, refilled |-> 0]

VARIABLES
  clock,
  buckets,  \* the map: the tokens and lastRefillMs of each stored bucket
  granted,  \* what each key was granted since its bucket was created
  since     \* when that was

rateVars == <<clock, buckets, granted, since>>

RateTypeOK ==
  /\ clock \in 0 .. MaxClock
  /\ buckets \in [Keys -> [stored : BOOLEAN, units : 0 .. Full, refilled : 0 .. MaxClock]]
  /\ granted \in [Keys -> Nat]
  /\ since \in [Keys -> 0 .. MaxClock]

RateInit ==
  /\ clock = 0
  /\ buckets = [k \in Keys |-> NoBucket]
  /\ granted = [k \in Keys |-> 0]
  /\ since = [k \in Keys |-> 0]

AtMost(a, b) == IF a <= b THEN a ELSE b

(* The bucket as consume finds it: new and full, or refilled to now.        *)
Refilled_KeepsTime(b) ==
  [b EXCEPT !.units = AtMost(Full, @ + (clock - b.refilled) * REFILL)]
Refilled_Uncapped(b) == [b EXCEPT !.units = @ + (clock - b.refilled) * REFILL, !.refilled = clock]
Refilled(b) ==
  [b EXCEPT !.units = AtMost(Full, @ + (clock - b.refilled) * REFILL), !.refilled = clock]
Opened(k) ==
  IF buckets[k].stored THEN Refilled(buckets[k])
  ELSE [stored |-> TRUE, units |-> Full, refilled |-> clock]
Allowed(k) == Opened(k).units >= UNITS

Consume(k) ==
  /\ buckets' = [buckets EXCEPT ![k] = [Opened(k) EXCEPT !.units =
                                          IF Allowed(k) THEN @ - UNITS ELSE @]]
  /\ granted' = [granted EXCEPT ![k] = (IF buckets[k].stored THEN @ ELSE 0)
                                         + (IF Allowed(k) THEN 1 ELSE 0)]
  /\ since' = [since EXCEPT ![k] = IF buckets[k].stored THEN @ ELSE clock]
  /\ UNCHANGED clock

(* The sweep, at its interval.                                              *)
Dropped(k) == k \notin Found \/ buckets[k].units >= Full

Swept == [k \in Keys |-> IF buckets[k].stored /\ Dropped(k) THEN NoBucket ELSE buckets[k]]

Advance ==
  /\ clock < MaxClock
  /\ clock' = clock + 1
  /\ buckets' = IF clock' % SWEEP = 0 THEN Swept ELSE buckets
  /\ UNCHANGED <<granted, since>>

RateNext == Advance \/ \E k \in Keys : Consume(k)

RateSpec == RateInit /\ [][RateNext]_rateVars

-----------------------------------------------------------------------------
(* Safety: while its bucket lives, a key is granted no more than the burst  *)
(* and what has flowed in since: whatever calls it spreads over time, a     *)
(* token is spent once and time is refilled once.                           *)
GrantsBounded ==
  \A k \in Keys :
    buckets[k].stored =>
      granted[k] * UNITS + buckets[k].units
        <= Full + (buckets[k].refilled - since[k]) * REFILL
=============================================================================
