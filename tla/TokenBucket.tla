----------------------------- MODULE TokenBucket -----------------------------
(***************************************************************************)
(* The token bucket of identity/ratelimit.py.                              *)
(*                                                                         *)
(* Unit parts make one token, so that the refill of one tick of the clock, *)
(* Rate, is a whole number of parts: with seconds for ticks and Unit = 60, *)
(* Rate is rate_per_minute.  The float sums of the code are exact here.    *)
(***************************************************************************)
EXTENDS Integers

CONSTANTS Unit, Rate, Burst

(* TokenBucketLimiter refuses other settings. *)
ASSUME BucketAssumption ==
    Unit \in Nat \ {0} /\ Rate \in Nat \ {0} /\ Burst \in Nat \ {0}

Capacity == Burst * Unit

FullBucket(now) == [tokens |-> Capacity, at |-> now]

(* A clock that went back adds nothing. *)
Refilled(bucket, now) ==
    LET elapsed == IF now > bucket.at THEN now - bucket.at ELSE 0
        tokens == bucket.tokens + Rate * elapsed
    IN  IF tokens < Capacity THEN tokens ELSE Capacity

(* Mutant: any rest of a token will do. *)
AdmitsFraction(bucket, now) == Refilled(bucket, now) > 0

Admits(bucket, now) == Refilled(bucket, now) >= Unit

(* allow: the bucket after it. *)
Spent(bucket, now) ==
    [tokens |-> Refilled(bucket, now) - (IF Admits(bucket, now) THEN Unit ELSE 0), at |-> now]

=============================================================================
