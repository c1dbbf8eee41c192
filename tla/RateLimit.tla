----------------------------- MODULE RateLimit -----------------------------
(***************************************************************************)
(* The limiter of internal/security/ratelimit.go for the requests of one   *)
(* address (the buckets of two never meet).  A request takes its bucket    *)
(* from the map under one lock and a token from the bucket under another;  *)
(* in between the clean-up may drop the bucket, and then the next request  *)
(* makes a new one.                                                        *)
(*                                                                         *)
(* Tokens come in fractions: One of them is a whole token.  Beside the     *)
(* limiter runs an ideal one, which never forgets.                         *)
(***************************************************************************)
EXTENDS Integers, FiniteSets

CONSTANTS
  Client,  \* requests that may run at once
  Rate,    \* what a tick adds
  One,     \* what a request takes
  Burst,   \* what a bucket holds
  Ttl,     \* ticks after which an unused bucket is dropped
  MaxExcess \* bound: requests that take from a dropped bucket

\* A bucket that is dropped would have been full: 5 minutes fill every limiter the code
\* makes (routes.go:16-20, main.go:209).
ASSUME RateAssumption ==
  /\ Rate \in Nat /\ One \in Nat /\ Burst \in Nat /\ Ttl \in Nat /\ MaxExcess \in Nat
  /\ One <= Burst /\ Rate * Ttl >= Burst /\ IsFiniteSet(Client)

VARIABLES
  buckets, \* Bucket -> [tokens, age]: age counts the ticks since lastSeen
  current, \* the bucket in the map, 0 when there is none
  holds,   \* Client -> the bucket its request has looked up
  ideal,   \* (ghost) the tokens of a limiter that keeps its bucket
  excess   \* (ghost) requests that took a token of a bucket out of the map

rateVars == <<buckets, current, holds, ideal, excess>>

Bucket  == 1 .. Cardinality(Client) + 1
Least2(a, b) == IF a < b THEN a ELSE b
Full    == [tokens |-> Burst, age |-> 0]

RateInit ==
  /\ buckets = [b \in Bucket |-> Full] /\ current = 0
  /\ holds = [q \in Client |-> 0] /\ ideal = Burst /\ excess = 0

\* Time beyond what the clean-up and the refill can tell apart is not counted.
Tick ==
  /\ buckets' = [b \in Bucket |-> [buckets[b] EXCEPT !.age = Least2(@ + 1, Ttl + 1)]]
  /\ ideal' = Least2(Burst, ideal + Rate)
  /\ UNCHANGED <<current, holds, excess>>

LookUp(q) ==
  /\ holds[q] = 0
  /\ \/ current # 0 /\ UNCHANGED <<buckets, current>>
     \/ /\ current = 0
        /\ current' = CHOOSE b \in Bucket : \A r \in Client : holds[r] # b
        /\ buckets' = [buckets EXCEPT ![current'] = Full]
  /\ holds' = [holds EXCEPT ![q] = current']
  /\ UNCHANGED <<ideal, excess>>

\* Variant: nothing holds the refill back.
FilledOver(b) == buckets[b].tokens + buckets[b].age * Rate
Filled(b) == Least2(Burst, buckets[b].tokens + buckets[b].age * Rate)

\* bucket.allow.  What the limiter lets through, the ideal one pays for.
Allow(q) ==
  LET b == holds[q]
      granted == b # 0 /\ Filled(b) >= One IN
  /\ b # 0 /\ (b # current => excess < MaxExcess)
  /\ buckets' = [buckets EXCEPT ![b] =
                   [tokens |-> IF granted THEN Filled(b) - One ELSE Filled(b), age |-> 0]]
  /\ ideal' = IF granted THEN ideal - One ELSE ideal
  /\ excess' = IF granted /\ b # current THEN excess + 1 ELSE excess
  /\ holds' = [holds EXCEPT ![q] = 0]
  /\ UNCHANGED current

\* Variant: a bucket is dropped as soon as a minute passes without a request.
StaleSoon(b) == buckets[b].age > 0
Stale(b) == buckets[b].age > Ttl

CleanUp ==
  /\ current # 0 /\ Stale(current)
  /\ current' = 0
  /\ UNCHANGED <<buckets, holds, ideal, excess>>

RateNext == Tick \/ CleanUp \/ \E q \in Client : LookUp(q) \/ Allow(q)

RateSpec == RateInit /\ [][RateNext]_rateVars

RateTypeOK ==
  /\ buckets \in [Bucket -> [tokens : 0 .. Burst, age : 0 .. Ttl + 1]]
  /\ current \in Bucket \union {0} /\ holds \in [Client -> Bucket \union {0}]
  /\ ideal \in Int /\ ideal <= Burst /\ excess \in Nat

\* Forgetting an idle address (ratelimit.go:84-92) gives it no more than it is owed: the
\* tokens to be had never exceed those of the limiter that forgets nothing by more than
\* the requests that were caught between the look-up and the clean-up.
ForgettingCostsNothing ==
  LET owned == IF current = 0 THEN Burst ELSE Filled(current)
  IN owned - ideal \in 0 .. One * excess
=============================================================================
