---------------------------- MODULE ServiceProofs ----------------------------
(***************************************************************************)
(* What is proved of the parts that share no state with the others, for    *)
(* all values of their constants: the updater, the rate limiter, the       *)
(* migrations, the schedule, the accounts and the enrollment.              *)
(***************************************************************************)
EXTENDS Services, FiniteSetTheorems, WellFoundedInduction, TLAPS

(***************************************************************************)
(* The updater.                                                            *)
(***************************************************************************)

\* From its check on, the downloaded file is the release that is wanted; a backup is
\* never anything but a release.
UpdaterInv ==
  /\ UpdaterTypeOK /\ BinarySurvives
  /\ bak \in Release \union {Gone}
  /\ step \in {"chmod", "backup", "replace", "restore"} => new = want

LEMMA UpdaterInductive == UpdaterSpec => []UpdaterInv
<1> USE UpdaterAssumption DEF UpdaterAssumption, UpdaterTypeOK, BinarySurvives, UpdaterInv
<1>1. UpdaterInit => UpdaterInv
  BY DEF UpdaterInit, Content
<1>2. UpdaterInv /\ [UpdaterNext]_updaterVars => UpdaterInv'
  <2> SUFFICES ASSUME UpdaterInv, [UpdaterNext]_updaterVars PROVE UpdaterInv'
    OBVIOUS
  <2> USE DEF Content, Statement
  <2>1. ASSUME NEW v \in Release, Apply(v) PROVE UpdaterInv'
    BY <2>1 DEF Apply
  <2>2. CASE GiveUp \/ Download \/ DownloadBreaks \/ VerifyChecksum \/ Chmod
    BY <2>2 DEF GiveUp, Download, DownloadBreaks, VerifyChecksum, Chmod, Does
  <2>3. CASE Backup \/ Replace
    BY <2>3 DEF Backup, Replace, Does
  <2>4. CASE ReplaceFails \/ Restore \/ Die
    BY <2>4 DEF ReplaceFails, Restore, Die, Does
  <2>5. CASE UNCHANGED updaterVars
    BY <2>5 DEF updaterVars
  <2> QED
    BY <2>1, <2>2, <2>3, <2>4, <2>5 DEF UpdaterNext
<1> QED
  BY <1>1, <1>2, PTL DEF UpdaterSpec

\* Whatever fails and wherever Apply is cut off, the binary or its backup is a release
\* (updater.go:88).
THEOREM BinaryAlwaysSurvives == UpdaterSpec => []BinarySurvives
<1>1. UpdaterInv => BinarySurvives
  BY DEF UpdaterInv
<1> QED
  BY <1>1, UpdaterInductive, PTL

(***************************************************************************)
(* The rate limiter.                                                       *)
(***************************************************************************)

\* There is always a bucket that no request holds.
LEMMA FreeBucket ==
  ASSUME RateTypeOK
  PROVE  \E b \in Bucket : \A r \in Client : holds[r] # b
<1> DEFINE n == Cardinality(Client)
<1>1. n \in Nat /\ IsFiniteSet(Client)
  BY RateAssumption, FS_CardinalityType DEF RateAssumption
<1>2. IsFiniteSet(Bucket) /\ Cardinality(Bucket) = n + 1
  BY <1>1, FS_Interval DEF Bucket
<1> SUFFICES ASSUME \A b \in Bucket : \E r \in Client : holds[r] = b PROVE FALSE
  OBVIOUS
<1> DEFINE f == [b \in Bucket |-> CHOOSE r \in Client : holds[r] = b]
<1>3. \A b \in Bucket : f[b] \in Client /\ holds[f[b]] = b
  OBVIOUS
<1>4. f \in [Bucket -> Client]
  BY <1>3
<1> HIDE DEF f
<1>5. \E x, y \in Bucket : x # y /\ f[x] = f[y]
  BY <1>1, <1>2, <1>4, FS_PigeonHole
<1> QED
  BY <1>3, <1>5

\* What was not used for the time of the clean-up is full.
LEMMA IdleIsFull ==
  ASSUME NEW tokens \in Nat, NEW age \in Nat, age >= Ttl
  PROVE  Least2(Burst, tokens + age * Rate) = Burst
<1>1. Rate \in Nat /\ Ttl \in Nat /\ Burst \in Nat /\ Rate * Ttl >= Burst
  BY RateAssumption DEF RateAssumption
<1>2. \A x, y, z \in Nat : x >= y => x * z >= z * y
  OBVIOUS
<1>3. age * Rate >= Rate * Ttl
  BY <1>1, <1>2
<1>4. \A x, t, d \in Nat : x >= d => Least2(d, t + x) = d
  BY DEF Least2
<1>5. age * Rate \in Nat /\ age * Rate >= Burst
  BY <1>1, <1>3
<1> QED
  BY <1>1, <1>4, <1>5

\* The tokens to be had, and what they are in excess of those of the ideal limiter.
Owned == IF current = 0 THEN Burst ELSE Filled(current)

RateInv == RateTypeOK /\ ForgettingCostsNothing

LEMMA RateFacts ==
  ASSUME RateTypeOK
  PROVE  /\ Rate \in Nat /\ One \in Nat /\ Burst \in Nat /\ Ttl \in Nat /\ One <= Burst
         /\ ideal \in Int /\ ideal <= Burst /\ excess \in Nat
         /\ One * excess \in Nat /\ One * (excess + 1) = One * excess + One
         /\ \A b \in Bucket : Filled(b) \in 0 .. Burst
<1>1. /\ Rate \in Nat /\ One \in Nat /\ Burst \in Nat /\ Ttl \in Nat /\ One <= Burst
      /\ ideal \in Int /\ ideal <= Burst /\ excess \in Nat
  BY RateAssumption DEF RateAssumption, RateTypeOK
<1>2. One * excess \in Nat /\ One * (excess + 1) = One * excess + One
  BY <1>1
<1>3. ASSUME NEW b \in Bucket PROVE Filled(b) \in 0 .. Burst
  <2>1. buckets[b].age \in Nat /\ buckets[b].tokens \in Nat
    BY <1>1 DEF RateTypeOK
  <2>2. buckets[b].age * Rate \in Nat
    BY <1>1, <2>1
  <2>3. \A d, x \in Nat : Least2(d, x) \in 0 .. d
    BY DEF Least2
  <2> QED
    BY <1>1, <2>1, <2>2, <2>3 DEF Filled
<1> QED
  BY <1>1, <1>2, <1>3

\* A tick adds at most Rate to a bucket, and fills one that was unused for long enough.
LEMMA TickFills ==
  ASSUME RateTypeOK, Tick, NEW b \in Bucket
  PROVE  Filled(b)' = Least2(Burst, Filled(b) + Rate)
<1>1. /\ buckets[b].age \in 0 .. Ttl + 1 /\ buckets[b].tokens \in 0 .. Burst
      /\ Ttl \in Nat /\ Rate \in Nat /\ Burst \in Nat
  BY RateFacts DEF RateTypeOK
<1>2. /\ buckets'[b].age = Least2(buckets[b].age + 1, Ttl + 1)
      /\ buckets'[b].tokens = buckets[b].tokens
  BY DEF Tick, RateTypeOK
<1>3. CASE buckets[b].age <= Ttl
  <2>1. buckets'[b].age = buckets[b].age + 1
    BY <1>1, <1>2, <1>3 DEF Least2
  <2>2. (buckets[b].age + 1) * Rate = buckets[b].age * Rate + Rate /\ buckets[b].age * Rate \in Nat
    BY <1>1
  <2> DEFINE tokens == buckets[b].tokens
             filled == buckets[b].age * Rate
  <2>3. buckets'[b].age * Rate = filled + Rate
    BY <2>1, <2>2
  <2>4. Filled(b)' = Least2(Burst, buckets'[b].tokens + buckets'[b].age * Rate)
    BY DEF Filled
  <2>5. Filled(b)' = Least2(Burst, tokens + (filled + Rate))
    <3> HIDE DEF filled
    <3> QED
      BY <1>2, <2>3, <2>4
  <2>6. Filled(b) = Least2(Burst, tokens + filled)
    BY DEF Filled
  <2>7. tokens \in Nat /\ filled \in Nat
    BY <1>1, <2>2
  <2> HIDE DEF tokens, filled
  <2>8. Least2(Burst, tokens + (filled + Rate)) = Least2(Burst, Least2(Burst, tokens + filled) + Rate)
    BY <1>1, <2>7 DEF Least2
  <2> QED
    BY <2>5, <2>6, <2>8
<1>4. CASE buckets[b].age > Ttl
  <2> DEFINE tokens == buckets[b].tokens
             age == buckets[b].age
             later == Ttl + 1
  <2>1. tokens \in Nat /\ age \in Nat /\ age >= Ttl
    BY <1>1, <1>4
  <2>2. later \in Nat /\ later >= Ttl
    BY <1>1
  <2>3. buckets'[b].age = later /\ buckets'[b].tokens = tokens
    BY <1>1, <1>2, <1>4 DEF Least2
  <2>4. Filled(b) = Least2(Burst, tokens + age * Rate)
    BY DEF Filled
  <2>5. Filled(b)' = Least2(Burst, buckets'[b].tokens + buckets'[b].age * Rate)
    BY DEF Filled
  <2> HIDE DEF tokens, age, later
  <2>6. Filled(b) = Burst
    BY <2>1, <2>4, IdleIsFull
  <2>7. Filled(b)' = Burst
    <3>1. Least2(Burst, tokens + later * Rate) = Burst
      BY <2>1, <2>2, IdleIsFull
    <3> QED
      BY <2>3, <2>5, <3>1
  <2> QED
    BY <1>1, <2>6, <2>7 DEF Least2
<1> QED
  BY <1>1, <1>3, <1>4

LEMMA RateTypesStay == RateTypeOK /\ [RateNext]_rateVars => RateTypeOK'
<1> SUFFICES ASSUME RateTypeOK, [RateNext]_rateVars PROVE RateTypeOK'
  OBVIOUS
<1>0. RateTypeOK
  OBVIOUS
<1> USE DEF RateTypeOK
<1>1. CASE Tick
  BY <1>1, RateFacts DEF Tick, Least2
<1>2. ASSUME NEW q \in Client, LookUp(q) PROVE RateTypeOK'
  BY <1>2, RateFacts, FreeBucket DEF LookUp, Full
<1>3. ASSUME NEW q \in Client, Allow(q) PROVE RateTypeOK'
  <2> DEFINE b == holds[q]
             granted == b # 0 /\ Filled(b) >= One
  <2>1. b \in Bucket /\ Filled(b) \in 0 .. Burst
    BY <1>0, <1>3, RateFacts DEF Allow
  <2>2. [tokens |-> IF granted THEN Filled(b) - One ELSE Filled(b), age |-> 0]
          \in [tokens : 0 .. Burst, age : 0 .. Ttl + 1]
    BY <2>1, RateFacts
  <2>3. buckets' = [buckets EXCEPT ![b] =
                     [tokens |-> IF granted THEN Filled(b) - One ELSE Filled(b), age |-> 0]]
    BY <1>3 DEF Allow
  <2>4. ideal' \in {ideal, ideal - One} /\ excess' \in {excess, excess + 1}
    BY <1>3 DEF Allow
  <2> QED
    BY <1>3, <2>2, <2>3, <2>4, RateFacts DEF Allow
<1>4. CASE CleanUp
  BY <1>4 DEF CleanUp
<1>5. CASE UNCHANGED rateVars
  BY <1>5 DEF rateVars
<1> QED
  BY <1>1, <1>2, <1>3, <1>4, <1>5 DEF RateNext

\* How a step changes what is owned and what is owed.
LEMMA OwnedStays ==
  ASSUME RateInv, [RateNext]_rateVars
  PROVE  ForgettingCostsNothing'
<1>0. RateTypeOK /\ RateTypeOK'
  BY RateTypesStay DEF RateInv
<1>1. /\ Rate \in Nat /\ One \in Nat /\ Burst \in Nat /\ Ttl \in Nat /\ One <= Burst
      /\ ideal \in Int /\ ideal <= Burst /\ excess \in Nat
      /\ One * excess \in Nat /\ One * (excess + 1) = One * excess + One
      /\ \A b \in Bucket : Filled(b) \in 0 .. Burst
  BY <1>0, RateFacts
<1>2. Owned \in 0 .. Burst /\ Owned - ideal \in 0 .. One * excess
  BY <1>0, <1>1 DEF RateInv, ForgettingCostsNothing, Owned, RateTypeOK
<1>3. ForgettingCostsNothing' <=> Owned' - ideal' \in 0 .. One * excess'
  BY DEF ForgettingCostsNothing, Owned
<1>4. CASE Tick
  <2>1. Owned' = Least2(Burst, Owned + Rate) /\ ideal' = Least2(Burst, ideal + Rate)
        /\ excess' = excess
    <3>1. CASE current = 0
      BY <1>1, <1>4, <3>1 DEF Owned, Tick, Least2
    <3>2. CASE current # 0
      BY <1>0, <1>4, <3>2, TickFills DEF Owned, Tick, RateTypeOK
    <3> QED
      BY <3>1, <3>2
  <2>2. \A x, y \in Int, e \in Nat :
          x <= Burst /\ y <= Burst /\ x - y \in 0 .. e
            => Least2(Burst, x + Rate) - Least2(Burst, y + Rate) \in 0 .. e
    BY <1>1 DEF Least2
  <2>3. Least2(Burst, Owned + Rate) - Least2(Burst, ideal + Rate) \in 0 .. One * excess
    BY <1>1, <1>2, <2>2
  <2> QED
    BY <1>3, <2>1, <2>3
<1>5. ASSUME NEW q \in Client, LookUp(q) PROVE ForgettingCostsNothing'
  <2>1. CASE current # 0
    BY <1>2, <1>3, <1>5, <2>1 DEF LookUp, Owned, Filled
  <2>2. CASE current = 0
    <3>1. current' \in Bucket /\ buckets' = [buckets EXCEPT ![current'] = Full]
      BY <1>0, <1>5, <2>2, FreeBucket DEF LookUp
    <3>2. buckets'[current'].tokens = Burst /\ buckets'[current'].age = 0
      BY <1>0, <3>1 DEF RateTypeOK, Full
    <3>3. Least2(Burst, Burst + 0 * Rate) = Burst
      BY <1>1 DEF Least2
    <3>4. Owned' = Burst /\ Owned = Burst
      BY <2>2, <3>1, <3>2, <3>3 DEF Owned, Filled, Bucket
    <3> QED
      BY <1>2, <1>3, <1>5, <3>4 DEF LookUp
  <2> QED
    BY <2>1, <2>2
<1>6. ASSUME NEW q \in Client, Allow(q) PROVE ForgettingCostsNothing'
  <2> DEFINE b == holds[q]
             granted == Filled(b) >= One
             left == IF granted THEN Filled(b) - One ELSE Filled(b)
  <2>1. /\ b \in Bucket /\ b # 0 /\ current' = current
        /\ buckets' = [buckets EXCEPT ![b] = [tokens |-> left, age |-> 0]]
        /\ ideal' = IF granted THEN ideal - One ELSE ideal
        /\ excess' = IF granted /\ b # current THEN excess + 1 ELSE excess
    BY <1>0, <1>6 DEF Allow, RateTypeOK
  <2>2. left \in 0 .. Burst
    BY <1>1, <2>1
  <2>3. CASE b = current
    <3>1. buckets'[b].tokens = left /\ buckets'[b].age = 0
      BY <1>0, <2>1 DEF RateTypeOK
    <3>2. Least2(Burst, left + 0 * Rate) = left
      BY <1>1, <2>2 DEF Least2
    <3>3. Owned' = left
      BY <2>1, <2>3, <3>1, <3>2 DEF Owned, Filled
    <3>4. Owned = Filled(b)
      BY <2>1, <2>3 DEF Owned
    <3> QED
      BY <1>1, <1>2, <1>3, <2>1, <2>3, <3>3, <3>4
  <2>4. CASE b # current
    <3>1. Owned' = Owned
      BY <1>0, <2>1, <2>4 DEF Owned, Filled, RateTypeOK
    <3> QED
      BY <1>1, <1>2, <1>3, <2>1, <2>4, <3>1
  <2> QED
    BY <2>3, <2>4
<1>7. CASE CleanUp
  <2>1. Filled(current) = Burst
    BY <1>0, <1>1, <1>7, IdleIsFull DEF CleanUp, Stale, Filled, RateTypeOK
  <2> QED
    BY <1>2, <1>3, <1>7, <2>1 DEF CleanUp, Owned
<1>8. CASE UNCHANGED rateVars
  BY <1>2, <1>3, <1>8 DEF rateVars, Owned, Filled
<1> QED
  BY <1>4, <1>5, <1>6, <1>7, <1>8 DEF RateNext

LEMMA RateInductive == RateSpec => []RateInv
<1>1. RateInit => RateInv
  <2> SUFFICES ASSUME RateInit PROVE RateInv
    OBVIOUS
  <2>1. Burst \in Nat /\ Ttl \in Nat /\ One * 0 = 0
    BY RateAssumption DEF RateAssumption
  <2>2. RateTypeOK
    BY <2>1 DEF RateInit, RateTypeOK, Full
  <2> QED
    BY <2>1, <2>2 DEF RateInit, RateInv, ForgettingCostsNothing
<1>2. RateInv /\ [RateNext]_rateVars => RateInv'
  BY RateTypesStay, OwnedStays DEF RateInv
<1> QED
  BY <1>1, <1>2, PTL DEF RateSpec

\* Dropping and making buckets, in whatever order with the requests that hold them, gives
\* an address no token but those the caught requests took (ratelimit.go:90).
THEOREM LimitIsKept == RateSpec => []ForgettingCostsNothing
<1>1. RateInv => ForgettingCostsNothing
  BY DEF RateInv
<1> QED
  BY <1>1, RateInductive, PTL

(***************************************************************************)
(* The migrations.                                                         *)
(***************************************************************************)

LEMMA LeastExists ==
  ASSUME NEW S, S \subseteq Nat, S # {}
  PROVE  \E m \in S : \A n \in S : m <= n
<1> DEFINE Below == {p \in Nat \X Nat : p[1] < p[2]}
<1>1. IsWellFoundedOn(Below, Nat)
  BY NatLessThanWellFounded DEF OpToRel
<1> HIDE DEF Below
<1>2. PICK m \in S : \A n \in S : <<n, m>> \notin Below
  BY <1>1, WFMin
<1>3. ASSUME NEW n \in S PROVE m <= n
  <2>1. m \in Nat /\ n \in Nat /\ <<n, m>> \notin Below
    BY <1>2
  <2>2. ~(n < m)
    BY <2>1 DEF Below
  <2> QED
    BY <2>1, <2>2
<1> QED
  BY <1>3

LEMMA HighestExists ==
  ASSUME NEW S, S \subseteq Nat, S # {}, NEW b \in Nat, \A v \in S : v <= b
  PROVE  Highest(S) \in S /\ \A v \in S : v <= Highest(S)
<1> DEFINE Left == {b - v : v \in S}
<1>1. Left \subseteq Nat /\ Left # {}
  <2>1. ASSUME NEW v \in S PROVE b - v \in Nat
    OBVIOUS
  <2> QED
    BY <2>1
<1> HIDE DEF Left
<1>2. PICK x \in Left : \A y \in Left : x <= y
  BY <1>1, LeastExists
<1>3. PICK h \in S : x = b - h
  BY DEF Left
<1>4. ASSUME NEW v \in S PROVE v <= h
  <2>1. b - h <= b - v
    BY <1>2, <1>3 DEF Left
  <2> QED
    BY <2>1
<1>5. h \in S /\ \A v \in S : v <= h
  BY <1>4
<1> QED
  BY <1>5 DEF Highest

\* What an instance still has to apply: all that the schema lacks of its binary's
\* migrations, and none before one that it has applied.
Planned(i) ==
  LET p == proc[i] IN
  p.phase # "down" =>
    /\ ~dirty
    /\ p.todo \subseteq 1 .. Embedded[i]
    /\ \A m \in p.todo, n \in 1 .. Embedded[i] : m <= n => n \in p.todo
    /\ 1 .. Embedded[i] \subseteq applied \union p.todo
    /\ p.phase \in {"ran", "recorded"} => p.todo # {}
    /\ p.phase = "serving" => p.todo = {}

MigrationInv ==
  /\ MigrationsTypeOK /\ RecordedVersionIsApplied
  /\ \E b \in Nat : \A v \in rows : v <= b
  /\ \A i \in Instance : Planned(i)

LEMMA NextIsLeast ==
  ASSUME MigrationsTypeOK, NEW i \in Instance, proc[i].todo # {}
  PROVE  /\ NextMigration(i) \in proc[i].todo /\ NextMigration(i) \in Nat
         /\ \A n \in proc[i].todo : NextMigration(i) <= n
<1>1. proc[i].todo \subseteq Nat
  BY DEF MigrationsTypeOK
<1>2. \E m \in proc[i].todo : \A n \in proc[i].todo : m <= n
  BY <1>1, LeastExists
<1> QED
  BY <1>1, <1>2 DEF NextMigration

LEMMA ReadPlans ==
  ASSUME MigrationInv, NEW i \in Instance, CurrentVersion(i)
  PROVE  MigrationInv'
<1> DEFINE h == Highest(rows)
           p == [Down EXCEPT !.phase = "loaded", !.todo = Newer(i, h)]
<1>1. ~dirty /\ UNCHANGED <<applied, rows, dirty>> /\ proc' = [proc EXCEPT ![i] = p]
  BY DEF CurrentVersion
<1>2. h \in Nat /\ 1 .. h \subseteq applied
  <2>1. CASE rows = {}
    BY <2>1 DEF Highest
  <2>2. CASE rows # {}
    <3>1. h \in rows
      BY <2>2, HighestExists DEF MigrationInv, MigrationsTypeOK
    <3> QED
      BY <1>1, <3>1 DEF MigrationInv, MigrationsTypeOK, RecordedVersionIsApplied
  <2> QED
    BY <2>1, <2>2
<1> HIDE DEF h
<1>3. Embedded[i] \in Nat
  BY MigrationAssumption DEF MigrationAssumption
<1>4. /\ p \in [phase : Phase, todo : SUBSET Nat, seen : SUBSET Nat]
      /\ p.phase = "loaded" /\ p.todo = Newer(i, h)
  <2>1. Down \in [phase : Phase, todo : SUBSET Nat, seen : SUBSET Nat]
    BY DEF Down, Phase
  <2>2. Newer(i, h) \subseteq Nat /\ "loaded" \in Phase
    BY <1>3 DEF Newer, Phase
  <2> QED
    BY <2>1, <2>2
<1> HIDE DEF p
<1>5. proc'[i] = p /\ (\A k \in Instance \ {i} : proc'[k] = proc[k]) /\ MigrationsTypeOK'
  BY <1>1, <1>4 DEF MigrationInv, MigrationsTypeOK
<1>6. Planned(i)'
  BY <1>1, <1>2, <1>3, <1>4, <1>5 DEF Planned, Newer
<1>7. ASSUME NEW k \in Instance \ {i} PROVE Planned(k)'
  BY <1>1, <1>5 DEF MigrationInv, Planned
<1> QED
  BY <1>1, <1>5, <1>6, <1>7 DEF MigrationInv, RecordedVersionIsApplied

LEMMA CommitPlans ==
  ASSUME MigrationInv, NEW i \in Instance, Commit(i)
  PROVE  MigrationInv'
<1> DEFINE m == NextMigration(i)
<1>1. /\ proc[i].phase = "recorded" /\ dirty' = dirty
      /\ applied' = applied \union {m} /\ rows' = (rows \ proc[i].seen) \union {m}
      /\ proc' = [proc EXCEPT ![i] = [phase |-> "loaded", todo |-> proc[i].todo \ {m}, seen |-> {}]]
  BY DEF Commit
<1>2. MigrationsTypeOK /\ Planned(i) /\ ~dirty /\ proc[i].todo # {}
  BY <1>1 DEF MigrationInv, Planned
<1>3. m \in proc[i].todo /\ m \in Nat /\ \A n \in proc[i].todo : m <= n
  BY <1>2, NextIsLeast
<1> HIDE DEF m
<1>4. Embedded[i] \in Nat
  BY MigrationAssumption DEF MigrationAssumption
<1>5. proc'[i].phase = "loaded" /\ proc'[i].todo = proc[i].todo \ {m}
      /\ \A k \in Instance \ {i} : proc'[k] = proc[k]
  BY <1>1, <1>2 DEF MigrationsTypeOK
<1>6. MigrationsTypeOK'
  BY <1>1, <1>2, <1>3 DEF MigrationsTypeOK, Phase
<1>7. /\ proc[i].todo \subseteq 1 .. Embedded[i]
      /\ \A x \in proc[i].todo, n \in 1 .. Embedded[i] : x <= n => n \in proc[i].todo
      /\ 1 .. Embedded[i] \subseteq applied \union proc[i].todo
  BY <1>1, <1>2 DEF Planned
<1>8. 1 .. m \subseteq applied'
  BY <1>1, <1>3, <1>4, <1>7
<1>9. RecordedVersionIsApplied'
  BY <1>1, <1>2, <1>8 DEF MigrationInv, RecordedVersionIsApplied
<1>10. \E b \in Nat : \A v \in rows' : v <= b
  <2>1. PICK b \in Nat : \A v \in rows : v <= b
    BY DEF MigrationInv
  <2>2. \A v \in rows' : v <= b + m
    BY <1>1, <1>2, <1>3, <2>1 DEF MigrationsTypeOK
  <2> QED
    BY <1>3, <2>1, <2>2
<1>11. Planned(i)'
  <2>1. ASSUME NEW x \in proc[i].todo \ {m}, NEW n \in 1 .. Embedded[i], x <= n
        PROVE  n \in proc[i].todo \ {m}
    BY <1>3, <1>4, <1>7, <2>1
  <2> QED
    BY <1>1, <1>2, <1>5, <1>7, <2>1 DEF Planned
<1>12. ASSUME NEW k \in Instance \ {i} PROVE Planned(k)'
  BY <1>1, <1>5 DEF MigrationInv, Planned
<1> QED
  BY <1>6, <1>9, <1>10, <1>11, <1>12 DEF MigrationInv

\* A step that changes the phase of one instance and no table.
LEMMA PhasePlans ==
  ASSUME MigrationInv, UNCHANGED <<applied, rows, dirty>>, NEW i \in Instance,
         NEW p \in [phase : Phase, todo : SUBSET Nat, seen : SUBSET Nat],
         proc' = [proc EXCEPT ![i] = p],
         p.phase # "down" =>
           /\ proc[i].phase # "down" /\ p.todo = proc[i].todo
           /\ p.phase \in {"ran", "recorded"} => p.todo # {}
           /\ p.phase = "serving" => p.todo = {}
  PROVE  MigrationInv'
<1>1. proc'[i] = p /\ \A k \in Instance \ {i} : proc'[k] = proc[k]
  BY DEF MigrationInv, MigrationsTypeOK
<1>2. MigrationsTypeOK'
  BY DEF MigrationInv, MigrationsTypeOK
<1>3. ASSUME NEW k \in Instance PROVE Planned(k)'
  BY <1>1 DEF MigrationInv, Planned
<1> QED
  BY <1>2, <1>3 DEF MigrationInv, RecordedVersionIsApplied

LEMMA MigrationInductive == MigrationsSpec => []MigrationInv
<1>1. MigrationsInit => MigrationInv
  <2> SUFFICES ASSUME MigrationsInit PROVE MigrationInv
    OBVIOUS
  <2>1. PICK v \in Recorded : /\ rows = (IF v = 0 THEN {} ELSE {v}) /\ dirty \in {FALSE, v # 0}
                              /\ applied = IF dirty THEN 1 .. v - 1 ELSE 1 .. v
    BY DEF MigrationsInit
  <2>2. v \in Nat
    BY MigrationAssumption DEF MigrationAssumption
  <2>3. applied \subseteq Nat /\ rows \subseteq Nat /\ dirty \in BOOLEAN
    <3>1. 1 .. v - 1 \subseteq Nat /\ 1 .. v \subseteq Nat
      BY <2>2
    <3>2. applied \in {1 .. v - 1, 1 .. v}
      BY <2>1
    <3> QED
      BY <2>1, <2>2, <3>1, <3>2
  <2>4. proc = [i \in Instance |-> [phase |-> "down", todo |-> {}, seen |-> {}]]
    BY DEF MigrationsInit, Down
  <2>5. MigrationsTypeOK
    BY <2>3, <2>4 DEF MigrationsTypeOK, Phase
  <2>6. RecordedVersionIsApplied /\ \E b \in Nat : \A w \in rows : w <= b
    BY <2>1, <2>2 DEF RecordedVersionIsApplied
  <2>7. \A i \in Instance : Planned(i)
    BY <2>4 DEF Planned
  <2> QED
    BY <2>5, <2>6, <2>7 DEF MigrationInv
<1>2. MigrationInv /\ [MigrationsNext]_migrationVars => MigrationInv'
  <2> SUFFICES ASSUME MigrationInv, [MigrationsNext]_migrationVars PROVE MigrationInv'
    OBVIOUS
  <2>t. proc \in [Instance -> [phase : Phase, todo : SUBSET Nat, seen : SUBSET Nat]]
        /\ rows \subseteq Nat
    BY DEF MigrationInv, MigrationsTypeOK
  <2>1. ASSUME NEW i \in Instance, RunMigration(i) \/ Serve(i) PROVE MigrationInv'
    <3>1. PICK phase \in {"ran", "serving"} :
            /\ proc' = [proc EXCEPT ![i] = [proc[i] EXCEPT !.phase = phase]]
            /\ proc[i].phase # "down" /\ UNCHANGED <<applied, rows, dirty>>
            /\ phase = "ran" => proc[i].todo # {}
            /\ phase = "serving" => proc[i].todo = {}
      BY <2>1 DEF RunMigration, Serve, Become
    <3>2. [proc[i] EXCEPT !.phase = phase]
            \in [phase : Phase, todo : SUBSET Nat, seen : SUBSET Nat]
      BY <2>t DEF Phase
    <3>3. /\ [proc[i] EXCEPT !.phase = phase].phase = phase
          /\ [proc[i] EXCEPT !.phase = phase].todo = proc[i].todo
      BY <2>t
    <3> QED
      BY <3>1, <3>2, <3>3, PhasePlans
  <2>2. ASSUME NEW i \in Instance, Record(i) PROVE MigrationInv'
    <3> DEFINE p == [proc[i] EXCEPT !.phase = "recorded", !.seen = rows]
    <3>1. p \in [phase : Phase, todo : SUBSET Nat, seen : SUBSET Nat]
          /\ p.phase = "recorded" /\ p.todo = proc[i].todo
      BY <2>t DEF Phase
    <3>2. /\ proc' = [proc EXCEPT ![i] = p] /\ UNCHANGED <<applied, rows, dirty>>
          /\ proc[i].phase = "ran"
      BY <2>2, <2>t DEF Record
    <3>3. proc[i].todo # {}
      BY <3>2 DEF MigrationInv, Planned
    <3> HIDE DEF p
    <3> QED
      BY <3>1, <3>2, <3>3, PhasePlans
  <2>3. ASSUME NEW i \in Instance, Rollback(i) PROVE MigrationInv'
    <3>1. Down \in [phase : Phase, todo : SUBSET Nat, seen : SUBSET Nat] /\ Down.phase = "down"
      BY DEF Down, Phase
    <3>2. proc' = [proc EXCEPT ![i] = Down] /\ UNCHANGED <<applied, rows, dirty>>
      BY <2>3 DEF Rollback
    <3> QED
      BY <3>1, <3>2, PhasePlans
  <2>4. CASE UNCHANGED migrationVars
    BY <2>4 DEF migrationVars, MigrationInv, MigrationsTypeOK, RecordedVersionIsApplied, Planned
  <2> QED
    BY <2>1, <2>2, <2>3, <2>4, ReadPlans, CommitPlans DEF MigrationsNext
<1> QED
  BY <1>1, <1>2, PTL DEF MigrationsSpec

\* Whatever instances start, race and die, one that serves has all migrations of its
\* binary below it (main.go:82-83).
THEOREM SchemaIsComplete == MigrationsSpec => []ServesLatestSchema
<1>1. MigrationInv => ServesLatestSchema
  BY DEF MigrationInv, Planned, ServesLatestSchema
<1> QED
  BY <1>1, MigrationInductive, PTL

\* A recorded version stands for all migrations up to it, so that the next start leaves
\* none out (migrate.go:8-9).
THEOREM VersionIsApplied == MigrationsSpec => []RecordedVersionIsApplied
<1>1. MigrationInv => RecordedVersionIsApplied
  BY DEF MigrationInv
<1> QED
  BY <1>1, MigrationInductive, PTL

(***************************************************************************)
(* The schedule.                                                           *)
(***************************************************************************)

\* The entries are those of the rows, or some change has still to announce itself.
Pending(q) == edits[q] # Missing /\ ~Holds(q, "write")

ScheduleInv ==
  /\ ScheduleTypeOK /\ RunsInItsWindow
  /\ cron = EntriesOf(plans) \/ behind \/ \E q \in Edit : Pending(q)

LEMMA ClockTurns ==
  ASSUME NEW x \in Nat, x < 2 * Minutes
  PROVE  x % Minutes = IF x < Minutes THEN x ELSE x - Minutes
BY ScheduleAssumption DEF ScheduleAssumption

\* The comparison of the code is membership of the arc.
LEMMA WithinIsArc ==
  ASSUME NEW s \in Settings, NEW now \in Minute
  PROVE  Within(s, now) <=> now \in Arc(s.window)
<1> DEFINE w == s.window
           length == IF w.end >= w.start THEN w.end - w.start ELSE w.end - w.start + Minutes
<1>1. Minutes \in Nat \ {0} /\ Missing \notin Int
  BY ScheduleAssumption DEF ScheduleAssumption
<1>2. w.start \in Minute \union {Missing} /\ w.end \in 0 .. Minutes \union {Missing}
  BY DEF Settings, Windows
<1>3. CASE w.start = Missing \/ w.end = Missing
  BY <1>3 DEF Within, Arc
<1>4. CASE ~(w.start = Missing \/ w.end = Missing)
  <2>1. w.start \in 0 .. Minutes - 1 /\ w.end \in 0 .. Minutes /\ now \in 0 .. Minutes - 1
    BY <1>2, <1>4 DEF Minute
  <2>2. length \in 0 .. Minutes
    BY <1>1, <2>1
  <2>3. Arc(s.window) = {(w.start + k) % Minutes : k \in 0 .. length - 1}
    BY <1>4 DEF Arc
  <2>4. \A k \in 0 .. length - 1 :
          (w.start + k) % Minutes = IF w.start + k < Minutes THEN w.start + k ELSE w.start + k - Minutes
    BY <1>1, <2>1, <2>2, ClockTurns
  <2>5. now \in Arc(s.window) <=>
          \E k \in 0 .. length - 1 :
            now = IF w.start + k < Minutes THEN w.start + k ELSE w.start + k - Minutes
    BY <2>3, <2>4
  <2>6. Within(s, now) <=>
          /\ w.start <= w.end => now >= w.start /\ now < w.end
          /\ ~(w.start <= w.end) => now >= w.start \/ now < w.end
    BY <1>4 DEF Within
  <2> DEFINE a == w.start
             z == w.end
             Open == (a <= z => now >= a /\ now < z) /\ (~(a <= z) => now >= a \/ now < z)
             At(k) == now = IF a + k < Minutes THEN a + k ELSE a + k - Minutes
  <2>7. (\E k \in 0 .. length - 1 : At(k)) <=> Open
    <3>1. ASSUME NEW k \in 0 .. length - 1, At(k) PROVE Open
      BY <1>1, <2>1, <2>2, <3>1
    <3>2. ASSUME Open PROVE \E k \in 0 .. length - 1 : At(k)
      <4> DEFINE k == IF now >= a THEN now - a ELSE now - a + Minutes
      <4>1. k \in 0 .. length - 1
        BY <1>1, <2>1, <3>2
      <4>2. At(k)
        BY <1>1, <2>1
      <4> QED
        BY <4>1, <4>2
    <3> HIDE DEF Open, At, length
    <3> QED
      BY <3>1, <3>2
  <2> QED
    BY <2>5, <2>6, <2>7
<1> QED
  BY <1>3, <1>4

\* A request whose step is known is one before its list is read.
LEMMA EditForms ==
  ASSUME ScheduleTypeOK, NEW q \in Edit, edits[q] # Missing
  PROVE  /\ "step" \in DOMAIN edits[q]
              => edits[q] \in [plan : Plan, to : Setting \union {Missing}, step : {"write", "list"}]
         /\ "list" \in DOMAIN edits[q] => edits[q] \in [list : Table]
<1>1. edits[q] \in ChangeRequest
  BY DEF ScheduleTypeOK
<1>2. \A e \in [plan : Plan, to : Setting \union {Missing}, step : {"write", "list"}] :
        "list" \notin DOMAIN e
  OBVIOUS
<1>3. \A e \in [list : Table] : "step" \notin DOMAIN e
  OBVIOUS
<1> QED
  BY <1>1, <1>2, <1>3 DEF ChangeRequest

LEMMA ScheduleTypesStay == ScheduleTypeOK /\ [ScheduleNext]_scheduleVars => ScheduleTypeOK'
<1> SUFFICES ASSUME ScheduleTypeOK, [ScheduleNext]_scheduleVars PROVE ScheduleTypeOK'
  OBVIOUS
<1>0. ScheduleTypeOK
  OBVIOUS
<1> USE DEF ScheduleTypeOK
<1>1. CASE PassMinute
  <2>1. (clock + 1) % Minutes \in Minute
    BY ScheduleAssumption DEF Minute, ScheduleAssumption
  <2> QED
    BY <1>1, <2>1 DEF PassMinute
<1>2. ASSUME NEW q \in Edit, NEW p \in Plan, NEW to \in Setting \union {Missing}, Begin(q, p, to)
      PROVE  ScheduleTypeOK'
  BY <1>2 DEF Begin, ChangeRequest
<1>3. ASSUME NEW q \in Edit, Write(q) PROVE ScheduleTypeOK'
  <2>1. edits[q] \in [plan : Plan, to : Setting \union {Missing}, step : {"write", "list"}]
    BY <1>3, EditForms DEF Write, Holds
  <2>2. [edits[q] EXCEPT !.step = "list"] \in ChangeRequest
    BY <2>1 DEF ChangeRequest
  <2>3. plans' \in Table
    BY <1>3, <2>1 DEF Write, Table
  <2> QED
    BY <1>3, <2>2, <2>3 DEF Write
<1>4. ASSUME NEW q \in Edit, List(q) PROVE ScheduleTypeOK'
  BY <1>4 DEF List, ChangeRequest
<1>5. ASSUME NEW q \in Edit, WriteRefused(q) \/ ListFails(q) PROVE ScheduleTypeOK'
  BY <1>5 DEF WriteRefused, ListFails
<1>6. ASSUME NEW q \in Edit, Install(q) PROVE ScheduleTypeOK'
  BY <1>6 DEF Install, EntriesOf
<1>7. ASSUME NEW e \in cron, Fire(e) PROVE ScheduleTypeOK'
  BY <1>7 DEF Fire
<1>8. ASSUME NEW e \in firing, DispatchBackup(e) PROVE ScheduleTypeOK'
  <2>1. e.settings \in Setting /\ Within(e.settings, clock) \in BOOLEAN
    BY DEF Entry, Within
  <2>2. begun' = {[settings |-> e.settings, at |-> clock, go |-> Within(e.settings, clock)]}
        /\ UNCHANGED <<plans, cron, edits, clock, behind>> /\ firing' = firing \ {e}
    BY <1>8 DEF DispatchBackup
  <2> HIDE DEF Within
  <2> QED
    BY <2>1, <2>2
<1>9. CASE UNCHANGED scheduleVars
  BY <1>9 DEF scheduleVars
<1> QED
  BY <1>1, <1>2, <1>3, <1>4, <1>5, <1>6, <1>7, <1>8, <1>9 DEF ScheduleNext

LEMMA WindowKept == ScheduleInv /\ [ScheduleNext]_scheduleVars => RunsInItsWindow'
<1> SUFFICES ASSUME ScheduleInv, [ScheduleNext]_scheduleVars PROVE RunsInItsWindow'
  OBVIOUS
<1>1. ASSUME NEW e \in firing, DispatchBackup(e) PROVE RunsInItsWindow'
  <2>1. e.settings \in Settings /\ clock \in Minute
    BY ScheduleAssumption DEF ScheduleInv, ScheduleTypeOK, Entry, ScheduleAssumption
  <2>2. Within(e.settings, clock) <=> clock \in Arc(e.settings.window)
    BY <2>1, WithinIsArc
  <2>3. begun' = {[settings |-> e.settings, at |-> clock, go |-> Within(e.settings, clock)]}
    BY <1>1 DEF DispatchBackup
  <2> QED
    BY <2>2, <2>3 DEF RunsInItsWindow
<1>2. CASE PassMinute
  BY <1>2 DEF PassMinute, RunsInItsWindow
<1>3. CASE begun' = begun
  BY <1>3 DEF ScheduleInv, RunsInItsWindow
<1> QED
  BY <1>1, <1>2, <1>3 DEF ScheduleNext, scheduleVars, Begin, Write, WriteRefused, List, ListFails,
    Install, Fire

LEMMA AnnouncementsWait ==
  ASSUME ScheduleInv, [ScheduleNext]_scheduleVars
  PROVE  (cron = EntriesOf(plans) \/ behind \/ \E q \in Edit : Pending(q))'
<1>0. ScheduleTypeOK /\ (cron = EntriesOf(plans) \/ behind \/ \E q \in Edit : Pending(q))
  BY DEF ScheduleInv
<1>t. edits \in [Edit -> ChangeRequest \union {Missing}] /\ Missing \notin ChangeRequest
  BY <1>0, ScheduleAssumption DEF ScheduleTypeOK, ScheduleAssumption
<1>1. ASSUME NEW q \in Edit, NEW p \in Plan, NEW to \in Setting \union {Missing}, Begin(q, p, to)
      PROVE  (cron = EntriesOf(plans) \/ behind \/ \E r \in Edit : Pending(r))'
  <2>1. UNCHANGED <<plans, cron, behind>> /\ edits[q] = Missing
        /\ \A r \in Edit \ {q} : edits'[r] = edits[r]
    BY <1>1, <1>t DEF Begin
  <2>2. \A r \in Edit : Pending(r) => r # q /\ Pending(r)'
    BY <2>1 DEF Pending, Holds
  <2> QED
    BY <1>0, <2>1, <2>2 DEF EntriesOf
<1>2. ASSUME NEW q \in Edit, Write(q) PROVE \E r \in Edit : Pending(r)'
  <2>1. edits[q] \in [plan : Plan, to : Setting \union {Missing}, step : {"write", "list"}]
    BY <1>0, <1>2, EditForms DEF Write, Holds
  <2>2. edits'[q] = [edits[q] EXCEPT !.step = "list"]
    BY <1>2, <1>t DEF Write
  <2>3. edits'[q] \in ChangeRequest /\ edits'[q].step = "list"
    BY <2>1, <2>2 DEF ChangeRequest
  <2> QED
    BY <1>t, <2>3 DEF Pending, Holds
<1>3. ASSUME NEW q \in Edit, WriteRefused(q)
      PROVE  (cron = EntriesOf(plans) \/ behind \/ \E r \in Edit : Pending(r))'
  <2>1. UNCHANGED <<plans, cron, behind>> /\ Holds(q, "write")
        /\ \A r \in Edit \ {q} : edits'[r] = edits[r]
    BY <1>3, <1>t DEF WriteRefused
  <2>2. \A r \in Edit : Pending(r) => r # q /\ Pending(r)'
    BY <2>1 DEF Pending, Holds
  <2> QED
    BY <1>0, <2>1, <2>2 DEF EntriesOf
<1>4. ASSUME NEW q \in Edit, List(q) PROVE \E r \in Edit : Pending(r)'
  <2>1. edits'[q] = [list |-> plans] /\ plans \in Table
    BY <1>0, <1>4, <1>t DEF List, ScheduleTypeOK
  <2>2. edits'[q] \in ChangeRequest /\ "step" \notin DOMAIN edits'[q]
    BY <2>1 DEF ChangeRequest
  <2> QED
    BY <1>t, <2>2 DEF Pending, Holds
<1>5. ASSUME NEW q \in Edit, ListFails(q) PROVE behind'
  BY <1>5 DEF ListFails
<1>6. ASSUME NEW q \in Edit, Install(q) PROVE cron' = EntriesOf(plans)' \/ behind'
  <2>1. cron' = EntriesOf(edits[q].list) /\ behind' = (edits[q].list # plans) /\ plans' = plans
    BY <1>6 DEF Install
  <2> QED
    BY <2>1 DEF EntriesOf
<1>7. CASE UNCHANGED <<plans, cron, edits, behind>>
  BY <1>0, <1>7 DEF EntriesOf, Pending, Holds
<1> QED
  BY <1>1, <1>2, <1>3, <1>4, <1>5, <1>6, <1>7
  DEF ScheduleNext, scheduleVars, PassMinute, Fire, DispatchBackup

LEMMA ScheduleInductive == ScheduleSpec => []ScheduleInv
<1>1. ScheduleInit => ScheduleInv
  <2> SUFFICES ASSUME ScheduleInit PROVE ScheduleInv
    OBVIOUS
  <2>1. 0 \in Minute
    BY ScheduleAssumption DEF ScheduleAssumption, Minute
  <2> QED
    BY <2>1 DEF ScheduleInit, ScheduleInv, ScheduleTypeOK, RunsInItsWindow, EntriesOf
<1>2. ScheduleInv /\ [ScheduleNext]_scheduleVars => ScheduleInv'
  BY ScheduleTypesStay, WindowKept, AnnouncementsWait DEF ScheduleInv
<1> QED
  BY <1>1, <1>2, PTL DEF ScheduleSpec

\* When no change is under way the entries are those of the rows, or the last reload
\* failed or was overtaken (scheduler.go:92-102).
THEOREM EntriesAreCurrent == ScheduleSpec => []ScheduleIsCurrent
<1>1. ScheduleInv => ScheduleIsCurrent
  BY DEF ScheduleInv, ScheduleIsCurrent, Pending
<1> QED
  BY <1>1, ScheduleInductive, PTL

\* Backups begin exactly in the minutes of the arc from the start of the window to its
\* end, for a day of any number of minutes (scheduler.go:175-197).
THEOREM WindowIsKept == ScheduleSpec => []RunsInItsWindow
<1>1. ScheduleInv => RunsInItsWindow
  BY DEF ScheduleInv
<1> QED
  BY <1>1, ScheduleInductive, PTL

(***************************************************************************)
(* The enrollment.                                                         *)
(***************************************************************************)

\* Whatever refers to a one-time token refers to one that was made.
KeysIssued ==
  /\ \A q \in Ask : serving[q] # Absent => serving[q].key \in issued
  /\ \A t \in Bearer : minted[t] # Absent => minted[t].key \in issued
  /\ \A g \in Agent : agents[g].given \in issued \union {Absent}

\* A request that found the one-time token e unused and has not stored its token.
Claims(q, e) == serving[q] # Absent /\ serving[q].key = e /\ serving[q].step \in {"mark", "store"}
Spent(e)     == \/ \E q \in Ask : AtStep(q, "store") /\ serving[q].key = e
                \/ \E t \in Bearer : minted[t] # Absent /\ minted[t].key = e

OneClaim ==
  \A e \in OneTime \ shared :
    /\ \A p, q \in Ask : Claims(p, e) /\ Claims(q, e) => p = q
    /\ \A q \in Ask, t \in Bearer : Claims(q, e) /\ minted[t] # Absent => minted[t].key # e
    /\ \A s, t \in Bearer :
         minted[s] # Absent /\ minted[t] # Absent /\ minted[s].key = e /\ minted[t].key = e => s = t
    /\ Spent(e) => ~Usable(e)

\* The row of a token is there exactly while its system is; nobody has a token that was
\* not made.
TokensOfHosts ==
  /\ \A t \in Bearer :
       /\ bearer[t] # Absent => bearer[t] \in hosts /\ minted[t] # Absent /\ minted[t].host = bearer[t]
       /\ minted[t] # Absent /\ bearer[t] = Absent => minted[t].host \notin hosts
  /\ \A g \in Agent, t \in Bearer : t \in {agents[g].held, agents[g].file} => minted[t] # Absent
  /\ \A q \in Ask, t \in Bearer : serving[q] # Absent /\ serving[q].token = t => minted[t] # Absent

\* A one-time token is given to one agent, which waits for one answer.
OneAsker ==
  /\ \A g, k \in Agent : g # k /\ agents[g].given = agents[k].given => agents[g].given = Absent
  /\ \A g \in Agent : agents[g].asked # Absent =>
       LET q == agents[g].asked IN
       agents[g].phase = "enrolling" /\ serving[q] # Absent /\ serving[q].key = agents[g].given

\* An agent that met no fault has a way to its token.
HasAWay(g) ==
  LET a == agents[g] IN
  /\ a.phase # "refused"
  /\ a.phase = "stopped" /\ a.file = Absent /\ a.given # Absent => Usable(a.given)
  /\ a.phase = "saving" => a.held # Absent
  /\ a.phase = "running" => a.file # Absent
  /\ \A q \in Ask : serving[q] # Absent /\ serving[q].key = a.given =>
       /\ a.asked = q
       /\ serving[q].step = "read" => Usable(a.given)
       /\ serving[q].step = "done" => serving[q].token # Absent

EnrollmentInv ==
  /\ EnrollmentTypeOK /\ KeysIssued /\ OneClaim /\ TokensOfHosts /\ OneAsker
  /\ \A g \in Agent \ excused : HasAWay(g)

LEMMA NoRecordIsAbsent ==
  /\ Absent \notin Host /\ Absent \notin OneTime /\ Absent \notin Bearer /\ Absent \notin Ask
  /\ Absent \notin OneTimeRow /\ Absent \notin Handler /\ Absent \notin Minted
BY EnrollmentAssumption DEF EnrollmentAssumption

\* The handler of q is at another step, with the key it had.
Moved(q, next, token) ==
  /\ serving[q] # Absent /\ serving[q].key \in OneTime
  /\ serving' \in [Ask -> Handler \union {Absent}]
  /\ serving'[q] # Absent /\ serving'[q].key = serving[q].key
  /\ serving'[q].step = next /\ serving'[q].token = token
  /\ \A p \in Ask \ {q} : serving'[p] = serving[p]

LEMMA HandlerMoves ==
  ASSUME EnrollmentTypeOK, NEW q \in Ask, serving[q] # Absent, NEW h \in Handler,
         h.key = serving[q].key, serving' = [serving EXCEPT ![q] = h]
  PROVE  Moved(q, h.step, h.token)
<1>1. serving[q] \in Handler
  BY DEF EnrollmentTypeOK
<1>2. serving[q].key \in OneTime
  BY <1>1 DEF Handler
<1> QED
  BY <1>2, NoRecordIsAbsent DEF EnrollmentTypeOK, Moved

LEMMA AnswerMoves ==
  ASSUME EnrollmentTypeOK, NEW q \in Ask, serving[q] # Absent, NEW t \in Bearer \union {Absent},
         AnswerWith(q, t)
  PROVE  Moved(q, "done", t)
<1> DEFINE h == [serving[q] EXCEPT !.step = "done", !.token = t]
<1>1. serving[q] \in Handler
  BY DEF EnrollmentTypeOK
<1>2. serving' = [serving EXCEPT ![q] = h]
  BY DEF AnswerWith
<1>3. h \in Handler /\ h.key = serving[q].key /\ h.step = "done" /\ h.token = t
  BY <1>1 DEF Handler
<1> HIDE DEF h
<1> QED
  BY <1>2, <1>3, HandlerMoves

LEMMA ReadMoves ==
  ASSUME EnrollmentTypeOK, NEW q \in Ask, ConsumeRead(q)
  PROVE  /\ serving[q] # Absent /\ serving[q].step = "read"
         /\ IF Usable(serving[q].key) THEN Moved(q, "mark", serving[q].token) ELSE Moved(q, "done", Absent)
<1>1. serving[q] # Absent /\ serving[q].step = "read" /\ serving[q] \in Handler
  BY DEF EnrollmentTypeOK, ConsumeRead, AtStep
<1>2. CASE Usable(serving[q].key)
  <2> DEFINE h == [serving[q] EXCEPT !.step = "mark", !.host = onetime[serving[q].key].host]
  <2>1. serving' = [serving EXCEPT ![q] = h]
    BY <1>2 DEF ConsumeRead
  <2>2. onetime[serving[q].key].host \in Host
    BY <1>1, <1>2 DEF Usable, EnrollmentTypeOK, OneTimeRow, Handler
  <2>3. h \in Handler /\ h.step = "mark" /\ h.key = serving[q].key /\ h.token = serving[q].token
    BY <1>1, <2>2 DEF Handler
  <2> HIDE DEF h
  <2>4. Moved(q, "mark", serving[q].token)
    BY <1>1, <2>1, <2>3, HandlerMoves
  <2> QED
    BY <1>1, <1>2, <2>4
<1>3. CASE ~Usable(serving[q].key)
  <2>1. AnswerWith(q, Absent)
    BY <1>3 DEF ConsumeRead
  <2>2. Moved(q, "done", Absent)
    BY <1>1, <2>1, AnswerMoves
  <2> QED
    BY <1>1, <1>3, <2>2
<1> QED
  BY <1>2, <1>3

LEMMA MarkMoves ==
  ASSUME EnrollmentTypeOK, NEW q \in Ask, ConsumeMark(q)
  PROVE  serving[q] # Absent /\ serving[q].step = "mark" /\ Moved(q, "store", serving[q].token)
<1> DEFINE h == [serving[q] EXCEPT !.step = "store"]
<1>1. serving[q] # Absent /\ serving[q].step = "mark" /\ serving[q] \in Handler
  BY DEF EnrollmentTypeOK, ConsumeMark, AtStep
<1>2. serving' = [serving EXCEPT ![q] = h]
  BY DEF ConsumeMark
<1>3. h \in Handler /\ h.step = "store" /\ h.key = serving[q].key /\ h.token = serving[q].token
  BY <1>1 DEF Handler
<1> HIDE DEF h
<1>4. Moved(q, "store", serving[q].token)
  BY <1>1, <1>2, <1>3, HandlerMoves
<1> QED
  BY <1>1, <1>4

LEMMA FailMoves ==
  ASSUME EnrollmentTypeOK, NEW q \in Ask, StatementFails(q)
  PROVE  Moved(q, "done", Absent)
BY AnswerMoves DEF StatementFails, AtStep

LEMMA StoreMoves ==
  ASSUME EnrollmentTypeOK, NEW q \in Ask, NEW t \in Bearer, Store(q, t)
  PROVE  serving[q] # Absent /\ serving[q].step = "store" /\ Moved(q, "done", t)
BY AnswerMoves DEF Store, AtStep

\* Setting one field of one agent keeps the type of the agents.
LEMMA AgentFields ==
  ASSUME NEW f \in [Agent -> AgentState], NEW g \in Agent
  PROVE  /\ \A p \in {"stopped", "enrolling", "saving", "running", "refused"} :
              [f EXCEPT ![g].phase = p] \in [Agent -> AgentState]
         /\ \A e \in OneTime \union {Absent} : [f EXCEPT ![g].given = e] \in [Agent -> AgentState]
         /\ \A t \in Bearer \union {Absent} : /\ [f EXCEPT ![g].held = t] \in [Agent -> AgentState]
                                              /\ [f EXCEPT ![g].file = t] \in [Agent -> AgentState]
         /\ \A q \in Ask \union {Absent} : [f EXCEPT ![g].asked = q] \in [Agent -> AgentState]
<1>1. f[g] \in AgentState
  OBVIOUS
<1>2. ASSUME NEW p \in {"stopped", "enrolling", "saving", "running", "refused"}
      PROVE  [f EXCEPT ![g].phase = p] \in [Agent -> AgentState]
  <2>1. [f[g] EXCEPT !.phase = p] \in AgentState
    BY <1>1 DEF AgentState
  <2> QED
    BY <2>1
<1>3. ASSUME NEW e \in OneTime \union {Absent}
      PROVE  [f EXCEPT ![g].given = e] \in [Agent -> AgentState]
  <2>1. [f[g] EXCEPT !.given = e] \in AgentState
    BY <1>1 DEF AgentState
  <2> QED
    BY <2>1
<1>4. ASSUME NEW t \in Bearer \union {Absent}
      PROVE  /\ [f EXCEPT ![g].held = t] \in [Agent -> AgentState]
             /\ [f EXCEPT ![g].file = t] \in [Agent -> AgentState]
  <2>1. [f[g] EXCEPT !.held = t] \in AgentState /\ [f[g] EXCEPT !.file = t] \in AgentState
    BY <1>1 DEF AgentState
  <2> QED
    BY <2>1
<1>5. ASSUME NEW q \in Ask \union {Absent}
      PROVE  [f EXCEPT ![g].asked = q] \in [Agent -> AgentState]
  <2>1. [f[g] EXCEPT !.asked = q] \in AgentState
    BY <1>1 DEF AgentState
  <2> QED
    BY <2>1
<1> QED
  BY <1>2, <1>3, <1>4, <1>5

LEMMA EnrollmentTypesStay ==
  EnrollmentTypeOK /\ [EnrollmentNext]_enrollmentVars => EnrollmentTypeOK'
<1> SUFFICES ASSUME EnrollmentTypeOK, [EnrollmentNext]_enrollmentVars PROVE EnrollmentTypeOK'
  OBVIOUS
<1>0. EnrollmentTypeOK
  OBVIOUS
<1>a. agents \in [Agent -> AgentState]
  BY DEF EnrollmentTypeOK
<1>b. ASSUME NEW g \in Agent
      PROVE  agents[g].held \in Bearer \union {Absent} /\ agents[g].file \in Bearer \union {Absent}
             /\ agents[g].given \in OneTime \union {Absent}
  BY <1>a DEF AgentState
<1>1. ASSUME NEW e \in OneTime, NEW h \in Host, NEW g \in Agent, CreateOneTime(e, h, g)
      PROVE  EnrollmentTypeOK'
  <2>1. [agents EXCEPT ![g].given = e, ![g].phase = "stopped"] \in [Agent -> AgentState]
    <3>1. [agents EXCEPT ![g].given = e] \in [Agent -> AgentState]
      BY <1>a, AgentFields
    <3> QED
      BY <3>1, AgentFields
  <2>2. [host |-> h, used |-> FALSE, expired |-> FALSE] \in OneTimeRow
    BY DEF OneTimeRow
  <2> QED
    BY <1>0, <1>1, <2>1, <2>2 DEF CreateOneTime, EnrollmentTypeOK
<1>2. ASSUME NEW e \in OneTime, Expire(e) PROVE EnrollmentTypeOK'
  <2>1. [onetime[e] EXCEPT !.expired = TRUE] \in OneTimeRow
    BY <1>0, <1>2 DEF Expire, EnrollmentTypeOK, OneTimeRow
  <2> QED
    BY <1>0, <1>2, <2>1 DEF Expire, FaultOf, EnrollmentTypeOK
<1>3. ASSUME NEW h \in Host, Purge(h) PROVE EnrollmentTypeOK'
  BY <1>0, <1>3 DEF Purge, Erased, EnrollmentTypeOK
<1>4. ASSUME NEW q \in Ask, ConsumeRead(q) PROVE EnrollmentTypeOK'
  <2>1. serving' \in [Ask -> Handler \union {Absent}] /\ serving[q].key \in OneTime
    BY <1>0, <1>4, ReadMoves DEF Moved
  <2> QED
    BY <1>0, <1>4, <2>1 DEF ConsumeRead, EnrollmentTypeOK
<1>5. ASSUME NEW q \in Ask, ConsumeMark(q) PROVE EnrollmentTypeOK'
  <2>1. serving' \in [Ask -> Handler \union {Absent}] /\ serving[q].key \in OneTime
    BY <1>0, <1>5, MarkMoves DEF Moved
  <2>2. onetime[serving[q].key] # Absent =>
          [onetime[serving[q].key] EXCEPT !.used = TRUE] \in OneTimeRow
    BY <1>0, <2>1 DEF EnrollmentTypeOK, OneTimeRow
  <2> QED
    BY <1>0, <1>5, <2>1, <2>2 DEF ConsumeMark, EnrollmentTypeOK
<1>6. ASSUME NEW q \in Ask, StatementFails(q) PROVE EnrollmentTypeOK'
  <2>1. serving' \in [Ask -> Handler \union {Absent}]
    BY <1>0, <1>6, FailMoves DEF Moved
  <2> QED
    BY <1>0, <1>6, <2>1 DEF StatementFails, FaultOf, EnrollmentTypeOK
<1>7. ASSUME NEW q \in Ask, NEW t \in Bearer, Store(q, t) PROVE EnrollmentTypeOK'
  <2>1. serving' \in [Ask -> Handler \union {Absent}] /\ serving[q].key \in OneTime
    BY <1>0, <1>7, StoreMoves DEF Moved
  <2>2. [key |-> serving[q].key, host |-> serving[q].host] \in Minted /\ serving[q].host \in Host
    BY <1>0, <1>7, <2>1 DEF Store, EnrollmentTypeOK, Minted
  <2> QED
    BY <1>0, <1>7, <2>1, <2>2 DEF Store, EnrollmentTypeOK
<1>8. ASSUME NEW g \in Agent, NEW q \in Ask, ResolveToken(g, q) PROVE EnrollmentTypeOK'
  <2>1. CASE Resume(g)
    <3>1. [agents EXCEPT ![g].phase = "running", ![g].held = agents[g].file] \in [Agent -> AgentState]
      <4>1. [agents EXCEPT ![g].phase = "running"] \in [Agent -> AgentState]
        BY <1>a, AgentFields
      <4> QED
        BY <1>b, <4>1, AgentFields
    <3> QED
      BY <1>0, <1>8, <2>1, <3>1 DEF Resume, ResolveToken, EnrollmentTypeOK
  <2>2. CASE Enroll(g, q)
    <3>1. [agents EXCEPT ![g].phase = "enrolling", ![g].asked = q] \in [Agent -> AgentState]
      <4>1. [agents EXCEPT ![g].phase = "enrolling"] \in [Agent -> AgentState]
        BY <1>a, AgentFields
      <4> QED
        BY <4>1, AgentFields
    <3>2. Asking(agents[g].given) \in Handler
      BY <1>a, <2>2 DEF Enroll, Asking, AgentState, Handler
    <3> QED
      BY <1>0, <1>8, <2>2, <3>1, <3>2 DEF Enroll, ResolveToken, EnrollmentTypeOK
  <2> QED
    BY <1>8, <2>1, <2>2 DEF ResolveToken
<1>9. ASSUME NEW q \in Ask, Receive(q) PROVE EnrollmentTypeOK'
  <2>1. serving[q].token \in Bearer \union {Absent}
    BY <1>0, <1>9 DEF Receive, AtStep, EnrollmentTypeOK, Handler
  <2>2. ASSUME NEW g \in Agent PROVE agents'[g] \in AgentState
    BY <1>a, <1>9, <2>1 DEF Receive, AgentState
  <2>3. agents' \in [Agent -> AgentState]
    BY <1>9, <2>2 DEF Receive
  <2> QED
    BY <1>0, <1>9, <2>3 DEF Receive, EnrollmentTypeOK
<1>10. ASSUME NEW g \in Agent, LoseAnswer(g) PROVE EnrollmentTypeOK'
  <2>1. [agents EXCEPT ![g].phase = "refused", ![g].asked = Absent] \in [Agent -> AgentState]
    <3>1. [agents EXCEPT ![g].phase = "refused"] \in [Agent -> AgentState]
      BY <1>a, AgentFields
    <3> QED
      BY <3>1, AgentFields
  <2> QED
    BY <1>0, <1>10, <2>1 DEF LoseAnswer, Fault, EnrollmentTypeOK
<1>11. ASSUME NEW g \in Agent, SaveToken(g) PROVE EnrollmentTypeOK'
  <2>1. [agents EXCEPT ![g].phase = "running", ![g].file = agents[g].held] \in [Agent -> AgentState]
        /\ [agents EXCEPT ![g].phase = "running"] \in [Agent -> AgentState]
    <3>1. [agents EXCEPT ![g].phase = "running"] \in [Agent -> AgentState]
      BY <1>a, AgentFields
    <3> QED
      BY <1>b, <3>1, AgentFields
  <2> QED
    BY <1>0, <1>11, <2>1 DEF SaveToken, Fault, EnrollmentTypeOK
<1>12. ASSUME NEW g \in Agent, StopAgent(g) PROVE EnrollmentTypeOK'
  <2>1. [agents EXCEPT ![g].phase = "stopped", ![g].held = Absent, ![g].asked = Absent]
          \in [Agent -> AgentState]
    <3>1. [agents EXCEPT ![g].phase = "stopped"] \in [Agent -> AgentState]
      BY <1>a, AgentFields
    <3>2. [agents EXCEPT ![g].phase = "stopped", ![g].held = Absent] \in [Agent -> AgentState]
      BY <3>1, AgentFields
    <3> QED
      BY <3>2, AgentFields
  <2> QED
    BY <1>0, <1>12, <2>1 DEF StopAgent, Fault, EnrollmentTypeOK
<1>13. CASE UNCHANGED enrollmentVars
  BY <1>0, <1>13 DEF enrollmentVars, EnrollmentTypeOK
<1> QED
  BY <1>1, <1>2, <1>3, <1>4, <1>5, <1>6, <1>7, <1>8, <1>9, <1>10, <1>11, <1>12, <1>13
  DEF EnrollmentNext

\* The steps of handlers, of agents, and of the others.
HandlerStep ==
  \E q \in Ask : \/ ConsumeRead(q) \/ ConsumeMark(q) \/ StatementFails(q)
                 \/ \E t \in Bearer : Store(q, t)
AgentStep ==
  \E g \in Agent : \/ \E q \in Ask : ResolveToken(g, q)
                   \/ LoseAnswer(g) \/ SaveToken(g) \/ StopAgent(g)

\* What an agent's step leaves alone.
LEMMA AgentSteps ==
  ASSUME EnrollmentTypeOK, AgentStep
  PROVE  /\ UNCHANGED <<hosts, onetime, bearer, minted, issued, shared>>
         /\ excused \subseteq excused'
         /\ \A g \in Agent : agents'[g].given = agents[g].given
<1>1. agents \in [Agent -> AgentState] /\ excused \subseteq Agent
  BY DEF EnrollmentTypeOK
<1>2. ASSUME NEW g \in Agent, NEW q \in Ask, ResolveToken(g, q)
      PROVE  \A k \in Agent : agents'[k].given = agents[k].given
  BY <1>1, <1>2 DEF ResolveToken, Resume, Enroll, AgentState
<1>3. ASSUME NEW g \in Agent, LoseAnswer(g) \/ SaveToken(g) \/ StopAgent(g)
      PROVE  \A k \in Agent : agents'[k].given = agents[k].given
  BY <1>1, <1>3 DEF LoseAnswer, SaveToken, StopAgent, AgentState
<1> QED
  BY <1>2, <1>3 DEF AgentStep, ResolveToken, Resume, Enroll, LoseAnswer, SaveToken, StopAgent, Fault

LEMMA ReceiveSteps ==
  ASSUME EnrollmentTypeOK, NEW q \in Ask, Receive(q)
  PROVE  /\ UNCHANGED <<hosts, onetime, bearer, minted, excused, issued, shared>>
         /\ serving[q] # Absent /\ serving[q].step = "done" /\ serving'[q] = Absent
         /\ \A p \in Ask \ {q} : serving'[p] = serving[p]
         /\ \A g \in Agent : /\ agents'[g].given = agents[g].given /\ agents'[g].file = agents[g].file
                             /\ agents[g].asked # q => agents'[g] = agents[g]
                             /\ agents[g].asked = q =>
                                  /\ agents'[g].held = serving[q].token /\ agents'[g].asked = Absent
                                  /\ agents'[g].phase = IF serving[q].token = Absent THEN "refused"
                                                        ELSE "saving"
<1>1. agents \in [Agent -> AgentState] /\ serving \in [Ask -> Handler \union {Absent}]
  BY DEF EnrollmentTypeOK
<1>2. ASSUME NEW g \in Agent
      PROVE  /\ agents'[g].given = agents[g].given /\ agents'[g].file = agents[g].file
             /\ agents[g].asked # q => agents'[g] = agents[g]
             /\ agents[g].asked = q =>
                  /\ agents'[g].held = serving[q].token /\ agents'[g].asked = Absent
                  /\ agents'[g].phase = IF serving[q].token = Absent THEN "refused" ELSE "saving"
  BY <1>1 DEF Receive, AgentState
<1> QED
  BY <1>1, <1>2 DEF Receive, AtStep

\* A new request is at its reading; the others stay.
LEMMA EnrollSteps ==
  ASSUME EnrollmentTypeOK, NEW g \in Agent, NEW q \in Ask, Enroll(g, q)
  PROVE  /\ agents[g].given \in OneTime /\ serving[q] = Absent
         /\ serving'[q] # Absent /\ serving'[q].key = agents[g].given
         /\ serving'[q].step = "read" /\ serving'[q].token = Absent
         /\ \A p \in Ask \ {q} : serving'[p] = serving[p]
         /\ agents'[g].phase = "enrolling" /\ agents'[g].asked = q
         /\ agents'[g].given = agents[g].given /\ agents'[g].file = agents[g].file
         /\ agents'[g].held = agents[g].held
         /\ \A k \in Agent \ {g} : agents'[k] = agents[k]
<1>1. agents \in [Agent -> AgentState] /\ serving \in [Ask -> Handler \union {Absent}]
  BY DEF EnrollmentTypeOK
<1>2. agents[g].given \in OneTime
  BY <1>1 DEF Enroll, AgentState
<1>3. Asking(agents[g].given) \in Handler
  BY <1>2 DEF Asking, Handler
<1>4. serving' = [serving EXCEPT ![q] = Asking(agents[g].given)] /\ serving[q] = Absent
      /\ agents' = [agents EXCEPT ![g].phase = "enrolling", ![g].asked = q]
  BY DEF Enroll
<1>5. serving'[q] = Asking(agents[g].given) /\ \A p \in Ask \ {q} : serving'[p] = serving[p]
  BY <1>1, <1>4
<1>6. /\ agents'[g].phase = "enrolling" /\ agents'[g].asked = q
      /\ agents'[g].given = agents[g].given /\ agents'[g].file = agents[g].file
      /\ agents'[g].held = agents[g].held
      /\ \A k \in Agent \ {g} : agents'[k] = agents[k]
  BY <1>1, <1>4 DEF AgentState
<1>7. /\ serving'[q].key = agents[g].given /\ serving'[q].step = "read"
      /\ serving'[q].token = Absent
  BY <1>5 DEF Asking
<1>8. serving'[q] # Absent
  BY <1>3, <1>5, NoRecordIsAbsent
<1> QED
  BY <1>2, <1>4, <1>5, <1>6, <1>7, <1>8

LEMMA KeysStay == EnrollmentInv /\ [EnrollmentNext]_enrollmentVars => KeysIssued'
<1> SUFFICES ASSUME EnrollmentInv, [EnrollmentNext]_enrollmentVars PROVE KeysIssued'
  OBVIOUS
<1>0. EnrollmentTypeOK /\ KeysIssued
  BY DEF EnrollmentInv
<1> USE DEF KeysIssued
<1>1. ASSUME NEW e \in OneTime, NEW h \in Host, NEW g \in Agent, CreateOneTime(e, h, g)
      PROVE  KeysIssued'
  <2>1. \A k \in Agent : agents'[k].given \in {agents[k].given, e}
    BY <1>0, <1>1 DEF CreateOneTime, EnrollmentTypeOK, AgentState
  <2> QED
    BY <1>0, <1>1, <2>1 DEF CreateOneTime
<1>2. ASSUME NEW q \in Ask, ConsumeRead(q) \/ ConsumeMark(q) \/ StatementFails(q)
      PROVE  KeysIssued'
  <2>1. \A p \in Ask : serving'[p] # Absent => serving[p] # Absent /\ serving'[p].key = serving[p].key
    BY <1>0, <1>2, ReadMoves, MarkMoves, FailMoves DEF Moved
  <2>2. UNCHANGED <<minted, agents, issued>>
    BY <1>2 DEF ConsumeRead, ConsumeMark, StatementFails
  <2> QED
    BY <1>0, <2>1, <2>2
<1>3. ASSUME NEW q \in Ask, NEW t \in Bearer, Store(q, t) PROVE KeysIssued'
  <2>1. serving[q] # Absent
        /\ \A p \in Ask : serving'[p] # Absent => serving[p] # Absent /\ serving'[p].key = serving[p].key
    BY <1>0, <1>3, StoreMoves DEF Moved
  <2>2. UNCHANGED <<agents, issued>>
        /\ minted' = [minted EXCEPT ![t] = [key |-> serving[q].key, host |-> serving[q].host]]
    BY <1>3 DEF Store
  <2>3. \A s \in Bearer : minted'[s] # Absent => minted'[s].key \in issued
    BY <1>0, <2>1, <2>2 DEF EnrollmentTypeOK
  <2> QED
    BY <1>0, <2>1, <2>2, <2>3
<1>4. CASE AgentStep
  <2>1. \A q \in Ask : serving'[q] # Absent => serving'[q].key \in issued
    <3>1. ASSUME NEW g \in Agent, NEW q \in Ask, Enroll(g, q)
          PROVE  \A p \in Ask : serving'[p] # Absent => serving'[p].key \in issued
      BY <1>0, <3>1, EnrollSteps, NoRecordIsAbsent
    <3> QED
      BY <1>0, <1>4, <3>1 DEF AgentStep, ResolveToken, Resume, LoseAnswer, SaveToken, StopAgent
  <2> QED
    BY <1>0, <1>4, <2>1, AgentSteps
<1>5. ASSUME NEW q \in Ask, Receive(q) PROVE KeysIssued'
  BY <1>0, <1>5, ReceiveSteps
<1>6. CASE UNCHANGED <<serving, minted, agents, issued>>
  BY <1>0, <1>6
<1> QED
  BY <1>1, <1>2, <1>3, <1>4, <1>5, <1>6
  DEF EnrollmentNext, AgentStep, Expire, Purge, enrollmentVars

\* The claims of a step that makes no claim and no token.
LEMMA NoNewClaims ==
  ASSUME EnrollmentInv, minted' = minted, shared \subseteq shared',
         \A q \in Ask, e \in OneTime : Claims(q, e)' => Claims(q, e),
         \A q \in Ask, e \in OneTime : AtStep(q, "store")' /\ serving'[q].key = e
           => Spent(e) \/ ~Usable(e)',
         \A e \in OneTime : Usable(e)' => Usable(e) \/ ~Spent(e)
  PROVE  OneClaim'
BY DEF EnrollmentInv, OneClaim, Spent

LEMMA ClaimsStay == EnrollmentInv /\ [EnrollmentNext]_enrollmentVars => OneClaim'
<1> SUFFICES ASSUME EnrollmentInv, [EnrollmentNext]_enrollmentVars PROVE OneClaim'
  OBVIOUS
<1>0. EnrollmentTypeOK /\ KeysIssued /\ OneClaim
  BY DEF EnrollmentInv
<1>1. ASSUME NEW e \in OneTime, NEW h \in Host, NEW g \in Agent, CreateOneTime(e, h, g)
      PROVE  OneClaim'
  <2>1. UNCHANGED <<minted, serving, shared>> /\ e \notin issued
        /\ \A d \in OneTime \ {e} : onetime'[d] = onetime[d]
    BY <1>0, <1>1 DEF CreateOneTime, EnrollmentTypeOK
  <2>2. ~Spent(e)
    BY <1>0, <2>1 DEF KeysIssued, Spent, AtStep
  <2>3. \A d \in OneTime : Usable(d)' => Usable(d) \/ ~Spent(d)
    BY <2>1, <2>2 DEF Usable
  <2> QED
    BY <2>1, <2>3, NoNewClaims DEF Claims, AtStep, Spent
<1>2. ASSUME NEW e \in OneTime, Expire(e) PROVE OneClaim'
  <2>1. UNCHANGED <<minted, serving, shared>> /\ \A d \in OneTime : Usable(d)' => Usable(d)
    BY <1>0, <1>2 DEF Expire, EnrollmentTypeOK, Usable, OneTimeRow
  <2> QED
    BY <2>1, NoNewClaims DEF Claims, AtStep, Spent
<1>3. ASSUME NEW h \in Host, Purge(h) PROVE OneClaim'
  <2>1. UNCHANGED <<minted, serving, shared>> /\ \A d \in OneTime : Usable(d)' => Usable(d)
    BY <1>0, <1>3 DEF Purge, Erased, EnrollmentTypeOK, Usable
  <2> QED
    BY <2>1, NoNewClaims DEF Claims, AtStep, Spent
<1>4. ASSUME NEW q \in Ask, ConsumeRead(q) PROVE OneClaim'
  <2> DEFINE e == serving[q].key
  <2>1. serving[q] # Absent /\ serving[q].step = "read" /\ e \in OneTime
    BY <1>0, <1>4, ReadMoves DEF Moved
  <2>2. UNCHANGED <<onetime, minted>> /\ shared \subseteq shared'
    BY <1>4 DEF ConsumeRead
  <2>3. CASE ~Usable(e)
    <3>1. Moved(q, "done", Absent)
      BY <1>0, <1>4, <2>3, ReadMoves
    <3> QED
      BY <2>2, <3>1, NoNewClaims DEF Moved, Claims, AtStep, Spent, Usable
  <2>4. CASE Usable(e)
    <3>1. Moved(q, "mark", serving[q].token)
      BY <1>0, <1>4, <2>4, ReadMoves
    <3>2. shared' = IF \E p \in Ask : AtStep(p, "mark") /\ serving[p].key = e
                    THEN shared \union {e} ELSE shared
      BY <1>4, <2>4 DEF ConsumeRead
    <3>3. e \notin shared' => ~Spent(e) /\ \A p \in Ask : ~Claims(p, e)
      BY <1>0, <2>1, <2>4, <3>2 DEF OneClaim, Claims, Spent, AtStep
    <3>4. \A p \in Ask, d \in OneTime : Claims(p, d)' => Claims(p, d) \/ (p = q /\ d = e)
      BY <3>1 DEF Moved, Claims
    <3>5. \A d \in OneTime : Spent(d)' => Spent(d)
      BY <2>2, <3>1 DEF Moved, Spent, AtStep
    <3>6. \A d \in OneTime : Usable(d)' <=> Usable(d)
      BY <2>2 DEF Usable
    <3>7. ~Spent(e) => \A t \in Bearer : minted[t] # Absent => minted[t].key # e
      BY DEF Spent
    <3> QED
      BY <1>0, <2>2, <3>3, <3>4, <3>5, <3>6, <3>7 DEF OneClaim
  <2> QED
    BY <2>3, <2>4
<1>5. ASSUME NEW q \in Ask, ConsumeMark(q) PROVE OneClaim'
  <2> DEFINE e == serving[q].key
  <2>1. serving[q] # Absent /\ serving[q].step = "mark" /\ Moved(q, "store", serving[q].token)
        /\ e \in OneTime
    BY <1>0, <1>5, MarkMoves DEF Moved
  <2>2. onetime' = (IF onetime[e] = Absent THEN onetime ELSE [onetime EXCEPT ![e].used = TRUE])
        /\ UNCHANGED <<minted, shared>>
    BY <1>5 DEF ConsumeMark
  <2>3. ~Usable(e)' /\ \A d \in OneTime : Usable(d)' => Usable(d)
    <3>0. serving'[q].key = e
      BY <2>1 DEF Moved
    <3>1. CASE onetime[e] = Absent
      BY <2>2, <3>0, <3>1 DEF Usable
    <3>2. CASE onetime[e] # Absent
      <4>1. onetime[e] \in OneTimeRow
        BY <1>0, <2>1, <3>2 DEF EnrollmentTypeOK
      <4>2. onetime' = [onetime EXCEPT ![e] = [onetime[e] EXCEPT !.used = TRUE]]
        BY <2>2, <3>2
      <4> DEFINE row == [onetime[e] EXCEPT !.used = TRUE]
      <4>3. row.used = TRUE
        BY <4>1 DEF OneTimeRow
      <4> HIDE DEF row
      <4>4. onetime'[e] = row /\ \A d \in OneTime \ {e} : onetime'[d] = onetime[d]
        BY <1>0, <2>1, <4>2 DEF EnrollmentTypeOK, row
      <4> QED
        BY <3>0, <4>3, <4>4 DEF Usable
    <3> QED
      BY <3>1, <3>2
  <2>4. \A p \in Ask, d \in OneTime : Claims(p, d)' => Claims(p, d)
    BY <2>1 DEF Moved, Claims
  <2>5. \A p \in Ask, d \in OneTime : AtStep(p, "store")' /\ serving'[p].key = d => Spent(d) \/ ~Usable(d)'
    BY <2>1, <2>3 DEF Moved, AtStep, Spent
  <2> QED
    BY <2>2, <2>3, <2>4, <2>5, NoNewClaims
<1>6. ASSUME NEW q \in Ask, StatementFails(q) PROVE OneClaim'
  <2>1. Moved(q, "done", Absent) /\ UNCHANGED <<onetime, minted, shared>>
    BY <1>0, <1>6, FailMoves DEF StatementFails
  <2> QED
    BY <2>1, NoNewClaims DEF Moved, Claims, AtStep, Spent, Usable
<1>7. ASSUME NEW q \in Ask, NEW t \in Bearer, Store(q, t) PROVE OneClaim'
  <2> DEFINE e == serving[q].key
  <2>1. /\ serving[q] # Absent /\ serving[q].step = "store" /\ Moved(q, "done", t) /\ e \in OneTime
    BY <1>0, <1>7, StoreMoves DEF Moved
  <2>2. /\ UNCHANGED <<onetime, shared>> /\ minted[t] = Absent
        /\ minted' = [minted EXCEPT ![t] = [key |-> e, host |-> serving[q].host]]
    BY <1>7 DEF Store
  <2>3. minted'[t].key = e /\ \A s \in Bearer \ {t} : minted'[s] = minted[s]
    BY <1>0, <2>2 DEF EnrollmentTypeOK
  <2>4. Claims(q, e) /\ \A d \in OneTime : d # e => ~Claims(q, d)
    BY <2>1 DEF Claims
  <2>5. \A p \in Ask, d \in OneTime : Claims(p, d)' => p # q /\ Claims(p, d)
    BY <2>1 DEF Moved, Claims
  <2>6. Spent(e) /\ \A d \in OneTime : Spent(d)' => Spent(d)
    BY <2>1, <2>3 DEF Moved, Spent, AtStep
  <2>7. \A d \in OneTime : Usable(d)' <=> Usable(d)
    BY <2>2 DEF Usable
  <2>8. ASSUME NEW d \in OneTime \ shared'
        PROVE  /\ \A p, r \in Ask : Claims(p, d)' /\ Claims(r, d)' => p = r
               /\ \A p \in Ask, s \in Bearer : Claims(p, d)' /\ minted'[s] # Absent => minted'[s].key # d
               /\ \A r, s \in Bearer :
                    minted'[r] # Absent /\ minted'[s] # Absent /\ minted'[r].key = d /\ minted'[s].key = d
                      => r = s
               /\ Spent(d)' => ~Usable(d)'
    BY <1>0, <2>1, <2>2, <2>3, <2>4, <2>5, <2>6, <2>7 DEF OneClaim
  <2> QED
    BY <2>8 DEF OneClaim
<1>8. CASE AgentStep
  <2>1. UNCHANGED <<onetime, minted, shared>>
    BY <1>0, <1>8, AgentSteps
  <2>2. \A q \in Ask : serving'[q] # Absent /\ serving'[q].step # "read" => serving'[q] = serving[q]
    <3>1. ASSUME NEW g \in Agent, NEW q \in Ask, Enroll(g, q)
          PROVE  \A p \in Ask : serving'[p] # Absent /\ serving'[p].step # "read" => serving'[p] = serving[p]
      BY <1>0, <3>1, EnrollSteps
    <3> QED
      BY <1>8, <3>1 DEF AgentStep, ResolveToken, Resume, LoseAnswer, SaveToken, StopAgent
  <2> QED
    BY <2>1, <2>2, NoNewClaims DEF Claims, AtStep, Spent, Usable
<1>9. ASSUME NEW q \in Ask, Receive(q) PROVE OneClaim'
  <2>1. UNCHANGED <<onetime, minted, shared>>
        /\ \A p \in Ask : serving'[p] # Absent => serving'[p] = serving[p]
    BY <1>0, <1>9, ReceiveSteps
  <2> QED
    BY <2>1, NoNewClaims DEF Claims, AtStep, Spent, Usable
<1>10. CASE UNCHANGED enrollmentVars
  BY <1>0, <1>10 DEF enrollmentVars, OneClaim, Claims, AtStep, Spent, Usable
<1> QED
  BY <1>1, <1>2, <1>3, <1>4, <1>5, <1>6, <1>7, <1>8, <1>9, <1>10 DEF EnrollmentNext, AgentStep

LEMMA TokensStay == EnrollmentInv /\ [EnrollmentNext]_enrollmentVars => TokensOfHosts'
<1> SUFFICES ASSUME EnrollmentInv, [EnrollmentNext]_enrollmentVars PROVE TokensOfHosts'
  OBVIOUS
<1>0. EnrollmentTypeOK /\ TokensOfHosts
  BY DEF EnrollmentInv
<1> DEFINE RowsOfHosts ==
             \A t \in Bearer :
               /\ bearer[t] # Absent => bearer[t] \in hosts /\ minted[t] # Absent /\ minted[t].host = bearer[t]
               /\ minted[t] # Absent /\ bearer[t] = Absent => minted[t].host \notin hosts
           HeldMade ==
             \A g \in Agent, t \in Bearer : t \in {agents[g].held, agents[g].file} => minted[t] # Absent
           SentMade ==
             \A q \in Ask, t \in Bearer : serving[q] # Absent /\ serving[q].token = t => minted[t] # Absent
<1>a. RowsOfHosts /\ HeldMade /\ SentMade
  BY <1>0 DEF TokensOfHosts
<1>b. RowsOfHosts' /\ HeldMade' /\ SentMade' => TokensOfHosts'
  BY DEF TokensOfHosts
<1>1. ASSUME NEW e \in OneTime, NEW h \in Host, NEW g \in Agent, CreateOneTime(e, h, g)
      PROVE  TokensOfHosts'
  <2>1. \A k \in Agent : agents'[k].held = agents[k].held /\ agents'[k].file = agents[k].file
    BY <1>0, <1>1 DEF CreateOneTime, EnrollmentTypeOK, AgentState
  <2> QED
    BY <1>1, <1>a, <1>b, <2>1 DEF CreateOneTime
<1>2. ASSUME NEW h \in Host, Purge(h) PROVE TokensOfHosts'
  <2>1. UNCHANGED <<minted, agents, serving>> /\ hosts' = hosts \ {h}
        /\ bearer' = [t \in Bearer |-> IF bearer[t] = h THEN Absent ELSE bearer[t]]
    BY <1>2 DEF Purge, Erased
  <2>2. RowsOfHosts'
    BY <1>a, <2>1, NoRecordIsAbsent
  <2> QED
    BY <1>a, <1>b, <2>1, <2>2
<1>3. ASSUME NEW q \in Ask, ConsumeRead(q) \/ ConsumeMark(q) \/ StatementFails(q)
      PROVE  TokensOfHosts'
  <2>1. UNCHANGED <<hosts, bearer, minted, agents>>
    BY <1>3 DEF ConsumeRead, ConsumeMark, StatementFails
  <2>2. \A p \in Ask : serving'[p] # Absent /\ serving'[p].token # Absent =>
          serving[p] # Absent /\ serving'[p].token = serving[p].token
    BY <1>0, <1>3, ReadMoves, MarkMoves, FailMoves DEF Moved
  <2> QED
    BY <1>a, <1>b, <2>1, <2>2, NoRecordIsAbsent
<1>4. ASSUME NEW q \in Ask, NEW t \in Bearer, Store(q, t) PROVE TokensOfHosts'
  <2>1. Moved(q, "done", t)
    BY <1>0, <1>4, StoreMoves
  <2> DEFINE m == [key |-> serving[q].key, host |-> serving[q].host]
  <2>2. /\ UNCHANGED <<hosts, agents>> /\ serving[q].host \in hosts
        /\ bearer' = [bearer EXCEPT ![t] = serving[q].host] /\ minted' = [minted EXCEPT ![t] = m]
    BY <1>4 DEF Store
  <2>3. m \in Minted /\ m.host = serving[q].host
    BY <1>0, <2>1, <2>2 DEF Moved, Minted, EnrollmentTypeOK
  <2> HIDE DEF m
  <2>4. /\ minted'[t] # Absent /\ minted'[t].host = serving[q].host /\ bearer'[t] = serving[q].host
        /\ \A s \in Bearer \ {t} : minted'[s] = minted[s] /\ bearer'[s] = bearer[s]
    BY <1>0, <2>2, <2>3, NoRecordIsAbsent DEF EnrollmentTypeOK
  <2>5. RowsOfHosts'
    BY <1>0, <1>a, <2>2, <2>4, NoRecordIsAbsent DEF EnrollmentTypeOK
  <2>6. HeldMade'
    BY <1>a, <2>2, <2>4
  <2>7. SentMade'
    BY <1>a, <2>1, <2>4 DEF Moved
  <2> QED
    BY <1>b, <2>5, <2>6, <2>7
<1>5. CASE AgentStep
  <2>1. UNCHANGED <<hosts, bearer, minted>>
    BY <1>0, <1>5, AgentSteps
  <2>2. \A q \in Ask, t \in Bearer : serving'[q] # Absent /\ serving'[q].token = t => minted[t] # Absent
    <3>1. ASSUME NEW g \in Agent, NEW q \in Ask, Enroll(g, q)
          PROVE  \A p \in Ask, t \in Bearer : serving'[p] # Absent /\ serving'[p].token = t => minted[t] # Absent
      BY <1>0, <1>a, <3>1, EnrollSteps, NoRecordIsAbsent
    <3> QED
      BY <1>5, <1>a, <3>1 DEF AgentStep, ResolveToken, Resume, LoseAnswer, SaveToken, StopAgent
  <2>3. ASSUME NEW k \in Agent, NEW t \in Bearer, t \in {agents'[k].held, agents'[k].file}
        PROVE  t \in {agents[k].held, agents[k].file}
    <3>a. agents \in [Agent -> AgentState]
      BY <1>0 DEF EnrollmentTypeOK
    <3>1. ASSUME NEW g \in Agent, NEW q \in Ask, Enroll(g, q) PROVE t \in {agents[k].held, agents[k].file}
      BY <1>0, <2>3, <3>1, EnrollSteps
    <3>2. ASSUME NEW g \in Agent, Resume(g) PROVE t \in {agents[k].held, agents[k].file}
      BY <2>3, <3>2, <3>a DEF Resume, AgentState
    <3>3. ASSUME NEW g \in Agent, LoseAnswer(g) \/ SaveToken(g) \/ StopAgent(g)
          PROVE  t \in {agents[k].held, agents[k].file}
      BY <2>3, <3>3, <3>a, NoRecordIsAbsent DEF LoseAnswer, SaveToken, StopAgent, AgentState
    <3> QED
      BY <1>5, <3>1, <3>2, <3>3 DEF AgentStep, ResolveToken
  <2> QED
    BY <1>a, <1>b, <2>1, <2>2, <2>3
<1>6. ASSUME NEW q \in Ask, Receive(q) PROVE TokensOfHosts'
  <2>1. /\ UNCHANGED <<hosts, bearer, minted>> /\ serving[q] # Absent
        /\ \A p \in Ask : serving'[p] # Absent => serving'[p] = serving[p]
        /\ \A g \in Agent : \/ agents'[g] = agents[g]
                            \/ agents'[g].held = serving[q].token /\ agents'[g].file = agents[g].file
    BY <1>0, <1>6, ReceiveSteps
  <2> QED
    BY <1>a, <1>b, <2>1
<1>7. CASE UNCHANGED <<hosts, bearer, minted, agents, serving>>
  BY <1>a, <1>b, <1>7
<1> QED
  BY <1>1, <1>2, <1>3, <1>4, <1>5, <1>6, <1>7 DEF EnrollmentNext, AgentStep, Expire, enrollmentVars

LEMMA AskersStay == EnrollmentInv /\ [EnrollmentNext]_enrollmentVars => OneAsker'
<1> SUFFICES ASSUME EnrollmentInv, [EnrollmentNext]_enrollmentVars PROVE OneAsker'
  OBVIOUS
<1>0. EnrollmentTypeOK /\ KeysIssued /\ OneAsker
  BY DEF EnrollmentInv
<1>a. agents \in [Agent -> AgentState]
  BY <1>0 DEF EnrollmentTypeOK
<1> DEFINE Waits(g) == LET q == agents[g].asked IN
             agents[g].phase = "enrolling" /\ serving[q] # Absent /\ serving[q].key = agents[g].given
           Different == \A g, k \in Agent :
             g # k /\ agents[g].given = agents[k].given => agents[g].given = Absent
<1>b. Different /\ \A g \in Agent : agents[g].asked # Absent => Waits(g)
  BY <1>0 DEF OneAsker
<1>c. Different' /\ (\A g \in Agent : agents'[g].asked # Absent => Waits(g)') => OneAsker'
  BY DEF OneAsker
<1>1. ASSUME NEW e \in OneTime, NEW h \in Host, NEW g \in Agent, CreateOneTime(e, h, g)
      PROVE  OneAsker'
  <2>1. /\ agents[g].phase \in {"stopped", "refused"} /\ e \notin issued /\ serving' = serving
        /\ agents' = [agents EXCEPT ![g].given = e, ![g].phase = "stopped"]
    BY <1>1 DEF CreateOneTime
  <2>2. /\ agents'[g].given = e /\ agents'[g].asked = agents[g].asked
        /\ \A k \in Agent \ {g} : agents'[k] = agents[k]
    BY <1>a, <2>1 DEF AgentState
  <2>3. agents[g].asked = Absent
    BY <1>b, <2>1
  <2>4. \A k \in Agent : agents[k].given # e
    BY <1>0, <2>1, NoRecordIsAbsent DEF KeysIssued
  <2> QED
    <3>1. Different'
      BY <1>b, <2>2, <2>4
    <3>2. \A k \in Agent : agents'[k].asked # Absent => Waits(k)'
      BY <1>b, <2>1, <2>2, <2>3
    <3> QED
      BY <1>c, <3>1, <3>2
<1>2. CASE HandlerStep
  <2>1. agents' = agents
    BY <1>2 DEF HandlerStep, ConsumeRead, ConsumeMark, StatementFails, Store
  <2>2. \A q \in Ask : serving[q] # Absent => serving'[q] # Absent /\ serving'[q].key = serving[q].key
    BY <1>0, <1>2, ReadMoves, MarkMoves, FailMoves, StoreMoves DEF HandlerStep, Moved
  <2>3. \A g \in Agent : agents[g].asked # Absent => agents[g].asked \in Ask
    BY <1>a DEF AgentState
  <2> QED
    BY <1>b, <1>c, <2>1, <2>2, <2>3
<1>3. ASSUME NEW g \in Agent, NEW q \in Ask, Enroll(g, q) PROVE OneAsker'
  <2>1. \A k \in Agent : agents[k].asked # Absent => agents[k].asked \in Ask \ {q}
    BY <1>0, <1>a, <1>b, <1>3, EnrollSteps DEF AgentState
  <2>2. \A k \in Agent : agents'[k].given = agents[k].given
    BY <1>0, <1>3, EnrollSteps
  <2>3. \A k \in Agent : agents'[k].asked # Absent => Waits(k)'
    BY <1>0, <1>b, <1>3, <2>1, EnrollSteps
  <2> QED
    BY <1>b, <1>c, <2>2, <2>3
<1>4. ASSUME NEW g \in Agent, serving' = serving,
             \/ Resume(g) /\ agents[g].phase \in {"stopped", "refused"}
             \/ LoseAnswer(g) \/ SaveToken(g) \/ StopAgent(g)
      PROVE  OneAsker'
  <2>1. /\ agents'[g].given = agents[g].given
        /\ agents'[g].asked # Absent =>
             agents'[g].asked = agents[g].asked /\ agents[g].phase # "enrolling"
        /\ \A k \in Agent \ {g} : agents'[k] = agents[k]
    BY <1>a, <1>4 DEF Resume, LoseAnswer, SaveToken, StopAgent, AgentState
  <2> QED
    BY <1>b, <1>c, <1>4, <2>1
<1>5. ASSUME NEW q \in Ask, Receive(q) PROVE OneAsker'
  <2>1. \A g \in Agent : agents'[g].given = agents[g].given
    BY <1>0, <1>5, ReceiveSteps
  <2>2. \A g \in Agent : agents'[g].asked # Absent =>
          agents'[g] = agents[g] /\ agents[g].asked # q /\ agents[g].asked \in Ask
    BY <1>0, <1>a, <1>5, ReceiveSteps DEF AgentState
  <2>3. \A p \in Ask \ {q} : serving'[p] = serving[p]
    BY <1>0, <1>5, ReceiveSteps
  <2> QED
    BY <1>b, <1>c, <2>1, <2>2, <2>3
<1>6. CASE UNCHANGED <<agents, serving>>
  BY <1>b, <1>c, <1>6
<1>7. CASE AgentStep
  <2>1. ASSUME NEW g \in Agent, NEW q \in Ask, ResolveToken(g, q) PROVE OneAsker'
    <3>1. Resume(g) => serving' = serving
      BY DEF Resume
    <3> QED
      BY <1>3, <1>4, <2>1, <3>1 DEF ResolveToken
  <2>2. ASSUME NEW g \in Agent, LoseAnswer(g) \/ SaveToken(g) \/ StopAgent(g) PROVE OneAsker'
    <3>1. serving' = serving
      BY <2>2 DEF LoseAnswer, SaveToken, StopAgent
    <3> QED
      BY <1>4, <2>2, <3>1
  <2> QED
    BY <1>7, <2>1, <2>2 DEF AgentStep
<1>8. CASE \/ \E e \in OneTime : Expire(e)
           \/ \E h \in Host : Purge(h)
           \/ UNCHANGED enrollmentVars
  BY <1>6, <1>8 DEF Expire, Purge, enrollmentVars
<1> QED
  BY <1>1, <1>2, <1>5, <1>7, <1>8 DEF EnrollmentNext, HandlerStep, AgentStep

\* What HasAWay(k) needs when k itself stands still.
LEMMA WayKept ==
  ASSUME EnrollmentTypeOK, NEW k \in Agent, HasAWay(k), agents'[k] = agents[k],
         agents[k].given # Absent => (Usable(agents[k].given) => Usable(agents[k].given)'),
         \A q \in Ask : serving'[q] # Absent /\ serving'[q].key = agents[k].given =>
           serving'[q] = serving[q]
  PROVE  HasAWay(k)'
<1>1. ASSUME NEW q \in Ask, serving[q] # Absent PROVE serving[q].key # Absent
  BY <1>1, NoRecordIsAbsent DEF EnrollmentTypeOK, Handler
<1> QED
  BY <1>1 DEF HasAWay

LEMMA WaysStay ==
  EnrollmentInv /\ [EnrollmentNext]_enrollmentVars => \A k \in Agent \ excused' : HasAWay(k)'
<1> SUFFICES ASSUME EnrollmentInv, [EnrollmentNext]_enrollmentVars, NEW k \in Agent \ excused'
             PROVE  HasAWay(k)'
  OBVIOUS
<1>0. EnrollmentTypeOK /\ KeysIssued /\ OneAsker /\ (k \notin excused => HasAWay(k))
  BY DEF EnrollmentInv
<1>a. agents \in [Agent -> AgentState] /\ serving \in [Ask -> Handler \union {Absent}]
  BY <1>0 DEF EnrollmentTypeOK
<1>b. \A q \in Ask : serving[q] # Absent => serving[q].key \in OneTime
  BY <1>a DEF Handler
<1>c. agents[k].given \in OneTime \union {Absent} /\ agents[k].asked \in Ask \union {Absent}
  BY <1>a DEF AgentState
<1>1. ASSUME NEW e \in OneTime, NEW h \in Host, NEW g \in Agent, CreateOneTime(e, h, g)
      PROVE  HasAWay(k)'
  <2>1. /\ serving' = serving /\ e \notin issued /\ excused' = excused \ {g}
        /\ agents[g].phase \in {"stopped", "refused"} /\ agents[g].file = Absent
        /\ agents' = [agents EXCEPT ![g].given = e, ![g].phase = "stopped"]
        /\ onetime' = [onetime EXCEPT ![e] = [host |-> h, used |-> FALSE, expired |-> FALSE]]
    BY <1>1 DEF CreateOneTime
  <2>2. [host |-> h, used |-> FALSE, expired |-> FALSE] # Absent
    <3>1. [host |-> h, used |-> FALSE, expired |-> FALSE] \in OneTimeRow
      BY DEF OneTimeRow
    <3> QED
      BY <3>1, NoRecordIsAbsent
  <2>3. onetime'[e] = [host |-> h, used |-> FALSE, expired |-> FALSE]
        /\ \A d \in OneTime \ {e} : onetime'[d] = onetime[d]
    BY <1>0, <2>1 DEF EnrollmentTypeOK
  <2>4. \A d \in OneTime \ {e} : Usable(d)' <=> Usable(d)
    BY <2>3 DEF Usable
  <2>5. \A q \in Ask : serving[q] # Absent => serving[q].key # e
    BY <1>0, <2>1 DEF KeysIssued
  <2>6. CASE k = g
    <3>1. agents'[k].phase = "stopped" /\ agents'[k].given = e
      BY <1>a, <2>1, <2>6 DEF AgentState
    <3>2. Usable(e)'
      BY <2>2, <2>3 DEF Usable
    <3> QED
      BY <2>1, <2>5, <3>1, <3>2 DEF HasAWay
  <2>7. CASE k # g
    <3>1. agents'[k] = agents[k] /\ k \notin excused /\ agents[k].given # e
      BY <1>0, <1>a, <2>1, <2>7, NoRecordIsAbsent DEF KeysIssued
    <3> QED
      BY <1>0, <1>c, <2>1, <2>4, <3>1, WayKept
  <2> QED
    BY <2>6, <2>7
<1>2. ASSUME NEW e \in OneTime, Expire(e) PROVE HasAWay(k)'
  <2>1. /\ UNCHANGED <<agents, serving>> /\ k \notin excused /\ agents[k].given # e
        /\ onetime' = [onetime EXCEPT ![e].expired = TRUE]
    BY <1>2 DEF Expire, FaultOf
  <2>2. \A d \in OneTime \ {e} : onetime'[d] = onetime[d]
    BY <1>0, <2>1 DEF EnrollmentTypeOK
  <2>3. agents[k].given # Absent => (Usable(agents[k].given) => Usable(agents[k].given)')
    BY <1>c, <2>1, <2>2 DEF Usable
  <2> QED
    BY <1>0, <2>1, <2>3, WayKept
<1>3. ASSUME NEW h \in Host, Purge(h) PROVE HasAWay(k)'
  <2>1. /\ UNCHANGED <<agents, serving>> /\ k \notin excused /\ agents[k].given \notin Issued(h)
        /\ onetime' = [e \in OneTime |->
             IF onetime[e] # Absent /\ onetime[e].host = h THEN Absent ELSE onetime[e]]
    BY <1>3 DEF Purge, Erased
  <2>2. agents[k].given # Absent => onetime'[agents[k].given] = onetime[agents[k].given]
    BY <1>c, <2>1 DEF Issued
  <2>3. agents[k].given # Absent => (Usable(agents[k].given) => Usable(agents[k].given)')
    BY <2>1, <2>2 DEF Usable
  <2> QED
    BY <1>0, <2>1, <2>3, WayKept
<1>4. ASSUME NEW q \in Ask, ConsumeRead(q) PROVE HasAWay(k)'
  <2>1. /\ UNCHANGED <<agents, onetime, excused>> /\ k \notin excused
    BY <1>4 DEF ConsumeRead
  <2>2. \A d \in OneTime : Usable(d)' <=> Usable(d)
    BY <2>1 DEF Usable
  <2>3. serving[q] # Absent /\ serving[q].step = "read"
        /\ IF Usable(serving[q].key) THEN Moved(q, "mark", serving[q].token) ELSE Moved(q, "done", Absent)
    BY <1>0, <1>4, ReadMoves
  <2>4. CASE serving[q].key = agents[k].given
    <3>1. Usable(serving[q].key) /\ agents[k].asked = q
      BY <1>0, <2>1, <2>3, <2>4 DEF HasAWay
    <3>2. Moved(q, "mark", serving[q].token)
      BY <2>3, <3>1
    <3>3. \A p \in Ask : p # q => serving'[p] = serving[p]
      BY <3>2 DEF Moved
    <3> QED
      BY <1>0, <1>b, <2>1, <2>2, <2>4, <3>1, <3>2, <3>3 DEF HasAWay, Moved
  <2>5. CASE serving[q].key # agents[k].given
    <3>1. serving'[q].key = serving[q].key /\ \A p \in Ask \ {q} : serving'[p] = serving[p]
      BY <2>3 DEF Moved
    <3> QED
      BY <1>0, <1>c, <2>1, <2>2, <2>5, <3>1, WayKept
  <2> QED
    BY <2>4, <2>5
<1>5. ASSUME NEW q \in Ask, ConsumeMark(q) PROVE HasAWay(k)'
  <2>1. /\ UNCHANGED <<agents, excused>> /\ k \notin excused
        /\ onetime' = IF onetime[serving[q].key] = Absent THEN onetime
                      ELSE [onetime EXCEPT ![serving[q].key].used = TRUE]
    BY <1>5 DEF ConsumeMark
  <2>2. serving[q] # Absent /\ serving[q].step = "mark" /\ Moved(q, "store", serving[q].token)
    BY <1>0, <1>5, MarkMoves
  <2>3. \A d \in OneTime : d # serving[q].key => (Usable(d)' <=> Usable(d))
    BY <1>0, <1>b, <2>1, <2>2 DEF Usable, EnrollmentTypeOK
  <2>4. CASE serving[q].key = agents[k].given
    <3>1. agents[k].asked = q /\ agents[k].phase = "enrolling"
      BY <1>0, <2>1, <2>2, <2>4, NoRecordIsAbsent DEF HasAWay, OneAsker
    <3>2. \A p \in Ask : serving'[p] # Absent /\ serving'[p].key = agents[k].given => p = q
      BY <1>0, <2>1, <2>2, <2>4, <3>1 DEF HasAWay, Moved
    <3> QED
      BY <2>1, <2>2, <3>1, <3>2 DEF HasAWay, Moved
  <2>5. CASE serving[q].key # agents[k].given
    <3>1. serving'[q].key = serving[q].key /\ \A p \in Ask \ {q} : serving'[p] = serving[p]
      BY <2>2 DEF Moved
    <3> QED
      BY <1>0, <1>c, <2>1, <2>3, <2>5, <3>1, WayKept
  <2> QED
    BY <2>4, <2>5
<1>6. ASSUME NEW q \in Ask, StatementFails(q) PROVE HasAWay(k)'
  <2>1. UNCHANGED <<agents, onetime>> /\ k \notin excused /\ agents[k].given # serving[q].key
    BY <1>6 DEF StatementFails, FaultOf
  <2>2. Moved(q, "done", Absent)
    BY <1>0, <1>6, FailMoves
  <2>3. serving'[q].key = serving[q].key /\ \A p \in Ask \ {q} : serving'[p] = serving[p]
    BY <2>2 DEF Moved
  <2>4. \A d \in OneTime : Usable(d)' <=> Usable(d)
    BY <2>1 DEF Usable
  <2> QED
    BY <1>0, <1>c, <2>1, <2>3, <2>4, WayKept
<1>7. ASSUME NEW q \in Ask, NEW t \in Bearer, Store(q, t) PROVE HasAWay(k)'
  <2>1. UNCHANGED <<agents, onetime, excused>> /\ k \notin excused
    BY <1>7 DEF Store
  <2>2. serving[q] # Absent /\ serving[q].step = "store" /\ Moved(q, "done", t)
    BY <1>0, <1>7, StoreMoves
  <2>3. \A d \in OneTime : Usable(d)' <=> Usable(d)
    BY <2>1 DEF Usable
  <2>4. serving'[q].key = serving[q].key /\ serving'[q].step = "done" /\ serving'[q].token # Absent
        /\ \A p \in Ask \ {q} : serving'[p] = serving[p]
    BY <2>2, NoRecordIsAbsent DEF Moved
  <2>5. ASSUME NEW p \in Ask, serving'[p] # Absent, serving'[p].key = agents[k].given
        PROVE  /\ agents[k].asked = p /\ agents[k].given \in OneTime
               /\ serving'[p].step = "read" => Usable(agents[k].given)
               /\ serving'[p].step = "done" => serving'[p].token # Absent
    BY <1>0, <1>b, <2>1, <2>2, <2>4, <2>5 DEF HasAWay
  <2> QED
    BY <1>0, <1>b, <1>c, <2>1, <2>3, <2>5 DEF HasAWay
<1>8. ASSUME NEW g \in Agent, NEW q \in Ask, ResolveToken(g, q) PROVE HasAWay(k)'
  <2>1. UNCHANGED <<onetime, excused>> /\ k \notin excused /\ agents[g].phase \in {"stopped", "refused"}
    BY <1>8 DEF ResolveToken
  <2>2. \A d \in OneTime : Usable(d)' <=> Usable(d)
    BY <2>1 DEF Usable
  <2>3. CASE Resume(g)
    <3>1. /\ serving' = serving /\ agents[g].file # Absent
          /\ agents' = [agents EXCEPT ![g].phase = "running", ![g].held = agents[g].file]
      BY <2>3 DEF Resume
    <3>2. CASE k = g
      <4>1. /\ agents'[k].phase = "running" /\ agents'[k].file = agents[k].file
            /\ agents'[k].given = agents[k].given /\ agents'[k].asked = agents[k].asked
        BY <1>a, <3>1, <3>2 DEF AgentState
      <4> QED
        BY <1>0, <1>b, <1>c, <2>1, <2>2, <3>1, <3>2, <4>1 DEF HasAWay
    <3>3. CASE k # g
      <4>1. agents'[k] = agents[k]
        BY <1>a, <3>1, <3>3
      <4> QED
        BY <1>0, <1>c, <2>1, <2>2, <3>1, <4>1, WayKept
    <3> QED
      BY <3>2, <3>3
  <2>4. CASE Enroll(g, q) /\ ~(agents[g].file # Absent)
    <3>1. /\ agents[g].given \in OneTime /\ serving[q] = Absent
          /\ serving'[q] # Absent /\ serving'[q].key = agents[g].given
          /\ serving'[q].step = "read" /\ \A p \in Ask \ {q} : serving'[p] = serving[p]
          /\ agents'[g].phase = "enrolling" /\ agents'[g].asked = q
          /\ agents'[g].given = agents[g].given
          /\ \A j \in Agent \ {g} : agents'[j] = agents[j]
      BY <1>0, <2>4, EnrollSteps
    <3>2. CASE k = g
      <4>1. Usable(agents[k].given)
        BY <1>0, <2>1, <2>4, <3>1, <3>2, NoRecordIsAbsent DEF HasAWay
      <4>2. agents[k].asked = Absent
        BY <1>0, <2>1, <3>2 DEF OneAsker
      <4>3. \A p \in Ask : serving[p] # Absent => serving[p].key # agents[k].given
        BY <1>0, <2>1, <4>2, NoRecordIsAbsent DEF HasAWay
      <4> QED
        BY <2>2, <3>1, <3>2, <4>1, <4>3 DEF HasAWay
    <3>3. CASE k # g
      <4>1. agents[k].given # agents[g].given
        BY <1>0, <3>1, <3>3, NoRecordIsAbsent DEF OneAsker
      <4> QED
        BY <1>0, <1>c, <2>1, <2>2, <3>1, <3>3, <4>1, WayKept
    <3> QED
      BY <3>2, <3>3
  <2> QED
    BY <1>8, <2>3, <2>4 DEF ResolveToken
<1>9. ASSUME NEW q \in Ask, Receive(q) PROVE HasAWay(k)'
  <2>1. /\ UNCHANGED <<onetime, excused>> /\ k \notin excused
        /\ serving[q] # Absent /\ serving[q].step = "done" /\ serving'[q] = Absent
        /\ \A p \in Ask \ {q} : serving'[p] = serving[p]
    BY <1>0, <1>9, ReceiveSteps
  <2>2. \A d \in OneTime : Usable(d)' <=> Usable(d)
    BY <2>1 DEF Usable
  <2>3. CASE agents[k].asked = q
    <3>1. serving[q].key = agents[k].given
      BY <1>0, <2>3, NoRecordIsAbsent DEF OneAsker
    <3>2. serving[q].token # Absent
      BY <1>0, <2>1, <3>1 DEF HasAWay
    <3>3. /\ agents'[k].given = agents[k].given /\ agents'[k].held = serving[q].token
          /\ agents'[k].phase = "saving"
      BY <1>0, <1>9, <2>3, <3>2, ReceiveSteps
    <3>4. \A p \in Ask : serving'[p] # Absent => serving'[p].key # agents[k].given
      BY <1>0, <2>1, <2>3 DEF HasAWay
    <3> QED
      BY <3>2, <3>3, <3>4 DEF HasAWay
  <2>4. CASE agents[k].asked # q
    <3>1. agents'[k] = agents[k]
      BY <1>0, <1>9, <2>4, ReceiveSteps
    <3> QED
      BY <1>0, <1>c, <2>1, <2>2, <3>1, WayKept
  <2> QED
    BY <2>3, <2>4
<1>10. ASSUME NEW g \in Agent, LoseAnswer(g) \/ SaveToken(g) \/ StopAgent(g) PROVE HasAWay(k)'
  <2>1. UNCHANGED <<onetime, serving>> /\ excused \subseteq excused' /\ k \notin excused
    BY <1>10 DEF LoseAnswer, SaveToken, StopAgent, Fault
  <2>2. \A d \in OneTime : Usable(d)' <=> Usable(d)
    BY <2>1 DEF Usable
  <2>3. CASE k # g
    <3>1. agents'[k] = agents[k]
      BY <1>10, <1>a, <2>3 DEF LoseAnswer, SaveToken, StopAgent
    <3> QED
      BY <1>0, <1>c, <2>1, <2>2, <3>1, WayKept
  <2>4. CASE k = g
    <3>1. ~LoseAnswer(g)
      BY <2>4 DEF LoseAnswer, Fault
    <3>2. CASE SaveToken(g)
      <4>1. agents[k].phase = "saving" /\ agents[k].held # Absent
        BY <1>0, <2>1, <2>4, <3>2 DEF SaveToken, HasAWay
      <4>2. agents' = [agents EXCEPT ![g].phase = "running", ![g].file = agents[g].held]
        BY <2>4, <3>2 DEF SaveToken, Fault
      <4>3. /\ agents'[k].phase = "running" /\ agents'[k].file = agents[k].held
            /\ agents'[k].given = agents[k].given /\ agents'[k].asked = agents[k].asked
        BY <1>a, <2>4, <4>2 DEF AgentState
      <4> QED
        BY <1>0, <1>b, <1>c, <2>1, <2>2, <4>1, <4>3 DEF HasAWay
    <3>3. CASE StopAgent(g)
      <4>1. agents[k].phase = "running"
        BY <2>4, <3>3 DEF StopAgent, Fault
      <4>2. agents[k].file # Absent /\ agents[k].asked = Absent
        BY <1>0, <2>1, <4>1 DEF HasAWay, OneAsker
      <4>3. /\ agents'[k].phase = "stopped" /\ agents'[k].file = agents[k].file
            /\ agents'[k].given = agents[k].given /\ agents'[k].asked = Absent
        BY <1>a, <2>4, <3>3 DEF StopAgent, AgentState
      <4> QED
        BY <1>0, <1>b, <1>c, <2>1, <2>2, <4>2, <4>3 DEF HasAWay
    <3> QED
      BY <1>10, <3>1, <3>2, <3>3
  <2> QED
    BY <2>3, <2>4
<1>11. CASE UNCHANGED enrollmentVars
  BY <1>0, <1>11 DEF enrollmentVars, HasAWay, Usable
<1> QED
  BY <1>1, <1>2, <1>3, <1>4, <1>5, <1>6, <1>7, <1>8, <1>9, <1>10, <1>11 DEF EnrollmentNext

LEMMA EnrollmentInductive == EnrollmentSpec => []EnrollmentInv
<1>1. EnrollmentInit => EnrollmentInv
  <2> SUFFICES ASSUME EnrollmentInit PROVE EnrollmentInv
    OBVIOUS
  <2>1. \A g \in Agent : /\ agents[g].phase = "stopped" /\ agents[g].given = Absent
                         /\ agents[g].held = Absent /\ agents[g].file = Absent
                         /\ agents[g].asked = Absent
    BY DEF EnrollmentInit
  <2>2. agents \in [Agent -> AgentState]
    BY DEF EnrollmentInit, AgentState
  <2>3. (\A q \in Ask : serving[q] = Absent) /\ (\A t \in Bearer : minted[t] = Absent /\ bearer[t] = Absent)
    BY DEF EnrollmentInit
  <2>4. EnrollmentTypeOK
    BY <2>2 DEF EnrollmentInit, EnrollmentTypeOK
  <2>5. KeysIssued /\ TokensOfHosts
    BY <2>1, <2>3, NoRecordIsAbsent DEF KeysIssued, TokensOfHosts
  <2>6. OneClaim
    BY <2>3 DEF OneClaim, Claims, Spent, AtStep
  <2>7. OneAsker /\ \A g \in Agent : HasAWay(g)
    BY <2>1, <2>3 DEF OneAsker, HasAWay
  <2> QED
    BY <2>4, <2>5, <2>6, <2>7 DEF EnrollmentInv
<1>2. EnrollmentInv /\ [EnrollmentNext]_enrollmentVars => EnrollmentInv'
  <2>1. EnrollmentInv /\ [EnrollmentNext]_enrollmentVars => EnrollmentTypeOK'
    BY EnrollmentTypesStay DEF EnrollmentInv
  <2> QED
    BY <2>1, KeysStay, ClaimsStay, TokensStay, AskersStay, WaysStay DEF EnrollmentInv
<1> QED
  BY <1>1, <1>2, PTL DEF EnrollmentSpec

\* Two agent tokens come from one one-time token only when two requests found it unused
\* (enrollment_store.go:54-84).
THEOREM OneTokenFromEach == EnrollmentSpec => []OneTokenEach
<1>1. EnrollmentInv => OneTokenEach
  <2> SUFFICES ASSUME EnrollmentInv, NEW s \in Bearer, NEW t \in Bearer, s # t,
                      minted[s] # Absent, minted[t] # Absent, minted[s].key = minted[t].key,
                      minted[s].key \notin shared
               PROVE  FALSE
    BY DEF OneTokenEach
  <2>1. minted[s].key \in OneTime
    BY DEF EnrollmentInv, EnrollmentTypeOK, Minted
  <2> QED
    BY <2>1 DEF EnrollmentInv, OneClaim
<1> QED
  BY <1>1, EnrollmentInductive, PTL

\* A token an agent has is known as long as its system exists, and no longer
\* (agent_token_store.go:51-64).
THEOREM TokensAreKnown == EnrollmentSpec => []HeldTokensAreKnown
<1>1. EnrollmentInv => HeldTokensAreKnown
  BY DEF EnrollmentInv, TokensOfHosts, HeldTokensAreKnown
<1> QED
  BY <1>1, EnrollmentInductive, PTL

\* An agent is left without a token and without a way to one only by a fault
\* (cmd/agent/main.go:354-388).
THEOREM OnlyFaultsRefuse == EnrollmentSpec => []RefusedOnlyByFault
<1>1. EnrollmentInv => RefusedOnlyByFault
  BY DEF EnrollmentInv, HasAWay, RefusedOnlyByFault
<1> QED
  BY <1>1, EnrollmentInductive, PTL

(***************************************************************************)
(* The accounts.                                                           *)
(***************************************************************************)

Admins == {u \in User : users[u] = "admin"}

\* A request past the guard of the last admin, which would remove one.
Guarded(q) ==
  \/ Serving(q, "delete") /\ calls[q].step \in {"revoke", "write"}
  \/ Serving(q, "role") /\ calls[q].step = "write" /\ calls[q].role # "admin"

\* What such a request knows is still so: an admin remains without the one it is about.
AdminRemains ==
  ~blindfold =>
    /\ Admins # {}
    /\ \A q \in Call : Guarded(q) /\ ~calls[q].unsure => Admins \ {calls[q].user} # {}

\* A login that nobody crossed has read what is in the row.
LoginsCurrent ==
  \A q \in Call : Serving(q, "login") /\ ~calls[q].crossed =>
    /\ users[calls[q].user] = calls[q].role
    /\ \A p \in Call : Concerns(p, calls[q].user) => Serving(p, "login")

\* A row is deleted when its sessions are gone.
DeletesRevoked ==
  \A q \in Call, t \in Token :
    Serving(q, "delete") /\ calls[q].step = "write" /\ sessions[t] # Nobody
      /\ sessions[t].user = calls[q].user => sessions[t].crossed

AccountsInv ==
  /\ AccountsTypeOK /\ IsFiniteSet(known) /\ Rows \subseteq known
  /\ AdminRemains /\ LoginsCurrent /\ DeletesRevoked /\ StaleSessionsCrossed

LEMMA NobodyIsNone ==
  Nobody \notin Role /\ Nobody \notin Session /\ Nobody \notin Login /\ Nobody \notin Admin
BY AccountsAssumption DEF AccountsAssumption

AdminSteps == {"count", "target", "write", "revoke"}

\* The records of requests.
LEMMA CallForms ==
  ASSUME AccountsTypeOK, NEW q \in Call, calls[q] # Nobody
  PROVE  /\ calls[q].kind = "login" => calls[q] \in Login
         /\ calls[q].kind # "login" => calls[q] \in Admin
         /\ calls[q].kind \in {"login", "role", "delete"} /\ calls[q].user \in User
<1>1. calls[q] \in Login \/ calls[q] \in Removal \/ calls[q] \in Change
  BY DEF AccountsTypeOK, Admin
<1> QED
  BY <1>1 DEF Login, Removal, Change, Admin

LEMMA AdminMoves ==
  ASSUME NEW c \in Admin, NEW s \in AdminSteps
  PROVE  /\ [c EXCEPT !.step = s] \in Admin
         /\ [c EXCEPT !.step = s].step = s /\ [c EXCEPT !.step = s].kind = c.kind
         /\ [c EXCEPT !.step = s].user = c.user /\ [c EXCEPT !.step = s].role = c.role
         /\ [c EXCEPT !.step = s].unsure = c.unsure
<1>1. CASE c \in Removal
  BY <1>1 DEF Removal, Admin, AdminSteps
<1>2. CASE c \in Change
  BY <1>2 DEF Change, Admin, AdminSteps
<1> QED
  BY <1>1, <1>2 DEF Admin

LEMMA AdminTold ==
  ASSUME NEW c \in Admin
  PROVE  /\ [c EXCEPT !.unsure = TRUE] \in Admin
         /\ [c EXCEPT !.unsure = TRUE].step = c.step /\ [c EXCEPT !.unsure = TRUE].kind = c.kind
         /\ [c EXCEPT !.unsure = TRUE].user = c.user /\ [c EXCEPT !.unsure = TRUE].role = c.role
         /\ [c EXCEPT !.unsure = TRUE].unsure = TRUE
<1>1. CASE c \in Removal
  BY <1>1 DEF Removal, Admin
<1>2. CASE c \in Change
  BY <1>2 DEF Change, Admin
<1> QED
  BY <1>1, <1>2 DEF Admin

\* A request that goes on stays the request it is.
Goes(p) ==
  calls'[p] # Nobody =>
    /\ calls[p] # Nobody
    /\ calls'[p].kind = calls[p].kind /\ calls'[p].user = calls[p].user
    /\ calls'[p].role = calls[p].role
    /\ calls[p].kind = "login" => calls'[p] = calls[p]

\* One request is at another step, or answered.
Advance(q, s, b) ==
  /\ calls[q] \in Admin /\ calls[q] # Nobody
  /\ calls' \in [Call -> Login \union Admin \union {Nobody}]
  /\ calls'[q] # Nobody /\ Goes(q)
  /\ calls'[q].step = s /\ calls'[q].unsure = b
  /\ \A p \in Call \ {q} : calls'[p] = calls[p]

LEMMA StepAdvances ==
  ASSUME AccountsTypeOK, NEW q \in Call, calls[q] # Nobody, calls[q].kind # "login",
         NEW s \in AdminSteps, Step(q, s)
  PROVE  Advance(q, s, calls[q].unsure)
<1> DEFINE h == [calls[q] EXCEPT !.step = s]
<1>1. calls[q] \in Admin
  BY CallForms
<1>2. calls' = [calls EXCEPT ![q] = h]
  BY DEF Step
<1>3. /\ h \in Admin /\ h.step = s /\ h.kind = calls[q].kind /\ h.user = calls[q].user
      /\ h.role = calls[q].role /\ h.unsure = calls[q].unsure
  BY <1>1, AdminMoves
<1> HIDE DEF h
<1>4. calls' \in [Call -> Login \union Admin \union {Nobody}]
  BY <1>2, <1>3 DEF AccountsTypeOK
<1>5. calls'[q] = h /\ \A p \in Call \ {q} : calls'[p] = calls[p]
  BY <1>2 DEF AccountsTypeOK
<1> QED
  BY <1>1, <1>3, <1>4, <1>5, NobodyIsNone DEF Advance, Goes

LEMMA RespondGoes ==
  ASSUME AccountsTypeOK, NEW q \in Call, Respond(q)
  PROVE  /\ calls' \in [Call -> Login \union Admin \union {Nobody}]
         /\ calls'[q] = Nobody /\ \A p \in Call \ {q} : calls'[p] = calls[p]
BY DEF Respond, AccountsTypeOK

\* The steps of the guard and the revocation.
LEMMA CountAdvances ==
  ASSUME AccountsTypeOK, NEW q \in Call, CountAdmins(q)
  PROVE  /\ calls[q].step = "count"
         /\ Advance(q, IF Few(CountByRole("admin")) THEN "target" ELSE Proceed(q), calls[q].unsure)
BY StepAdvances DEF CountAdmins, Doing, Serving, Proceed, AdminSteps

LEMMA FailAdvances ==
  ASSUME AccountsTypeOK, NEW q \in Call, ReadFails(q)
  PROVE  Advance(q, Proceed(q), TRUE)
<1>1. calls[q] # Nobody /\ calls[q].kind # "login" /\ Proceed(q) \in AdminSteps
  BY DEF ReadFails, Doing, Serving, Proceed, AdminSteps
<1>2. calls[q] \in Admin
  BY <1>1, CallForms
<1> DEFINE c == [calls[q] EXCEPT !.step = Proceed(q)]
           h == [c EXCEPT !.unsure = TRUE]
<1>3. /\ c \in Admin /\ c.step = Proceed(q) /\ c.kind = calls[q].kind /\ c.user = calls[q].user
      /\ c.role = calls[q].role
  BY <1>1, <1>2, AdminMoves
<1>4. calls' = [calls EXCEPT ![q] = h]
  BY DEF ReadFails
<1> HIDE DEF c
<1>5. /\ h \in Admin /\ h.step = Proceed(q) /\ h.kind = calls[q].kind /\ h.user = calls[q].user
      /\ h.role = calls[q].role /\ h.unsure = TRUE
  BY <1>3, AdminTold
<1> HIDE DEF h
<1>6. calls' \in [Call -> Login \union Admin \union {Nobody}]
  BY <1>4, <1>5 DEF AccountsTypeOK
<1>7. calls'[q] = h /\ \A p \in Call \ {q} : calls'[p] = calls[p]
  BY <1>4 DEF AccountsTypeOK
<1> QED
  BY <1>1, <1>2, <1>5, <1>6, <1>7, NobodyIsNone DEF Advance, Goes

LEMMA TargetAdvances ==
  ASSUME AccountsTypeOK, NEW q \in Call, ReadTarget(q)
  PROVE  \/ calls'[q] = Nobody /\ (\A p \in Call \ {q} : calls'[p] = calls[p])
            /\ calls' \in [Call -> Login \union Admin \union {Nobody}]
         \/ users[calls[q].user] # "admin" /\ Advance(q, Proceed(q), calls[q].unsure)
<1>1. calls[q] # Nobody /\ calls[q].kind # "login" /\ Proceed(q) \in AdminSteps
  BY DEF ReadTarget, Doing, Serving, Proceed, AdminSteps
<1> QED
  BY <1>1, StepAdvances, RespondGoes DEF ReadTarget

LEMMA RevokeAdvances ==
  ASSUME AccountsTypeOK, NEW q \in Call, RevokeSessions(q)
  PROVE  /\ calls[q] # Nobody /\ calls[q].step = "revoke" /\ calls[q].kind \in {"role", "delete"}
         /\ calls[q].kind = "role" =>
              /\ calls' \in [Call -> Login \union Admin \union {Nobody}]
              /\ calls'[q] = Nobody /\ \A p \in Call \ {q} : calls'[p] = calls[p]
         /\ calls[q].kind = "delete" => Advance(q, "write", calls[q].unsure)
<1>1. calls[q] # Nobody /\ calls[q].step = "revoke" /\ calls[q].kind \in {"role", "delete"}
  BY DEF RevokeSessions, Doing, Serving
<1> QED
  BY <1>1, StepAdvances, RespondGoes DEF RevokeSessions, AdminSteps

\* A write tells the others that what they know is old.
LEMMA WriteTells ==
  ASSUME AccountsTypeOK, NEW q \in Call, Doing(q, "write"), NEW next \in Admin \union {Nobody},
         next # Nobody => next.kind = calls[q].kind /\ next.user = calls[q].user
                            /\ next.role = calls[q].role,
         Written(q, next)
  PROVE  /\ calls' \in [Call -> Login \union Admin \union {Nobody}]
         /\ calls'[q] = next
         /\ \A p \in Call : Goes(p)
         /\ \A p \in Call \ {q} : /\ calls[p] # Nobody => calls'[p] # Nobody
                                  /\ calls[p] # Nobody /\ calls[p].kind # "login" => calls'[p].step = calls[p].step
                                  /\ calls[p].kind # "login" \/ calls[p] = Nobody =>
                                       \/ calls'[p] = calls[p]
                                       \/ calls'[p].unsure
                                  /\ Guarded(p) /\ users[calls[q].user] = "admin" => calls'[p].unsure
<1>1. calls[q] # Nobody /\ calls[q].kind # "login"
  BY DEF Doing, Serving
<1> DEFINE told(p) == users[calls[q].user] = "admin"
                        /\ (Doing(p, "target") \/ Doing(p, "write") \/ (Doing(p, "revoke") /\ Serving(p, "delete")))
<1>2. \A p \in Call : calls'[p] = IF p = q THEN next
                                  ELSE IF told(p) THEN [calls[p] EXCEPT !.unsure = TRUE] ELSE calls[p]
  BY DEF Written
<1>3. ASSUME NEW p \in Call, told(p)
      PROVE  /\ calls[p] # Nobody /\ calls[p] \in Admin
             /\ [calls[p] EXCEPT !.unsure = TRUE] \in Admin
             /\ [calls[p] EXCEPT !.unsure = TRUE].step = calls[p].step
             /\ [calls[p] EXCEPT !.unsure = TRUE].kind = calls[p].kind
             /\ [calls[p] EXCEPT !.unsure = TRUE].user = calls[p].user
             /\ [calls[p] EXCEPT !.unsure = TRUE].role = calls[p].role
             /\ [calls[p] EXCEPT !.unsure = TRUE].unsure = TRUE
             /\ calls[p].kind # "login"
  <2>1. calls[p] # Nobody /\ calls[p].kind # "login"
    BY <1>3 DEF Doing, Serving
  <2>2. calls[p] \in Admin
    BY <2>1, CallForms
  <2> QED
    BY <2>1, <2>2, AdminTold
<1>4. \A p \in Call : Guarded(p) /\ users[calls[q].user] = "admin" => told(p)
  BY DEF Guarded, Doing, Serving
<1>5. \A p \in Call : calls[p] \in Login \union Admin \union {Nobody}
  BY DEF AccountsTypeOK
<1> HIDE DEF told
<1>6. \A p \in Call : calls'[p] \in Login \union Admin \union {Nobody}
  BY <1>2, <1>3, <1>5
<1>7. calls' \in [Call -> Login \union Admin \union {Nobody}]
  BY <1>6 DEF Written
<1>8. calls'[q] = next /\ Goes(q)
  BY <1>1, <1>2 DEF Goes
<1>9. ASSUME NEW p \in Call \ {q}
      PROVE  /\ Goes(p) /\ (calls[p] # Nobody => calls'[p] # Nobody)
             /\ calls[p] # Nobody /\ calls[p].kind # "login" => calls'[p].step = calls[p].step
             /\ calls[p].kind # "login" \/ calls[p] = Nobody => calls'[p] = calls[p] \/ calls'[p].unsure
             /\ Guarded(p) /\ users[calls[q].user] = "admin" => calls'[p].unsure
  <2>1. CASE told(p)
    <3>1. calls'[p] = [calls[p] EXCEPT !.unsure = TRUE]
      BY <1>2, <2>1
    <3>2. /\ calls[p] # Nobody /\ calls[p].kind # "login" /\ calls'[p] \in Admin
          /\ calls'[p].step = calls[p].step /\ calls'[p].kind = calls[p].kind
          /\ calls'[p].user = calls[p].user /\ calls'[p].role = calls[p].role
          /\ calls'[p].unsure = TRUE
      BY <1>3, <2>1, <3>1
    <3> QED
      BY <3>2, NobodyIsNone DEF Goes
  <2>2. CASE ~told(p)
    BY <1>2, <1>4, <2>2 DEF Goes
  <2> QED
    BY <2>1, <2>2
<1> QED
  BY <1>7, <1>8, <1>9

LEMMA UpdateTells ==
  ASSUME AccountsTypeOK, NEW q \in Call, UpdateRole(q)
  PROVE  \E next \in Admin :
           /\ next # Nobody /\ next.kind = calls[q].kind /\ next.user = calls[q].user
           /\ next.role = calls[q].role /\ next.step = "revoke" /\ Written(q, next)
<1>1. calls[q] \in Admin /\ Written(q, [calls[q] EXCEPT !.step = "revoke"])
  BY CallForms DEF UpdateRole, Doing, Serving
<1> DEFINE h == [calls[q] EXCEPT !.step = "revoke"]
<1>2. /\ h \in Admin /\ h.step = "revoke" /\ h.kind = calls[q].kind /\ h.user = calls[q].user
      /\ h.role = calls[q].role
  BY <1>1, AdminMoves DEF AdminSteps
<1> HIDE DEF h
<1>3. Written(q, h)
  BY <1>1 DEF h
<1> QED
  BY <1>2, <1>3, NobodyIsNone

LEMMA AccountsTypesStay == AccountsTypeOK /\ [AccountsNext]_accountsVars => AccountsTypeOK'
<1> SUFFICES ASSUME AccountsTypeOK, [AccountsNext]_accountsVars PROVE AccountsTypeOK'
  OBVIOUS
<1>0. AccountsTypeOK /\ "admin" \in Role
  BY AccountsAssumption DEF AccountsAssumption
<1>1. CASE Restart
  BY <1>0, <1>1 DEF Restart, AccountsTypeOK, Bootstrapped
<1>2. ASSUME NEW t \in Token, Revoke(t) PROVE AccountsTypeOK'
  BY <1>0, <1>2 DEF Revoke, AccountsTypeOK
<1>3. ASSUME NEW u \in User, NEW r \in Role, CreateUser(u, r) PROVE AccountsTypeOK'
  BY <1>0, <1>3 DEF CreateUser, AccountsTypeOK
<1>4. ASSUME NEW q \in Call, NEW u \in User, LoginRead(q, u) PROVE AccountsTypeOK'
  <2> DEFINE c == [kind |-> "login", user |-> u, role |-> users[u],
                   crossed |-> \E p \in Call : Concerns(p, u) /\ ~Serving(p, "login")]
  <2>1. users[u] \in Role
    BY <1>0, <1>4 DEF LoginRead, Rows, AccountsTypeOK
  <2>2. (\E p \in Call : Concerns(p, u) /\ ~Serving(p, "login")) \in BOOLEAN
    OBVIOUS
  <2>3. c \in Login
    BY <2>1, <2>2 DEF Login
  <2>4. calls' = [calls EXCEPT ![q] = c] /\ UNCHANGED <<users, known, sessions, blindfold>>
    BY <1>4 DEF LoginRead
  <2> HIDE DEF c
  <2> QED
    BY <1>0, <2>3, <2>4 DEF AccountsTypeOK
<1>5. ASSUME NEW q \in Call, NEW t \in Token, LoginCreate(q, t) PROVE AccountsTypeOK'
  <2>1. calls[q] \in Login
    BY <1>0, <1>5, CallForms DEF LoginCreate, Serving
  <2>2. [user |-> calls[q].user, role |-> calls[q].role, crossed |-> calls[q].crossed] \in Session
    BY <2>1 DEF Login, Session
  <2> QED
    BY <1>0, <1>5, <2>2, RespondGoes DEF LoginCreate, AccountsTypeOK
<1>6. ASSUME NEW q \in Call, NEW c \in Admin, Arrive(q, c) PROVE AccountsTypeOK'
  <2>1. ASSUME NEW p \in Call PROVE calls'[p] \in Login \union Admin \union {Nobody}
    <3>1. Serving(p, "login") => [calls[p] EXCEPT !.crossed = TRUE] \in Login
      <4> SUFFICES ASSUME Serving(p, "login") PROVE [calls[p] EXCEPT !.crossed = TRUE] \in Login
        OBVIOUS
      <4>1. calls[p] \in Login
        BY <1>0, CallForms DEF Serving
      <4> QED
        BY <4>1 DEF Login
    <3>2. calls[p] \in Login \union Admin \union {Nobody}
      BY <1>0 DEF AccountsTypeOK
    <3> QED
      BY <1>6, <3>1, <3>2 DEF Arrive
  <2>2. calls' \in [Call -> Login \union Admin \union {Nobody}]
    BY <1>6, <2>1 DEF Arrive
  <2> QED
    BY <1>0, <1>6, <2>2 DEF Arrive, AccountsTypeOK
<1>7. ASSUME NEW q \in Call, CountAdmins(q) \/ ReadFails(q) \/ ReadTarget(q) \/ WriteFails(q)
      PROVE  AccountsTypeOK'
  <2>1. calls' \in [Call -> Login \union Admin \union {Nobody}]
    BY <1>0, <1>7, CountAdvances, FailAdvances, TargetAdvances, RespondGoes DEF WriteFails, Advance
  <2>2. UNCHANGED <<users, known, sessions, blindfold>>
    BY <1>7 DEF CountAdmins, ReadFails, ReadTarget, WriteFails
  <2> QED
    BY <1>0, <2>1, <2>2 DEF AccountsTypeOK
<1>8. ASSUME NEW q \in Call, RevokeSessions(q) PROVE AccountsTypeOK'
  <2>1. calls' \in [Call -> Login \union Admin \union {Nobody}]
    BY <1>0, <1>8, RevokeAdvances DEF Advance
  <2> QED
    BY <1>0, <1>8, <2>1 DEF RevokeSessions, RevokeByUser, AccountsTypeOK
<1>9. ASSUME NEW q \in Call, UpdateRole(q) PROVE AccountsTypeOK'
  <2>1. calls' \in [Call -> Login \union Admin \union {Nobody}]
    BY <1>0, <1>9, UpdateTells, WriteTells DEF UpdateRole
  <2>2. calls[q].role \in Role /\ calls[q].user \in User
    BY <1>0, <1>9, CallForms DEF UpdateRole, Serving, Admin, Removal, Change
  <2>3. blindfold' \in BOOLEAN
    BY <1>0, <1>9 DEF UpdateRole, Written, AccountsTypeOK
  <2> QED
    BY <1>0, <1>9, <2>1, <2>2, <2>3 DEF UpdateRole, AccountsTypeOK
<1>10. ASSUME NEW q \in Call, DeleteUser(q) PROVE AccountsTypeOK'
  <2>1. calls' \in [Call -> Login \union Admin \union {Nobody}]
    BY <1>0, <1>10, WriteTells DEF DeleteUser
  <2>2. blindfold' \in BOOLEAN
    BY <1>0, <1>10 DEF DeleteUser, Written, AccountsTypeOK
  <2> QED
    BY <1>0, <1>10, <2>1, <2>2 DEF DeleteUser, AccountsTypeOK
<1>11. CASE UNCHANGED accountsVars
  BY <1>0, <1>11 DEF accountsVars, AccountsTypeOK
<1>12. ASSUME NEW q \in Call, NEW u \in User,
              ArriveDelete(q, u) \/ \E r \in Role : ArriveRole(q, u, r)
       PROVE  \E c \in Admin : Arrive(q, c)
  <2>1. [kind |-> "delete", user |-> u, role |-> Nobody, unsure |-> FALSE, step |-> "count"] \in Admin
    BY DEF Admin, Removal
  <2>2. \A r \in Role : [kind |-> "role", user |-> u, role |-> r, unsure |-> FALSE,
                         step |-> IF r = "admin" THEN "write" ELSE "count"] \in Admin
    BY DEF Admin, Change
  <2> QED
    BY <1>12, <2>1, <2>2 DEF ArriveDelete, ArriveRole
<1> QED
  BY <1>1, <1>2, <1>3, <1>4, <1>5, <1>6, <1>7, <1>8, <1>9, <1>10, <1>11, <1>12 DEF AccountsNext

\* An administrator's request arrives at its first step; the logins it crosses know.
LEMMA ArriveSteps ==
  ASSUME AccountsTypeOK, NEW q \in Call, NEW c \in Admin, Arrive(q, c)
  PROVE  /\ UNCHANGED <<users, known, sessions, blindfold>>
         /\ calls[q] = Nobody /\ calls'[q] = c
         /\ \A p \in Call \ {q} :
              /\ ~Serving(p, "login") => calls'[p] = calls[p]
              /\ Serving(p, "login") =>
                   /\ calls'[p] \in Login /\ calls'[p] # Nobody /\ calls'[p].kind = "login"
                   /\ calls'[p].user = calls[p].user /\ calls'[p].role = calls[p].role
                   /\ calls[p].crossed \/ calls[p].user = c.user => calls'[p].crossed
                   /\ ~calls'[p].crossed => ~calls[p].crossed
<1>1. UNCHANGED <<users, known, sessions, blindfold>> /\ calls[q] = Nobody /\ calls'[q] = c
  BY DEF Arrive
<1>2. ASSUME NEW p \in Call \ {q}, ~Serving(p, "login") PROVE calls'[p] = calls[p]
  BY <1>2 DEF Arrive
<1>3. ASSUME NEW p \in Call \ {q}, Serving(p, "login")
      PROVE  /\ calls'[p] \in Login /\ calls'[p] # Nobody /\ calls'[p].kind = "login"
             /\ calls'[p].user = calls[p].user /\ calls'[p].role = calls[p].role
             /\ calls[p].crossed \/ calls[p].user = c.user => calls'[p].crossed
             /\ ~calls'[p].crossed => ~calls[p].crossed
  <2>1. calls[p] \in Login /\ calls[p] # Nobody
    BY <1>3, CallForms DEF Serving
  <2>2. calls'[p] = IF calls[p].user = c.user THEN [calls[p] EXCEPT !.crossed = TRUE] ELSE calls[p]
    BY <1>3, <2>1 DEF Arrive, Concerns
  <2> DEFINE h == [calls[p] EXCEPT !.crossed = TRUE]
  <2>3. h \in Login /\ h.kind = "login" /\ h.user = calls[p].user /\ h.role = calls[p].role
        /\ h.crossed = TRUE
    BY <2>1 DEF Login
  <2>4. calls[p].kind = "login"
    BY <2>1 DEF Login
  <2> HIDE DEF h
  <2>5. calls'[p] = IF calls[p].user = c.user THEN h ELSE calls[p]
    BY <2>2 DEF h
  <2> QED
    BY <2>1, <2>3, <2>4, <2>5, NobodyIsNone
<1> QED
  BY <1>1, <1>2, <1>3

LEMMA ArriveForms ==
  ASSUME NEW q \in Call, NEW u \in User, ArriveDelete(q, u) \/ \E r \in Role : ArriveRole(q, u, r)
  PROVE  \E c \in Admin :
           /\ Arrive(q, c) /\ c.user = u /\ c.kind \in {"role", "delete"}
           /\ c.kind = "delete" => c.step = "count"
           /\ c.kind = "role" => c.step = IF c.role = "admin" THEN "write" ELSE "count"
<1>1. [kind |-> "delete", user |-> u, role |-> Nobody, unsure |-> FALSE, step |-> "count"] \in Admin
  BY DEF Admin, Removal
<1>2. \A r \in Role : [kind |-> "role", user |-> u, role |-> r, unsure |-> FALSE,
                       step |-> IF r = "admin" THEN "write" ELSE "count"] \in Admin
  BY DEF Admin, Change
<1> QED
  BY <1>1, <1>2 DEF ArriveDelete, ArriveRole

\* What the count says.
LEMMA TwoAdmins ==
  ASSUME AccountsTypeOK, IsFiniteSet(known), Rows \subseteq known, Admins # {},
         ~Few(CountByRole("admin")), NEW u \in User
  PROVE  Admins \ {u} # {}
<1>1. Admins = {v \in Rows : users[v] = "admin"}
  <2>1. "admin" # Nobody
    BY AccountsAssumption DEF AccountsAssumption
  <2> QED
    BY <2>1 DEF Admins, Rows
<1>2. IsFiniteSet(Admins)
  BY <1>1, FS_Subset DEF Admins
<1>3. CountByRole("admin") = Cardinality(Admins)
  BY <1>1 DEF CountByRole
<1> SUFFICES ASSUME Admins \subseteq {u} PROVE FALSE
  OBVIOUS
<1>4. Cardinality({u}) = 1 /\ IsFiniteSet({u})
  BY FS_Singleton
<1>5. Cardinality(Admins) <= 1 /\ Cardinality(Admins) \in Nat
  BY <1>2, <1>4, FS_Subset, FS_CardinalityType
<1> QED
  BY <1>3, <1>5 DEF Few

LEMMA RowsStay ==
  AccountsInv /\ [AccountsNext]_accountsVars => IsFiniteSet(known)' /\ (Rows \subseteq known)'
<1> SUFFICES ASSUME AccountsInv, [AccountsNext]_accountsVars
             PROVE  IsFiniteSet(known') /\ Rows' \subseteq known'
  OBVIOUS
<1>0. AccountsTypeOK /\ IsFiniteSet(known) /\ Rows \subseteq known
  BY DEF AccountsInv
<1>1. CASE Restart
  <2>1. CASE UNCHANGED <<users, known>>
    BY <1>0, <2>1 DEF Rows
  <2>2. ASSUME NEW u \in User, users' = [users EXCEPT ![u] = "admin"], known' = known \union {u}
        PROVE  IsFiniteSet(known') /\ Rows' \subseteq known'
    BY <1>0, <2>2, FS_AddElement DEF Rows, AccountsTypeOK
  <2> QED
    BY <1>1, <2>1, <2>2 DEF Restart, Bootstrapped
<1>2. ASSUME NEW u \in User, NEW r \in Role, CreateUser(u, r)
      PROVE  IsFiniteSet(known') /\ Rows' \subseteq known'
  BY <1>0, <1>2, FS_AddElement DEF CreateUser, Rows, AccountsTypeOK
<1>3. ASSUME NEW q \in Call, UpdateRole(q) \/ DeleteUser(q)
      PROVE  IsFiniteSet(known') /\ Rows' \subseteq known'
  BY <1>0, <1>3 DEF UpdateRole, DeleteUser, Rows, AccountsTypeOK
<1>4. CASE UNCHANGED <<users, known>>
  BY <1>0, <1>4 DEF Rows
<1> QED
  BY <1>1, <1>2, <1>3, <1>4
  DEF AccountsNext, Revoke, LoginRead, LoginCreate, ArriveDelete, ArriveRole, Arrive, CountAdmins,
    ReadFails, ReadTarget, WriteFails, RevokeSessions, accountsVars

\* When no admin goes and no request passes the guard without knowing of another one.
LEMMA NoAdminGoes ==
  ASSUME AccountsInv, Admins \subseteq Admins', blindfold' = blindfold,
         \A p \in Call : Guarded(p)' /\ ~calls'[p].unsure =>
           \/ Guarded(p) /\ ~calls[p].unsure /\ calls'[p].user = calls[p].user
           \/ ~blindfold => Admins \ {calls'[p].user} # {}
  PROVE  AdminRemains'
BY DEF AccountsInv, AdminRemains

LEMMA AdminsStay == AccountsInv /\ [AccountsNext]_accountsVars => AdminRemains'
<1> SUFFICES ASSUME AccountsInv, [AccountsNext]_accountsVars PROVE AdminRemains'
  OBVIOUS
<1>0. AccountsTypeOK /\ IsFiniteSet(known) /\ Rows \subseteq known /\ AdminRemains
  BY DEF AccountsInv
<1>1. CASE Restart
  <2>1. \A p \in Call : calls'[p] = Nobody
    BY <1>1 DEF Restart
  <2>2. Admins \subseteq Admins'
    BY <1>0, <1>1 DEF Restart, Admins, AccountsTypeOK
  <2>3. \A p \in Call : ~Guarded(p)'
    BY <2>1 DEF Guarded, Serving
  <2> QED
    BY <1>1, <2>2, <2>3, NoAdminGoes DEF Restart
<1>2. ASSUME NEW u \in User, NEW r \in Role, CreateUser(u, r) PROVE AdminRemains'
  <2>1. users[u] = Nobody /\ users' = [users EXCEPT ![u] = r] /\ UNCHANGED <<calls, blindfold>>
    BY <1>0, <1>2 DEF CreateUser, Rows
  <2>2. Admins \subseteq Admins'
    BY <1>0, <2>1, AccountsAssumption DEF Admins, AccountsTypeOK, AccountsAssumption
  <2> QED
    BY <2>1, <2>2, NoAdminGoes DEF Guarded, Serving
<1>3. ASSUME NEW q \in Call, NEW u \in User, LoginRead(q, u) PROVE AdminRemains'
  <2>1. UNCHANGED <<users, blindfold>> /\ calls'[q].kind = "login"
        /\ \A p \in Call \ {q} : calls'[p] = calls[p]
    BY <1>0, <1>3 DEF LoginRead, AccountsTypeOK
  <2> QED
    BY <2>1, NoAdminGoes DEF Guarded, Serving, Admins
<1>4. ASSUME NEW q \in Call, NEW t \in Token, LoginCreate(q, t) PROVE AdminRemains'
  <2>1. UNCHANGED <<users, blindfold>> /\ calls'[q] = Nobody
        /\ \A p \in Call \ {q} : calls'[p] = calls[p]
    BY <1>0, <1>4, RespondGoes DEF LoginCreate
  <2> QED
    BY <2>1, NoAdminGoes DEF Guarded, Serving, Admins
<1>5. ASSUME NEW q \in Call, NEW u \in User, ArriveDelete(q, u) \/ \E r \in Role : ArriveRole(q, u, r)
      PROVE  AdminRemains'
  <2>1. PICK c \in Admin :
          /\ Arrive(q, c) /\ c.user = u /\ c.kind \in {"role", "delete"}
          /\ c.kind = "delete" => c.step = "count"
          /\ c.kind = "role" => c.step = IF c.role = "admin" THEN "write" ELSE "count"
    BY <1>5, ArriveForms
  <2>2. UNCHANGED <<users, blindfold>> /\ calls'[q] = c
        /\ \A p \in Call \ {q} : calls'[p] = calls[p] \/ calls'[p].kind = "login"
    BY <1>0, <2>1, ArriveSteps
  <2>3. ~Guarded(q)'
    BY <2>1, <2>2 DEF Guarded, Serving
  <2> QED
    BY <2>2, <2>3, NoAdminGoes DEF Guarded, Serving, Admins
<1>6. ASSUME NEW q \in Call, CountAdmins(q) PROVE AdminRemains'
  <2>1. Advance(q, IF Few(CountByRole("admin")) THEN "target" ELSE Proceed(q), calls[q].unsure)
    BY <1>0, <1>6, CountAdvances
  <2>2. UNCHANGED <<users, blindfold>> /\ \A p \in Call \ {q} : calls'[p] = calls[p]
    BY <1>6, <2>1 DEF CountAdmins, Advance
  <2>3. Guarded(q)' => ~Few(CountByRole("admin")) /\ calls'[q].user \in User
    BY <1>0, <2>1, CallForms DEF Advance, Goes, Guarded, Serving
  <2>4. ~blindfold /\ Guarded(q)' => Admins \ {calls'[q].user} # {}
    BY <1>0, <2>3, TwoAdmins DEF AdminRemains
  <2> QED
    BY <2>2, <2>4, NoAdminGoes DEF Guarded, Serving, Admins
<1>7. ASSUME NEW q \in Call, ReadFails(q) PROVE AdminRemains'
  <2>1. Advance(q, Proceed(q), TRUE) /\ UNCHANGED <<users, blindfold>>
    BY <1>0, <1>7, FailAdvances DEF ReadFails
  <2> QED
    BY <2>1, NoAdminGoes DEF Advance, Guarded, Serving, Admins
<1>8. ASSUME NEW q \in Call, ReadTarget(q) PROVE AdminRemains'
  <2>1. UNCHANGED <<users, blindfold>> /\ \A p \in Call \ {q} : calls'[p] = calls[p]
    BY <1>0, <1>8, TargetAdvances DEF ReadTarget, Advance
  <2>2. Guarded(q)' => users[calls[q].user] # "admin" /\ calls'[q].user = calls[q].user
    BY <1>0, <1>8, TargetAdvances DEF Advance, Goes, Guarded, Serving
  <2>3. ~blindfold /\ Guarded(q)' => Admins \ {calls'[q].user} # {}
    BY <1>0, <2>2 DEF AdminRemains, Admins
  <2> QED
    BY <2>1, <2>3, NoAdminGoes DEF Guarded, Serving, Admins
<1>9. ASSUME NEW q \in Call, WriteFails(q) PROVE AdminRemains'
  <2>1. UNCHANGED <<users, blindfold>> /\ calls'[q] = Nobody
        /\ \A p \in Call \ {q} : calls'[p] = calls[p]
    BY <1>0, <1>9, RespondGoes DEF WriteFails
  <2> QED
    BY <2>1, NoAdminGoes DEF Guarded, Serving, Admins
<1>10. ASSUME NEW q \in Call, RevokeSessions(q) PROVE AdminRemains'
  <2>1. UNCHANGED <<users, blindfold>> /\ \A p \in Call \ {q} : calls'[p] = calls[p]
    BY <1>0, <1>10, RevokeAdvances DEF RevokeSessions, Advance
  <2>2. Guarded(q)' => Guarded(q) /\ calls'[q].unsure = calls[q].unsure /\ calls'[q].user = calls[q].user
    BY <1>0, <1>10, RevokeAdvances DEF Advance, Goes, Guarded, Serving
  <2> QED
    BY <2>1, <2>2, NoAdminGoes DEF Guarded, Serving, Admins
<1>11. ASSUME NEW q \in Call, NEW next \in Admin \union {Nobody}, NEW role \in Role \union {Nobody},
              Doing(q, "write"),
              next # Nobody => /\ next.kind = calls[q].kind /\ next.user = calls[q].user
                               /\ next.role = calls[q].role /\ next.step = "revoke"
                               /\ calls[q].kind = "role",
              Written(q, next), users' = [users EXCEPT ![calls[q].user] = role],
              role # "admin" => Guarded(q)
       PROVE  AdminRemains'
  <2>1. \A p \in Call \ {q} : /\ calls[p] # Nobody => calls'[p] # Nobody
                              /\ calls[p] # Nobody /\ calls[p].kind # "login" => calls'[p].step = calls[p].step
                              /\ calls[p].kind # "login" \/ calls[p] = Nobody =>
                                   \/ calls'[p] = calls[p]
                                   \/ calls'[p].unsure
                              /\ Guarded(p) /\ users[calls[q].user] = "admin" => calls'[p].unsure
    BY <1>0, <1>11, WriteTells
  <2>2. calls'[q] = next /\ \A p \in Call : Goes(p)
    BY <1>0, <1>11, WriteTells
  <2>3. ~Guarded(q)'
    BY <1>11, <2>2 DEF Guarded, Serving
  <2>4. \A p \in Call \ {q} : Guarded(p)' => Guarded(p) /\ calls'[p].user = calls[p].user
    BY <2>1, <2>2 DEF Goes, Guarded, Serving
  <2>5. \A p \in Call \ {q} : Guarded(p)' /\ ~calls'[p].unsure => ~calls[p].unsure
    BY <2>1, <2>4 DEF Guarded, Serving
  <2>6. blindfold' = (blindfold \/ (users[calls[q].user] = "admin" /\ calls[q].unsure))
    BY <1>11 DEF Written
  <2>7. CASE role = "admin" \/ users[calls[q].user] # "admin"
    <3>1. Admins \subseteq Admins'
      BY <1>0, <1>11, <2>7 DEF Admins, AccountsTypeOK
    <3> QED
      BY <1>0, <2>3, <2>4, <2>5, <2>6, <3>1 DEF AdminRemains
  <2>8. CASE role # "admin" /\ users[calls[q].user] = "admin"
    <3>1. \A p \in Call : Guarded(p)' => calls'[p].unsure
      BY <2>1, <2>3, <2>4, <2>8
    <3>2. ~blindfold' => Admins \ {calls[q].user} # {}
      BY <1>0, <1>11, <2>6, <2>8 DEF AdminRemains
    <3>3. Admins \ {calls[q].user} \subseteq Admins'
      BY <1>0, <1>11 DEF Admins, AccountsTypeOK
    <3> QED
      BY <3>1, <3>2, <3>3 DEF AdminRemains
  <2> QED
    BY <2>7, <2>8
<1>12. ASSUME NEW q \in Call, UpdateRole(q) PROVE AdminRemains'
  <2>1. PICK next \in Admin :
          /\ next # Nobody /\ next.kind = calls[q].kind /\ next.user = calls[q].user
          /\ next.role = calls[q].role /\ next.step = "revoke" /\ Written(q, next)
    BY <1>0, <1>12, UpdateTells
  <2>2. /\ Doing(q, "write") /\ calls[q].kind = "role" /\ Serving(q, "role") /\ calls[q].step = "write"
        /\ users' = [users EXCEPT ![calls[q].user] = calls[q].role]
    BY <1>12 DEF UpdateRole, Doing, Serving
  <2>3. calls[q].role \in Role
    BY <1>0, <2>2, CallForms DEF Serving, Admin, Removal, Change
  <2>4. calls[q].role # "admin" => Guarded(q)
    BY <2>2 DEF Guarded
  <2> QED
    BY <1>11, <2>1, <2>2, <2>3, <2>4
<1>13. ASSUME NEW q \in Call, DeleteUser(q) PROVE AdminRemains'
  <2>1. /\ Doing(q, "write") /\ Serving(q, "delete") /\ calls[q].step = "write" /\ Written(q, Nobody)
        /\ users' = [users EXCEPT ![calls[q].user] = Nobody]
    BY <1>13 DEF DeleteUser, Doing
  <2>2. Guarded(q)
    BY <2>1 DEF Guarded
  <2> QED
    BY <1>11, <2>1, <2>2
<1>14. CASE UNCHANGED <<users, calls, blindfold>>
  BY <1>0, <1>14 DEF AdminRemains, Admins, Guarded, Serving
<1> QED
  BY <1>1, <1>2, <1>3, <1>4, <1>5, <1>6, <1>7, <1>8, <1>9, <1>10, <1>12, <1>13, <1>14
  DEF AccountsNext, Revoke, accountsVars

\* Steps after which no login and no administrator's request is new.
LEMMA LoginsKept ==
  ASSUME AccountsInv, \A p \in Call : Goes(p),
         \A p \in Call : Serving(p, "login") /\ ~calls[p].crossed =>
           users'[calls[p].user] = users[calls[p].user]
  PROVE  LoginsCurrent'
<1>1. \A p \in Call : Serving(p, "login")' => Serving(p, "login") /\ calls'[p] = calls[p]
  BY DEF Goes, Serving
<1>2. \A p \in Call, u \in User : Concerns(p, u)' /\ ~Serving(p, "login")' => Concerns(p, u) /\ ~Serving(p, "login")
  BY DEF Goes, Serving, Concerns
<1>3. \A p \in Call : Serving(p, "login") => calls[p].user \in User
  BY CallForms DEF AccountsInv, Serving
<1> QED
  BY <1>1, <1>2, <1>3 DEF AccountsInv, LoginsCurrent

\* The handlers that move on or answer.
LEMMA HandlersGo ==
  ASSUME AccountsTypeOK, NEW q \in Call,
         \/ CountAdmins(q) \/ ReadFails(q) \/ ReadTarget(q) \/ WriteFails(q) \/ RevokeSessions(q)
         \/ UpdateRole(q) \/ DeleteUser(q)
  PROVE  \A p \in Call : Goes(p)
<1>1. CASE CountAdmins(q)
  BY <1>1, CountAdvances DEF Advance, Goes
<1>2. CASE ReadFails(q)
  BY <1>2, FailAdvances DEF Advance, Goes
<1>3. CASE ReadTarget(q)
  BY <1>3, TargetAdvances DEF Advance, Goes
<1>4. CASE WriteFails(q)
  BY <1>4, RespondGoes DEF WriteFails, Goes
<1>5. CASE RevokeSessions(q)
  BY <1>5, RevokeAdvances DEF Advance, Goes
<1>6. CASE UpdateRole(q)
  BY <1>6, UpdateTells, WriteTells DEF UpdateRole
<1>7. CASE DeleteUser(q)
  BY <1>7, WriteTells DEF DeleteUser
<1> QED
  BY <1>1, <1>2, <1>3, <1>4, <1>5, <1>6, <1>7

LEMMA LoginsStay == AccountsInv /\ [AccountsNext]_accountsVars => LoginsCurrent'
<1> SUFFICES ASSUME AccountsInv, [AccountsNext]_accountsVars PROVE LoginsCurrent'
  OBVIOUS
<1>0. AccountsTypeOK /\ Rows \subseteq known /\ LoginsCurrent
  BY DEF AccountsInv
<1>1. CASE Restart
  BY <1>1 DEF Restart, LoginsCurrent, Serving
<1>2. ASSUME NEW u \in User, NEW r \in Role, CreateUser(u, r) PROVE LoginsCurrent'
  <2>1. UNCHANGED calls /\ u \notin Rows /\ users' = [users EXCEPT ![u] = r]
    BY <1>0, <1>2 DEF CreateUser
  <2>2. \A p \in Call : Serving(p, "login") /\ ~calls[p].crossed => calls[p].user \in Rows
    <3>1. ASSUME NEW p \in Call, Serving(p, "login"), ~calls[p].crossed PROVE calls[p].user \in Rows
      <4>1. calls[p] \in Login
        BY <1>0, <3>1, CallForms DEF Serving
      <4> QED
        BY <1>0, <3>1, <4>1, NobodyIsNone DEF LoginsCurrent, Rows, Login
    <3> QED
      BY <3>1
  <2> QED
    BY <1>0, <2>1, <2>2, LoginsKept DEF Goes, AccountsTypeOK, Rows
<1>3. ASSUME NEW q \in Call, NEW u \in User, LoginRead(q, u) PROVE LoginsCurrent'
  <2> DEFINE c == [kind |-> "login", user |-> u, role |-> users[u],
                   crossed |-> \E p \in Call : Concerns(p, u) /\ ~Serving(p, "login")]
  <2>1. UNCHANGED users /\ calls[q] = Nobody /\ calls' = [calls EXCEPT ![q] = c]
    BY <1>3 DEF LoginRead
  <2>2. c.kind = "login" /\ c.user = u /\ c.role = users[u]
        /\ (c.crossed <=> \E p \in Call : Concerns(p, u) /\ ~Serving(p, "login"))
    OBVIOUS
  <2> HIDE DEF c
  <2>3. calls'[q] = c /\ \A p \in Call \ {q} : calls'[p] = calls[p]
    BY <1>0, <2>1 DEF AccountsTypeOK
  <2>4. ASSUME NEW r \in Call, Serving(r, "login")', ~calls'[r].crossed, NEW p \in Call,
               Concerns(p, calls[r].user)'
        PROVE  Serving(p, "login")'
    <3>1. CASE p = q
      BY <2>2, <2>3, <2>4, <3>1 DEF Serving, Concerns
    <3>2. CASE p # q /\ r = q
      BY <2>2, <2>3, <2>4, <3>2 DEF Serving, Concerns
    <3>3. CASE p # q /\ r # q
      BY <1>0, <2>3, <2>4, <3>3 DEF LoginsCurrent, Serving, Concerns
    <3> QED
      BY <3>1, <3>2, <3>3
  <2>5. ASSUME NEW r \in Call, Serving(r, "login")', ~calls'[r].crossed
        PROVE  users'[calls'[r].user] = calls'[r].role
    <3>1. CASE r = q
      BY <2>1, <2>2, <2>3, <3>1
    <3>2. CASE r # q
      BY <1>0, <2>1, <2>3, <2>5, <3>2 DEF LoginsCurrent, Serving
    <3> QED
      BY <3>1, <3>2
  <2> QED
    BY <2>4, <2>5 DEF LoginsCurrent, Concerns
<1>4. ASSUME NEW q \in Call, NEW t \in Token, LoginCreate(q, t) PROVE LoginsCurrent'
  <2>1. UNCHANGED users /\ \A p \in Call : Goes(p)
    BY <1>0, <1>4, RespondGoes DEF LoginCreate, Goes
  <2> QED
    BY <2>1, LoginsKept
<1>5. ASSUME NEW q \in Call, NEW u \in User, ArriveDelete(q, u) \/ \E r \in Role : ArriveRole(q, u, r)
      PROVE  LoginsCurrent'
  <2>1. PICK c \in Admin : Arrive(q, c) /\ c.user = u /\ c.kind \in {"role", "delete"}
    BY <1>5, ArriveForms
  <2>2. UNCHANGED users /\ calls[q] = Nobody /\ calls'[q] = c
    BY <1>0, <2>1, ArriveSteps
  <2>3. \A p \in Call \ {q} :
          /\ ~Serving(p, "login") => calls'[p] = calls[p]
          /\ Serving(p, "login") =>
               /\ calls'[p] # Nobody /\ calls'[p].kind = "login"
               /\ calls'[p].user = calls[p].user /\ calls'[p].role = calls[p].role
               /\ calls[p].user = u => calls'[p].crossed
               /\ ~calls'[p].crossed => ~calls[p].crossed
    BY <1>0, <2>1, ArriveSteps
  <2>4. ASSUME NEW r \in Call, Serving(r, "login")', ~calls'[r].crossed
        PROVE  /\ r # q /\ Serving(r, "login") /\ ~calls[r].crossed /\ calls[r].user # u
               /\ calls'[r].user = calls[r].user /\ calls'[r].role = calls[r].role
    BY <2>1, <2>2, <2>3, <2>4 DEF Serving
  <2>5. ASSUME NEW r \in Call, Serving(r, "login")', ~calls'[r].crossed, NEW p \in Call,
               Concerns(p, calls[r].user)'
        PROVE  Serving(p, "login")'
    <3>1. p # q
      BY <2>1, <2>2, <2>4, <2>5 DEF Concerns
    <3>2. Concerns(p, calls[r].user)
      BY <2>3, <2>4, <2>5, <3>1 DEF Concerns, Serving
    <3>3. Serving(p, "login")
      BY <1>0, <2>4, <2>5, <3>2 DEF LoginsCurrent
    <3> QED
      BY <2>3, <3>1, <3>3 DEF Serving
  <2>6. ASSUME NEW r \in Call, Serving(r, "login")', ~calls'[r].crossed
        PROVE  users'[calls'[r].user] = calls'[r].role
    BY <1>0, <2>2, <2>4, <2>6 DEF LoginsCurrent
  <2> QED
    BY <2>5, <2>6 DEF LoginsCurrent, Concerns
<1>6. ASSUME NEW q \in Call, CountAdmins(q) \/ ReadFails(q) \/ ReadTarget(q) \/ WriteFails(q) \/ RevokeSessions(q)
      PROVE  LoginsCurrent'
  <2>1. UNCHANGED users
    BY <1>6 DEF CountAdmins, ReadFails, ReadTarget, WriteFails, RevokeSessions
  <2> QED
    BY <1>0, <1>6, <2>1, HandlersGo, LoginsKept
<1>7. ASSUME NEW q \in Call, UpdateRole(q) \/ DeleteUser(q) PROVE LoginsCurrent'
  <2>1. /\ calls[q] # Nobody /\ calls[q].kind # "login"
        /\ \A u \in User \ {calls[q].user} : users'[u] = users[u]
    BY <1>0, <1>7 DEF UpdateRole, DeleteUser, Serving, AccountsTypeOK
  <2>2. \A p \in Call : Serving(p, "login") /\ ~calls[p].crossed =>
          calls[p].user \in User \ {calls[q].user}
    BY <1>0, <2>1, CallForms DEF LoginsCurrent, Concerns, Serving
  <2> QED
    BY <1>0, <1>7, <2>1, <2>2, HandlersGo, LoginsKept
<1>8. CASE UNCHANGED <<users, calls>>
  BY <1>0, <1>8 DEF LoginsCurrent, Serving, Concerns
<1> QED
  BY <1>1, <1>2, <1>3, <1>4, <1>5, <1>6, <1>7, <1>8 DEF AccountsNext, Revoke, accountsVars

\* Steps after which no session is new and no deletion has reached its row.
LEMMA DeletesKept ==
  ASSUME AccountsInv,
         \A t \in Token : sessions'[t] # Nobody => sessions'[t] = sessions[t],
         \A p \in Call : Serving(p, "delete")' /\ calls'[p].step = "write" =>
           \/ Serving(p, "delete") /\ calls[p].step = "write" /\ calls'[p].user = calls[p].user
           \/ \A t \in Token : sessions'[t] # Nobody => sessions'[t].user # calls'[p].user
  PROVE  DeletesRevoked'
BY DEF AccountsInv, DeletesRevoked

LEMMA DeletesStay == AccountsInv /\ [AccountsNext]_accountsVars => DeletesRevoked'
<1> SUFFICES ASSUME AccountsInv, [AccountsNext]_accountsVars PROVE DeletesRevoked'
  OBVIOUS
<1>0. AccountsTypeOK /\ LoginsCurrent /\ DeletesRevoked
  BY DEF AccountsInv
<1>1. CASE Restart
  BY <1>1 DEF Restart, DeletesRevoked
<1>2. ASSUME NEW t \in Token, Revoke(t) PROVE DeletesRevoked'
  BY <1>0, <1>2, DeletesKept DEF Revoke, AccountsTypeOK, Serving
<1>3. ASSUME NEW q \in Call, NEW u \in User, LoginRead(q, u) PROVE DeletesRevoked'
  <2>1. UNCHANGED sessions /\ calls'[q].kind = "login" /\ \A p \in Call \ {q} : calls'[p] = calls[p]
    BY <1>0, <1>3 DEF LoginRead, AccountsTypeOK
  <2> QED
    BY <2>1, DeletesKept DEF Serving
<1>4. ASSUME NEW q \in Call, NEW t \in Token, LoginCreate(q, t) PROVE DeletesRevoked'
  <2> DEFINE s == [user |-> calls[q].user, role |-> calls[q].role, crossed |-> calls[q].crossed]
  <2>1. Serving(q, "login") /\ sessions' = [sessions EXCEPT ![t] = s]
    BY <1>4 DEF LoginCreate
  <2>2. s.user = calls[q].user /\ s.crossed = calls[q].crossed
    OBVIOUS
  <2> HIDE DEF s
  <2>3. sessions'[t] = s /\ \A r \in Token \ {t} : sessions'[r] = sessions[r]
    BY <1>0, <2>1 DEF AccountsTypeOK
  <2>4. calls'[q] = Nobody /\ \A p \in Call \ {q} : calls'[p] = calls[p]
    BY <1>0, <1>4, RespondGoes DEF LoginCreate
  <2>5. ASSUME NEW p \in Call, NEW r \in Token, Serving(p, "delete")', calls'[p].step = "write",
               sessions'[r] # Nobody, sessions'[r].user = calls'[p].user
        PROVE  sessions'[r].crossed
    <3>1. Serving(p, "delete") /\ calls'[p] = calls[p] /\ calls[p].kind = "delete"
      BY <2>4, <2>5 DEF Serving
    <3>2. CASE r = t
      <4>1. Concerns(p, calls[q].user) /\ ~Serving(p, "login")
        BY <2>2, <2>3, <2>5, <3>1, <3>2 DEF Concerns, Serving
      <4>2. calls[q].crossed \in BOOLEAN
        BY <1>0, <2>1, CallForms DEF Serving, Login
      <4> QED
        BY <1>0, <2>1, <2>2, <2>3, <3>2, <4>1, <4>2 DEF LoginsCurrent
    <3>3. CASE r # t
      BY <1>0, <2>3, <2>5, <3>1, <3>3 DEF DeletesRevoked
    <3> QED
      BY <3>2, <3>3
  <2> QED
    BY <2>5 DEF DeletesRevoked
<1>5. ASSUME NEW q \in Call, NEW u \in User, ArriveDelete(q, u) \/ \E r \in Role : ArriveRole(q, u, r)
      PROVE  DeletesRevoked'
  <2>1. PICK c \in Admin : /\ Arrive(q, c) /\ c.kind \in {"role", "delete"}
                           /\ c.kind = "delete" => c.step = "count"
    BY <1>5, ArriveForms
  <2>2. UNCHANGED sessions /\ calls'[q] = c
        /\ \A p \in Call \ {q} : calls'[p] = calls[p] \/ calls'[p].kind = "login"
    BY <1>0, <2>1, ArriveSteps
  <2> QED
    BY <2>1, <2>2, DeletesKept DEF Serving
<1>6. ASSUME NEW q \in Call, CountAdmins(q) \/ ReadFails(q) \/ ReadTarget(q) PROVE DeletesRevoked'
  <2>1. UNCHANGED sessions
    BY <1>6 DEF CountAdmins, ReadFails, ReadTarget
  <2>2. \A p \in Call \ {q} : calls'[p] = calls[p]
    BY <1>0, <1>6, CountAdvances, FailAdvances, TargetAdvances DEF Advance
  <2>3. Serving(q, "delete")' => calls'[q].step \in {"target", "revoke"}
    <3>1. Serving(q, "delete")' => calls[q].kind = "delete"
      BY <1>0, <1>6, HandlersGo DEF Goes, Serving
    <3>2. calls[q].kind = "delete" => Proceed(q) = "revoke"
      BY DEF Proceed
    <3> QED
      BY <1>0, <1>6, <3>1, <3>2, CountAdvances, FailAdvances, TargetAdvances DEF Advance, Serving
  <2> QED
    BY <2>1, <2>2, <2>3, DeletesKept DEF Serving
<1>7. ASSUME NEW q \in Call, WriteFails(q) PROVE DeletesRevoked'
  <2>1. UNCHANGED sessions /\ calls'[q] = Nobody /\ \A p \in Call \ {q} : calls'[p] = calls[p]
    BY <1>0, <1>7, RespondGoes DEF WriteFails
  <2> QED
    BY <2>1, DeletesKept DEF Serving
<1>8. ASSUME NEW q \in Call, RevokeSessions(q) PROVE DeletesRevoked'
  <2>1. \A t \in Token : sessions'[t] # Nobody => sessions'[t] = sessions[t] /\ sessions[t].user # calls[q].user
    BY <1>8 DEF RevokeSessions, RevokeByUser
  <2>2. \A p \in Call \ {q} : calls'[p] = calls[p]
    BY <1>0, <1>8, RevokeAdvances DEF Advance
  <2>3. calls'[q] # Nobody => calls'[q].user = calls[q].user
    BY <1>0, <1>8, HandlersGo DEF Goes
  <2> QED
    BY <2>1, <2>2, <2>3, DeletesKept DEF Serving
<1>9. ASSUME NEW q \in Call, UpdateRole(q) \/ DeleteUser(q) PROVE DeletesRevoked'
  <2>1. UNCHANGED sessions /\ \A p \in Call : Goes(p)
    BY <1>0, <1>9, HandlersGo DEF UpdateRole, DeleteUser
  <2>2. Serving(q, "delete")' => calls'[q].step # "write"
    <3>1. CASE UpdateRole(q)
      BY <1>0, <2>1, <3>1 DEF UpdateRole, Goes, Serving
    <3>2. CASE DeleteUser(q)
      BY <1>0, <3>2, WriteTells DEF DeleteUser, Serving
    <3> QED
      BY <1>9, <3>1, <3>2
  <2>3. \A p \in Call \ {q} : calls[p] # Nobody /\ calls[p].kind # "login" => calls'[p].step = calls[p].step
    BY <1>0, <1>9, UpdateTells, WriteTells DEF UpdateRole, DeleteUser
  <2>4. ASSUME NEW p \in Call, Serving(p, "delete")', calls'[p].step = "write"
        PROVE  Serving(p, "delete") /\ calls[p].step = "write" /\ calls'[p].user = calls[p].user
    BY <2>1, <2>2, <2>3, <2>4 DEF Goes, Serving
  <2> QED
    BY <2>1, <2>4, DeletesKept
<1>10. CASE UNCHANGED <<sessions, calls>>
  BY <1>0, <1>10 DEF DeletesRevoked, Serving
<1> QED
  BY <1>1, <1>2, <1>3, <1>4, <1>5, <1>6, <1>7, <1>8, <1>9, <1>10
  DEF AccountsNext, CreateUser, accountsVars

\* An update whose revocation is still to come.
Revokes(p, u) == Serving(p, "role") /\ Doing(p, "revoke") /\ Concerns(p, u)

\* Steps that make no session, and end no update before its revocation.
LEMMA SessionsKept ==
  ASSUME AccountsInv,
         \A t \in Token : sessions'[t] # Nobody =>
           /\ sessions'[t] = sessions[t]
           /\ \/ users'[sessions[t].user] = users[sessions[t].user]
              \/ sessions[t].crossed
              \/ \E p \in Call : Revokes(p, sessions[t].user)'
           /\ \A p \in Call : Revokes(p, sessions[t].user) => Revokes(p, sessions[t].user)'
  PROVE  StaleSessionsCrossed'
BY DEF AccountsInv, StaleSessionsCrossed, Revokes, Concerns

LEMMA SessionsStay == AccountsInv /\ [AccountsNext]_accountsVars => StaleSessionsCrossed'
<1> SUFFICES ASSUME AccountsInv, [AccountsNext]_accountsVars PROVE StaleSessionsCrossed'
  OBVIOUS
<1>0. AccountsTypeOK /\ Rows \subseteq known /\ LoginsCurrent /\ DeletesRevoked /\ StaleSessionsCrossed
  BY DEF AccountsInv
<1>a. ASSUME NEW t \in Token, sessions[t] # Nobody
      PROVE  sessions[t].user \in User /\ sessions[t].role \in Role
  BY <1>0, <1>a DEF AccountsTypeOK, Session
<1>1. CASE Restart
  BY <1>1 DEF Restart, StaleSessionsCrossed
<1>2. ASSUME NEW t \in Token, Revoke(t) PROVE StaleSessionsCrossed'
  BY <1>0, <1>2, SessionsKept DEF Revoke, AccountsTypeOK, Revokes, Serving, Doing, Concerns
<1>3. ASSUME NEW u \in User, NEW r \in Role, CreateUser(u, r) PROVE StaleSessionsCrossed'
  <2>1. UNCHANGED <<sessions, calls>> /\ users[u] = Nobody /\ users' = [users EXCEPT ![u] = r]
    BY <1>0, <1>3 DEF CreateUser, Rows
  <2>2. ASSUME NEW t \in Token, sessions[t] # Nobody
        PROVE  \/ users'[sessions[t].user] = users[sessions[t].user]
               \/ sessions[t].crossed
               \/ \E p \in Call : Revokes(p, sessions[t].user)'
    <3>1. CASE sessions[t].user # u
      BY <1>0, <1>a, <2>1, <2>2, <3>1 DEF AccountsTypeOK
    <3>2. CASE sessions[t].user = u
      <4>1. users[sessions[t].user] # sessions[t].role
        BY <1>a, <2>1, <2>2, <3>2, NobodyIsNone
      <4>2. sessions[t].crossed \/ \E p \in Call : Revokes(p, sessions[t].user)
        BY <1>0, <2>2, <4>1 DEF StaleSessionsCrossed, Revokes
      <4> QED
        BY <2>1, <4>2 DEF Revokes, Serving, Doing, Concerns
    <3> QED
      BY <3>1, <3>2
  <2> QED
    BY <2>1, <2>2, SessionsKept DEF Revokes, Serving, Doing, Concerns
<1>4. ASSUME NEW q \in Call, NEW u \in User, LoginRead(q, u) PROVE StaleSessionsCrossed'
  <2>1. UNCHANGED <<sessions, users>> /\ calls[q] = Nobody /\ \A p \in Call \ {q} : calls'[p] = calls[p]
    BY <1>0, <1>4 DEF LoginRead, AccountsTypeOK
  <2> QED
    BY <2>1, SessionsKept DEF Revokes, Serving, Doing, Concerns
<1>5. ASSUME NEW q \in Call, NEW t \in Token, LoginCreate(q, t) PROVE StaleSessionsCrossed'
  <2> DEFINE s == [user |-> calls[q].user, role |-> calls[q].role, crossed |-> calls[q].crossed]
  <2>1. Serving(q, "login") /\ sessions' = [sessions EXCEPT ![t] = s] /\ UNCHANGED users
    BY <1>5 DEF LoginCreate
  <2>2. s.user = calls[q].user /\ s.role = calls[q].role /\ s.crossed = calls[q].crossed
    OBVIOUS
  <2> HIDE DEF s
  <2>3. sessions'[t] = s /\ \A r \in Token \ {t} : sessions'[r] = sessions[r]
    BY <1>0, <2>1 DEF AccountsTypeOK
  <2>4. \A p \in Call \ {q} : calls'[p] = calls[p]
    BY <1>0, <1>5, RespondGoes DEF LoginCreate
  <2>5. \A p \in Call, u \in User : Revokes(p, u) => Revokes(p, u)'
    BY <2>1, <2>4 DEF Revokes, Serving, Doing, Concerns
  <2>6. users[s.user] = s.role \/ s.crossed
    BY <1>0, <2>1, <2>2 DEF LoginsCurrent
  <2>7. ASSUME NEW r \in Token, sessions'[r] # Nobody
        PROVE  \/ users[sessions'[r].user] = sessions'[r].role
               \/ sessions'[r].crossed
               \/ r # t /\ \E p \in Call : Revokes(p, sessions[r].user)'
    <3>1. CASE r = t
      BY <2>3, <2>6, <3>1
    <3>2. CASE r # t
      <4>1. sessions'[r] = sessions[r] /\ sessions[r] # Nobody /\ sessions[r].user \in User
        BY <1>a, <2>3, <2>7, <3>2
      <4> QED
        BY <1>0, <2>5, <3>2, <4>1 DEF StaleSessionsCrossed, Revokes
    <3> QED
      BY <3>1, <3>2
  <2>8. ASSUME NEW r \in Token, r # t, sessions'[r] # Nobody
        PROVE  sessions'[r] = sessions[r]
    BY <2>3, <2>8
  <2> QED
    BY <2>1, <2>7, <2>8 DEF StaleSessionsCrossed, Revokes, Concerns
<1>6. ASSUME NEW q \in Call, NEW u \in User, ArriveDelete(q, u) \/ \E r \in Role : ArriveRole(q, u, r)
      PROVE  StaleSessionsCrossed'
  <2>1. PICK c \in Admin : Arrive(q, c)
    BY <1>6, ArriveForms
  <2>2. UNCHANGED <<users, sessions>> /\ calls[q] = Nobody
        /\ \A p \in Call \ {q} : Serving(p, "login") \/ calls'[p] = calls[p]
    BY <1>0, <2>1, ArriveSteps
  <2>3. \A p \in Call, v \in User : Revokes(p, v) => Revokes(p, v)'
    BY <2>2 DEF Revokes, Serving, Doing, Concerns
  <2> QED
    BY <1>a, <2>2, <2>3, SessionsKept
<1>7. ASSUME NEW q \in Call, CountAdmins(q) \/ ReadFails(q) \/ ReadTarget(q) \/ WriteFails(q)
      PROVE  StaleSessionsCrossed'
  <2>1. UNCHANGED <<users, sessions>> /\ calls[q].step # "revoke"
    BY <1>7 DEF CountAdmins, ReadFails, ReadTarget, WriteFails, Doing
  <2>2. \A p \in Call \ {q} : calls'[p] = calls[p]
    BY <1>0, <1>7, CountAdvances, FailAdvances, TargetAdvances, RespondGoes DEF WriteFails, Advance
  <2>3. \A p \in Call, v \in User : Revokes(p, v) => Revokes(p, v)'
    BY <2>1, <2>2 DEF Revokes, Serving, Doing, Concerns
  <2> QED
    BY <1>a, <2>1, <2>3, SessionsKept
<1>8. ASSUME NEW q \in Call, RevokeSessions(q) PROVE StaleSessionsCrossed'
  <2>1. UNCHANGED users /\ \A p \in Call \ {q} : calls'[p] = calls[p]
    BY <1>0, <1>8, RevokeAdvances DEF RevokeSessions, Advance
  <2>2. \A t \in Token : sessions'[t] # Nobody => sessions'[t] = sessions[t] /\ sessions[t].user # calls[q].user
    BY <1>8 DEF RevokeSessions, RevokeByUser
  <2>3. \A p \in Call, v \in User : Revokes(p, v) /\ v # calls[q].user => Revokes(p, v)'
    BY <2>1 DEF Revokes, Serving, Doing, Concerns
  <2> QED
    BY <1>a, <2>1, <2>2, <2>3, SessionsKept
<1>9. ASSUME NEW q \in Call, UpdateRole(q) \/ DeleteUser(q) PROVE StaleSessionsCrossed'
  <2>1. /\ UNCHANGED sessions /\ Doing(q, "write") /\ calls[q] # Nobody /\ calls[q].step = "write"
        /\ \A u \in User \ {calls[q].user} : users'[u] = users[u]
    BY <1>0, <1>9 DEF UpdateRole, DeleteUser, Doing, Serving, AccountsTypeOK
  <2>2. \A p \in Call : Goes(p)
    BY <1>0, <1>9, HandlersGo
  <2>3. \A p \in Call \ {q} : /\ calls[p] # Nobody => calls'[p] # Nobody
                              /\ calls[p] # Nobody /\ calls[p].kind # "login" => calls'[p].step = calls[p].step
    BY <1>0, <1>9, UpdateTells, WriteTells DEF UpdateRole, DeleteUser
  <2>4. \A p \in Call, v \in User : Revokes(p, v) => Revokes(p, v)'
    BY <2>1, <2>2, <2>3 DEF Revokes, Serving, Doing, Concerns, Goes
  <2>5. CASE UpdateRole(q)
    <3>1. PICK next \in Admin :
            /\ next # Nobody /\ next.kind = calls[q].kind /\ next.user = calls[q].user
            /\ next.role = calls[q].role /\ next.step = "revoke" /\ Written(q, next)
      BY <1>0, <2>5, UpdateTells
    <3>2. calls'[q] = next
      BY <1>0, <2>1, <3>1, WriteTells
    <3>3. calls[q].kind = "role" /\ calls[q].user \in User
      BY <1>0, <2>1, <2>5, CallForms DEF UpdateRole, Serving
    <3>4. \E u \in User : u = calls[q].user /\ Revokes(q, u)'
      BY <3>1, <3>2, <3>3 DEF Revokes, Serving, Doing, Concerns
    <3> QED
      BY <1>a, <2>1, <2>4, <3>4, SessionsKept
  <2>6. CASE DeleteUser(q)
    <3>1. \A t \in Token : sessions[t] # Nobody /\ sessions[t].user = calls[q].user => sessions[t].crossed
      BY <1>0, <2>1, <2>6 DEF DeletesRevoked, DeleteUser
    <3> QED
      BY <1>a, <2>1, <2>4, <3>1, SessionsKept
  <2> QED
    BY <1>9, <2>5, <2>6
<1>10. CASE UNCHANGED <<users, sessions, calls>>
  BY <1>0, <1>10 DEF StaleSessionsCrossed, Serving, Doing, Concerns
<1> QED
  BY <1>1, <1>2, <1>3, <1>4, <1>5, <1>6, <1>7, <1>8, <1>9, <1>10 DEF AccountsNext, accountsVars

LEMMA AccountsInductive == AccountsSpec => []AccountsInv
<1>1. AccountsInit => AccountsInv
  <2> SUFFICES ASSUME AccountsInit PROVE AccountsInv
    OBVIOUS
  <2>1. PICK u \in User : known = {u} /\ users = [v \in User |-> IF v = u THEN "admin" ELSE Nobody]
    BY DEF AccountsInit
  <2>2. /\ sessions = [t \in Token |-> Nobody] /\ calls = [q \in Call |-> Nobody]
        /\ blindfold = FALSE
    BY DEF AccountsInit
  <2>3. AccountsTypeOK
    BY <2>1, <2>2, AccountsAssumption DEF AccountsTypeOK, AccountsAssumption
  <2>4. IsFiniteSet(known) /\ Rows \subseteq known /\ Admins # {}
    BY <2>1, FS_Singleton DEF Rows, Admins
  <2>5. AdminRemains /\ LoginsCurrent /\ DeletesRevoked /\ StaleSessionsCrossed
    BY <2>2, <2>4 DEF AdminRemains, Guarded, LoginsCurrent, DeletesRevoked, StaleSessionsCrossed, Serving
  <2> QED
    BY <2>3, <2>4, <2>5 DEF AccountsInv
<1>2. AccountsInv /\ [AccountsNext]_accountsVars => AccountsInv'
  <2>1. AccountsInv /\ [AccountsNext]_accountsVars => AccountsTypeOK'
    BY AccountsTypesStay DEF AccountsInv
  <2> QED
    BY <2>1, RowsStay, AdminsStay, LoginsStay, DeletesStay, SessionsStay DEF AccountsInv
<1> QED
  BY <1>1, <1>2, PTL DEF AccountsSpec

\* The last admin goes only on an old count or a failed one, however many requests race
\* (api/users.go:214-224, 253-264).
THEOREM AnAdminStays == AccountsSpec => []LastAdminStays
<1>1. AccountsInv => LastAdminStays
  BY DEF AccountsInv, AdminRemains, Admins, LastAdminStays
<1> QED
  BY <1>1, AccountsInductive, PTL

\* A session with a role its user no longer has was made by a login that a change of the
\* user crossed, or is about to be revoked (api/users.go:228).
THEOREM RolesTakeEffect == AccountsSpec => []StaleSessionsCrossed
<1>1. AccountsInv => StaleSessionsCrossed
  BY DEF AccountsInv
<1> QED
  BY <1>1, AccountsInductive, PTL

(***************************************************************************)
(* All of them beside each other.                                          *)
(***************************************************************************)

\* What a part does beside the others it can do alone, so that whatever is proved of
\* one holds while all of them run.
THEOREM PartsKeepTheirSpecs ==
  ServicesSpec => /\ AccountsSpec /\ EnrollmentSpec /\ ScheduleSpec
                  /\ MigrationsSpec /\ UpdaterSpec /\ RateSpec
<1>1. ServicesInit => /\ AccountsInit /\ EnrollmentInit /\ ScheduleInit
                      /\ MigrationsInit /\ UpdaterInit /\ RateInit
  BY DEF ServicesInit
<1>2. [ServicesNext]_servicesVars =>
        /\ [AccountsNext]_accountsVars /\ [EnrollmentNext]_enrollmentVars
        /\ [ScheduleNext]_scheduleVars /\ [MigrationsNext]_migrationVars
        /\ [UpdaterNext]_updaterVars /\ [RateNext]_rateVars
  BY DEF ServicesNext, servicesVars, AccountsStep, EnrollmentStep, ScheduleStep, MigrationsStep,
         UpdaterStep, RateStep
<1> QED
  BY <1>1, <1>2, PTL DEF ServicesSpec, AccountsSpec, EnrollmentSpec, ScheduleSpec,
                         MigrationsSpec, UpdaterSpec, RateSpec

\* Rows, tokens, entries, recorded versions, files and buckets keep to their types, in any
\* number of each.
THEOREM ServicesTypes == ServicesSpec => []TypeOK
<1>1. /\ AccountsInv => AccountsTypeOK
      /\ EnrollmentInv => EnrollmentTypeOK
      /\ ScheduleInv => ScheduleTypeOK
      /\ MigrationInv => MigrationsTypeOK
      /\ UpdaterInv => UpdaterTypeOK
      /\ RateInv => RateTypeOK
  BY DEF AccountsInv, EnrollmentInv, ScheduleInv, MigrationInv, UpdaterInv, RateInv
<1>2. (/\ AccountsTypeOK /\ EnrollmentTypeOK /\ ScheduleTypeOK
       /\ MigrationsTypeOK /\ UpdaterTypeOK /\ RateTypeOK) => TypeOK
  BY DEF TypeOK
<1> QED
  BY <1>1, <1>2, PartsKeepTheirSpecs, AccountsInductive, EnrollmentInductive, ScheduleInductive,
     MigrationInductive, UpdaterInductive, RateInductive, PTL

=============================================================================
