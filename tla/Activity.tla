------------------------------ MODULE Activity ------------------------------
(***************************************************************************)
(* The activity chart, GET /v1/health/activity: backups, failures and      *)
(* restore tests per hour, day or week.  The handler lays out the buckets  *)
(* by calendar arithmetic and puts each row into the bucket its rounded    *)
(* creation time names; a row whose rounded time names none is not shown.  *)
(*                                                                         *)
(* Time is counted in hours from a Sunday, 0:00 UTC, and an instant within *)
(* an hour is not told from its beginning.                                 *)
(***************************************************************************)
EXTENDS Integers, FiniteSets

CONSTANTS
  HoursPerDay,
  MaxHour,     \* bound: when the clock stops
  MaxRows,     \* bound: rows that are created
  Queries      \* pairs <<parameter, number>> that are asked

VARIABLES
  hour,   \* the present hour
  rows    \* rows of backup_jobs and restore_tests with the hour of created_at

ASSUME ActivityAssumption ==
  HoursPerDay \in Nat \ {0} /\ Queries \subseteq {"hours", "days", "weeks"} \X Int

activityVars == <<hour, rows>>

Kind == {"backup", "failure", "retention", "restore test"}

(***************************************************************************)
(* The query and the buckets.                                              *)
(***************************************************************************)

\* A number out of range leaves the default in place.
Chosen(query) ==
  LET limit == CASE query[1] = "days" -> 365 [] query[1] = "weeks" -> 52 [] OTHER -> 48 IN
  IF query[2] \in 1 .. limit THEN query ELSE <<"hours", 24>>

Day(t) == t - (t % HoursPerDay)

\* Sunday is the last day of its week.
Weekday(day) == LET w == (day \div HoursPerDay) % 7 IN IF w = 0 THEN 7 ELSE w

\* Variant: Sunday opens the week that follows.
WeekFromSunday(t) == Day(t) - HoursPerDay * ((Day(t) \div HoursPerDay) % 7)

Week(t) == Day(t) - HoursPerDay * (Weekday(Day(t)) - 1)

BucketSize(mode) ==
  CASE mode = "hours" -> 1 [] mode = "days" -> HoursPerDay [] mode = "weeks" -> 7 * HoursPerDay

\* The bucket an instant is rounded to, and the last one, which the handler computes
\* from the present with statements of its own.
BucketOf(mode, t) == CASE mode = "hours" -> t [] mode = "days" -> Day(t) [] mode = "weeks" -> Week(t)

LastBucket(mode) ==
  CASE mode = "hours" -> hour
    [] mode = "days" -> Day(hour)
    [] mode = "weeks" -> Day(hour) - HoursPerDay * (Weekday(Day(hour)) - 1)

Buckets(mode, n) == {LastBucket(mode) - i * BucketSize(mode) : i \in 0 .. n - 1}

\* What the bar of a bucket shows.  Retention jobs are left out; a job that has not
\* failed is a backup.
Bar(mode, n, b, kind) ==
  IF b \in Buckets(mode, n) /\ kind # "retention"
  THEN Cardinality({r \in rows : r.kind = kind /\ BucketOf(mode, r.created) = b})
  ELSE 0

(***************************************************************************)
(* The clock and the rows.                                                 *)
(***************************************************************************)

ActivityInit == hour \in 0 .. 7 * HoursPerDay /\ rows = {}

HourPasses == hour < MaxHour /\ hour' = hour + 1 /\ UNCHANGED rows

CreateRow(kind) ==
  /\ Cardinality(rows) < MaxRows
  /\ rows' = rows \union {[kind |-> kind, created |-> hour, id |-> Cardinality(rows)]}
  /\ UNCHANGED hour

ActivityNext == HourPasses \/ \E kind \in Kind : CreateRow(kind)

ActivitySpec == ActivityInit /\ [][ActivityNext]_activityVars

(***************************************************************************)
(* The property.                                                           *)
(***************************************************************************)

\* The chart is a histogram: its bars are as far apart as they are wide, the last one
\* holds the present, and each shows the rows of its own hours and no others, on every
\* day of the week (health_activity.go:133).
ChartIsHistogram ==
  \A query \in Queries :
    LET mode == Chosen(query)[1]
        n    == Chosen(query)[2]
        size == BucketSize(mode)
        last == LastBucket(mode) IN
    /\ last <= hour /\ hour < last + size
    /\ \A i \in 0 .. n - 1, kind \in Kind \ {"retention"} :
         LET b == last - i * size IN
         Bar(mode, n, b, kind) =
           Cardinality({r \in rows : r.kind = kind /\ b <= r.created /\ r.created < b + size})
=============================================================================
