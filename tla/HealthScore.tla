---------------------------- MODULE HealthScore ----------------------------
(***************************************************************************)
(* The backup health score (internal/health): a number from 0 to 100, its  *)
(* label, the deductions that explain it and the alerts made from them, as *)
(* operators on the counts that the handlers collect.                      *)
(*                                                                         *)
(* Of a point in time only its class is kept: "never" for a missing one,   *)
(* "fresh" within the limit that is asked for, "old" beyond it.            *)
(***************************************************************************)
EXTENDS Integers

Age == {"never", "fresh", "old"}

Input == [systems : Nat, idle : Nat, offline : Nat,
          jobs : Nat, failed : Nat, failedLast24h : Nat, lastSuccess : Age,
          snapshots : Nat, verified : Nat, lastRestoreTest : Age,
          repos : Nat, unprotected : Nat, unencrypted : Nat, retention : Nat]

(***************************************************************************)
(* One operator per section of Calculate: the points it takes away.        *)
(***************************************************************************)

\* Variant: one tested snapshot is enough.
CoverageByOne(in) == IF in.snapshots > 0 /\ in.verified = 0 THEN 30 ELSE 0

Coverage(in) ==
  IF in.snapshots = 0 THEN 0
  ELSE IF in.verified = 0 THEN 30 ELSE IF in.verified < in.snapshots THEN 15 ELSE 0

\* Variant: an old test is worth no more than an untested snapshot.
TestFreshnessSevere(in) ==
  IF in.snapshots > 0 /\ in.verified > 0 /\ in.lastRestoreTest # "fresh" THEN 20 ELSE 0

TestFreshness(in) ==
  IF in.snapshots > 0 /\ in.verified > 0 /\ in.lastRestoreTest # "fresh" THEN 10 ELSE 0

BackupFreshness(in) ==
  IF in.systems = 0 THEN 0
  ELSE IF in.lastSuccess = "never" THEN 20 ELSE IF in.lastSuccess = "old" THEN 15 ELSE 0

RecentFailures(in) == IF in.failedLast24h > 0 THEN 20 ELSE 0

\* More than 20 % of the jobs that ended.
FailureRate(in) == IF in.jobs > 0 /\ 5 * in.failed > in.jobs THEN 10 ELSE 0

Connectivity(in) ==
  IF in.systems = 0 THEN 0 ELSE IF in.offline > 0 THEN 10 ELSE IF in.idle > 0 THEN 5 ELSE 0

Protection(in) == IF in.repos > 0 /\ in.unprotected > 0 THEN 10 ELSE 0
Encryption(in) == IF in.repos > 0 /\ in.unencrypted > 0 THEN 5 ELSE 0
Retained(in)   == IF in.systems > 0 /\ in.retention = 0 THEN 5 ELSE 0

Deducted(in) ==
  Coverage(in) + TestFreshness(in) + BackupFreshness(in) + RecentFailures(in) + FailureRate(in)
    + Connectivity(in) + Protection(in) + Encryption(in) + Retained(in)

\* Variant: without the floor.
ScoreUnclamped(in) == 100 - Deducted(in)

Score(in) == IF Deducted(in) > 100 THEN 0 ELSE 100 - Deducted(in)

Classify(score) ==
  CASE score >= 90 -> "Excellent"
    [] score >= 75 /\ score < 90 -> "Good"
    [] score >= 55 /\ score < 75 -> "Fair"
    [] OTHER -> "At Risk"

(***************************************************************************)
(* The alerts: one for every deduction.                                    *)
(***************************************************************************)

Deductions(in) ==
  {d \in {<<IF Coverage(in) = 30 THEN "no_restore_tests" ELSE "partial_restore_coverage", Coverage(in)>>,
          <<"restore_test_stale", TestFreshness(in)>>,
          <<IF BackupFreshness(in) = 20 THEN "no_successful_backup" ELSE "backup_stale_24h", BackupFreshness(in)>>,
          <<"failed_jobs_24h", RecentFailures(in)>>,
          <<"high_failure_rate", FailureRate(in)>>,
          <<IF Connectivity(in) = 10 THEN "agents_offline" ELSE "agents_idle", Connectivity(in)>>,
          <<"repos_not_immutable", Protection(in)>>,
          <<"repos_not_encrypted", Encryption(in)>>,
          <<"no_retention_policy", Retained(in)>>} : d[2] > 0}

Severity(code) ==
  CASE code \in {"no_restore_tests", "no_successful_backup", "agents_offline"} -> "critical"
    [] code \in {"agents_idle", "no_retention_policy"} -> "info"
    [] OTHER -> "warning"

Alerts(in, severity) == {d[1] : d \in {e \in Deductions(in) : Severity(e[1]) = severity}}
=============================================================================
