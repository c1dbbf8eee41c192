--------------------------- MODULE PostureProofs ---------------------------
(***************************************************************************)
(* The health score, for any number of systems, repositories, policies,    *)
(* jobs and tests: the catalog is well typed, a good label is earned, no   *)
(* declaration earns a point, the two readers agree on backups, no         *)
(* snapshot is missing from the dashboard, and the score follows events.   *)
(* The activity chart, which shares nothing with them, is a histogram.     *)
(***************************************************************************)
EXTENDS Posture, Activity, FiniteSetTheorems, TLAPS

USE PostureAssumption DEF PostureAssumption

(***************************************************************************)
(* The score, for any counts.                                              *)
(***************************************************************************)

\* What each section can take away.
LEMMA SectionValues ==
  ASSUME NEW in
  PROVE  /\ Coverage(in) \in {0, 15, 30} /\ TestFreshness(in) \in {0, 10}
         /\ BackupFreshness(in) \in {0, 15, 20} /\ RecentFailures(in) \in {0, 20}
         /\ FailureRate(in) \in {0, 10} /\ Connectivity(in) \in {0, 5, 10}
         /\ Protection(in) \in {0, 10} /\ Encryption(in) \in {0, 5} /\ Retained(in) \in {0, 5}
BY DEF Coverage, TestFreshness, BackupFreshness, RecentFailures, FailureRate, Connectivity,
       Protection, Encryption, Retained

LEMMA DeductedType ==
  ASSUME NEW in
  PROVE  Deducted(in) \in Nat
BY SectionValues DEF Deducted

LEMMA ScoreType ==
  ASSUME NEW in
  PROVE  Score(in) \in 0 .. 100
BY DeductedType DEF Score

LEMMA ScoreFalls ==
  ASSUME NEW a, NEW b, Deducted(a) <= Deducted(b)
  PROVE  Score(b) <= Score(a)
BY DeductedType DEF Score

\* "Good" leaves no room for a section that takes away more than 10 points.
LEMMA GoodScore ==
  ASSUME NEW in, Classify(Score(in)) \in {"Excellent", "Good"}
  PROVE  Deducted(in) <= 25
<1>1. Score(in) >= 75
  BY ScoreType DEF Classify
<1> QED
  BY <1>1, DeductedType DEF Score

(***************************************************************************)
(* The counts.                                                             *)
(***************************************************************************)

LEMMA NewestType ==
  ASSUME NEW ages
  PROVE  Newest(ages) \in Age
BY DEF Newest, Age

LEMMA CountType ==
  ASSUME NEW S, IsFiniteSet(S), NEW T \in SUBSET S
  PROVE  IsFiniteSet(T) /\ Cardinality(T) \in Nat /\ Cardinality(T) <= Cardinality(S)
         /\ (Cardinality(T) = 0 <=> T = {})
BY FS_Subset, FS_EmptySet, FS_CardinalityType

\* A set that gains an element grows by one or not at all.
LEMMA OneMore ==
  ASSUME NEW S, NEW x, IsFiniteSet(S)
  PROVE  /\ IsFiniteSet(S \union {x})
         /\ Cardinality(S \union {x}) \in {Cardinality(S), Cardinality(S) + 1}
BY FS_AddElement

LEMMA CountedAll ==
  ASSUME NEW S, IsFiniteSet(S), NEW T \in SUBSET S, Cardinality(T) >= Cardinality(S)
  PROVE  T = S
BY FS_Subset, CountType

\* The snapshots that have passed a test, and the times of the tests.
Tested  == {j \in Snapshots : \E t \in Passed : tests[t].snap = j}
Failed  == Of("backup", "failed")
Backups == Of("backup", "success") \union Failed

\* The fields of what GET /v1/health/score collects.
Counted ==
  /\ ApiInput.systems = Cardinality(Systems)
  /\ ApiInput.idle = Cardinality({s \in System : seen[s] = "idle"})
  /\ ApiInput.offline = Cardinality({s \in System : seen[s] \in {"never", "long"}})
  /\ ApiInput.jobs = Cardinality(Backups)
  /\ ApiInput.failed = Cardinality(Failed)
  /\ ApiInput.failedLast24h = Cardinality({j \in Failed : jobs[j].created = "fresh"})
  /\ ApiInput.lastSuccess = Newest({jobs[j].finished : j \in Of("backup", "success")})
  /\ ApiInput.snapshots = Cardinality(Snapshots)
  /\ ApiInput.verified = Cardinality(Tested)
  /\ ApiInput.lastRestoreTest = Newest({tests[t].finished : t \in Passed})
  /\ ApiInput.repos = Cardinality(Repos)
  /\ ApiInput.unprotected = Cardinality({r \in Repos : repos[r].immutability # "VERIFIED"})
  /\ ApiInput.unencrypted = Cardinality({r \in Repos : repos[r].encryption # "VERIFIED"})
  /\ ApiInput.retention = Cardinality({p \in Policies : policies[p].rules})

LEMMA ApiCounts == Counted
BY DEF Counted, ApiInput, Counting, CountVerifiedSnapshots, Tested, Failed, Backups

LEMMA ApiInputType == ApiInput \in Input
<1>1. /\ Systems \in SUBSET System
      /\ {s \in System : seen[s] = "idle"} \in SUBSET System
      /\ {s \in System : seen[s] \in {"never", "long"}} \in SUBSET System
  BY DEF Systems
<1>2. /\ Backups \in SUBSET Job /\ Failed \in SUBSET Job
      /\ {j \in Failed : jobs[j].created = "fresh"} \in SUBSET Job
      /\ Snapshots \in SUBSET Job /\ Tested \in SUBSET Job
  BY DEF Backups, Failed, Of, Ended, Snapshots, Tested
<1>3. /\ Repos \in SUBSET Repo
      /\ {r \in Repos : repos[r].immutability # "VERIFIED"} \in SUBSET Repo
      /\ {r \in Repos : repos[r].encryption # "VERIFIED"} \in SUBSET Repo
      /\ {p \in Policies : policies[p].rules} \in SUBSET Policy
  BY DEF Repos, Policies
<1>4. /\ ApiInput.systems \in Nat /\ ApiInput.idle \in Nat /\ ApiInput.offline \in Nat
      /\ ApiInput.jobs \in Nat /\ ApiInput.failed \in Nat /\ ApiInput.failedLast24h \in Nat
      /\ ApiInput.snapshots \in Nat /\ ApiInput.verified \in Nat
      /\ ApiInput.repos \in Nat /\ ApiInput.unprotected \in Nat /\ ApiInput.unencrypted \in Nat
      /\ ApiInput.retention \in Nat
  BY <1>1, <1>2, <1>3, CountType, ApiCounts DEF Counted
<1>5. ApiInput.lastSuccess \in Age /\ ApiInput.lastRestoreTest \in Age
  BY NewestType, ApiCounts DEF Counted
<1> QED
  BY <1>4, <1>5 DEF ApiInput, Counting, Input

LEMMA CollectorInputType ==
  ASSUME tests \in [Test -> TestRow \union {NoRow}]
  PROVE  CollectorInput \in Input
<1> DEFINE failed == {j \in Ended : jobs[j].status = "failed"}
<1>1. /\ Systems \in SUBSET System
      /\ {s \in System : seen[s] = "idle"} \in SUBSET System
      /\ {s \in System : seen[s] \in {"never", "long"}} \in SUBSET System
  BY DEF Systems
<1>2. /\ failed \in SUBSET Job /\ Ended \in SUBSET Job
      /\ {j \in failed : jobs[j].created = "fresh"} \in SUBSET Job
      /\ Snapshots \in SUBSET Job
      /\ {tests[t].snap : t \in {u \in Passed : tests[u].snap \in Snapshots}} \in SUBSET Job
  BY DEF Ended, Snapshots
<1>3. /\ Repos \in SUBSET Repo
      /\ {r \in Repos : repos[r].immutability # "VERIFIED"} \in SUBSET Repo
      /\ {r \in Repos : repos[r].encryption # "VERIFIED"} \in SUBSET Repo
      /\ {p \in Policies : policies[p].rules} \in SUBSET Policy
  BY DEF Repos, Policies
<1>4. /\ Cardinality(Systems) \in Nat
      /\ Cardinality({s \in System : seen[s] = "idle"}) \in Nat
      /\ Cardinality({s \in System : seen[s] \in {"never", "long"}}) \in Nat
      /\ Cardinality(failed) \in Nat /\ Cardinality(Ended) \in Nat
      /\ Cardinality({j \in failed : jobs[j].created = "fresh"}) \in Nat
      /\ Cardinality(Snapshots) \in Nat /\ CountDedup \in Nat
      /\ Cardinality(Repos) \in Nat
      /\ Cardinality({r \in Repos : repos[r].immutability # "VERIFIED"}) \in Nat
      /\ Cardinality({r \in Repos : repos[r].encryption # "VERIFIED"}) \in Nat
      /\ Cardinality({p \in Policies : policies[p].rules}) \in Nat
  BY <1>1, <1>2, <1>3, CountType DEF CountDedup
<1> QED
  BY <1>4, NewestType DEF CollectorInput, Counting, Input

(***************************************************************************)
(* The invariant: the rows, what no write ever verifies, and the foreign   *)
(* keys of policies and snapshots.                                         *)
(***************************************************************************)

RowTypes ==
  /\ seen \in [System -> Seen] /\ repos \in [Repo -> RepoRow \union {NoRow}]
  /\ policies \in [Policy -> PolicyRow \union {NoRow}]
  /\ jobs \in [Job -> JobRow \union {NoRow}] /\ snaps \in [Job -> Repo \union {NoRepo}]
  /\ tests \in [Test -> TestRow \union {NoRow}]

Unverified ==
  \A r \in Repos : repos[r].immutability # "VERIFIED" /\ repos[r].encryption # "VERIFIED"

PointsToRows ==
  /\ \A p \in Policies : policies[p].repo \in Repos \union {NoRepo}
  /\ \A j \in Snapshots : snaps[j] \in Repos

PostureInv == RowTypes /\ Unverified /\ PointsToRows

LEMMA InitInv == Init => PostureInv
BY DEF Init, PostureInv, RowTypes, Unverified, PointsToRows, Repos, Policies, Snapshots, Seen

LEMMA CatalogKeepsTypes == RowTypes /\ CatalogNext => RowTypes'
<1> SUFFICES ASSUME RowTypes, CatalogNext PROVE RowTypes'
  OBVIOUS
<1> USE DEF RowTypes
<1>1. ASSUME NEW e \in BOOLEAN, NEW i \in BOOLEAN PROVE DeclaredPosture(e, i) \in RepoRow
  BY DEF DeclaredPosture, RepoRow, Provenance
<1>2. CASE \E s \in System : CreateSystem(s) \/ DeleteSystem(s)
  BY <1>2 DEF CreateSystem, DeleteSystem, Seen
<1>3. CASE \E s \in System, to \in {"never", "online", "long"} : UpdateSystem(s, to)
  BY <1>3 DEF UpdateSystem, Seen
<1>4. CASE \E r \in Repo, e, i \in BOOLEAN : CreateRepository(r, e, i) \/ UpdateRepository(r, e, i)
  BY <1>1, <1>4 DEF CreateRepository, UpdateRepository
<1>5. CASE \E r \in Repo : DeleteRepository(r)
  BY <1>5 DEF DeleteRepository
<1>6. CASE \E p \in Policy, row \in PolicyRow : WritePolicy(p, row)
  BY <1>6 DEF WritePolicy
<1>7. CASE \E p \in Policy : DeletePolicy(p)
  BY <1>7 DEF DeletePolicy
<1> QED
  BY <1>2, <1>3, <1>4, <1>5, <1>6, <1>7 DEF CatalogNext

LEMMA WorkKeepsTypes == RowTypes /\ WorkNext => RowTypes'
<1> SUFFICES ASSUME RowTypes, WorkNext PROVE RowTypes'
  OBVIOUS
<1> USE DEF RowTypes
<1>1. CASE \E s \in System : Heartbeat(s)
  BY <1>1 DEF Heartbeat, Seen
<1>2. CASE \E j \in Job, type \in {"backup", "retention"}, status \in {"success", "failed"},
             created \in Age \ {"never"}, finished \in Age : JobEnds(j, type, status, created, finished)
  BY <1>2 DEF JobEnds, JobRow
<1>3. CASE \E j \in Job, status \in {"success", "failed"} : EditJob(j, status)
  <2>1. PICK j \in Job, status \in {"success", "failed"} : EditJob(j, status)
    BY <1>3
  <2>2. jobs[j] \in JobRow
    BY <2>1 DEF EditJob, Ended
  <2>3. [jobs[j] EXCEPT !.status = status] \in JobRow
    BY <2>2 DEF JobRow
  <2> QED
    BY <2>1, <2>3 DEF EditJob
<1>4. CASE \E j \in Job : CreateSnapshot(j) \/ DeleteSnapshot(j) \/ DeleteJob(j)
  <2>1. PICK j \in Job : CreateSnapshot(j) \/ DeleteSnapshot(j) \/ DeleteJob(j)
    BY <1>4
  <2>2. CASE CreateSnapshot(j)
    <3>1. policies[PolicyOf[j]] \in PolicyRow
      BY <2>2 DEF CreateSnapshot, Policies
    <3> QED
      BY <2>2, <3>1 DEF CreateSnapshot, PolicyRow
  <2>3. CASE DeleteSnapshot(j)
    BY <2>3 DEF DeleteSnapshot
  <2>4. CASE DeleteJob(j)
    BY <2>4 DEF DeleteJob
  <2> QED
    BY <2>1, <2>2, <2>3, <2>4
<1>5. CASE \E t \in Test, j \in Job : CompleteAgentRestoreTest(t, j) \/ CompleteRestoreTest(t, j)
  BY <1>5 DEF CompleteAgentRestoreTest, CompleteRestoreTest, TestRow, Age
<1>6. CASE \E t \in Test : LoseRestoreTest(t)
  BY <1>6 DEF LoseRestoreTest
<1> QED
  BY <1>1, <1>2, <1>3, <1>4, <1>5, <1>6 DEF WorkNext

LEMMA TimeKeepsTypes == RowTypes /\ TimeNext => RowTypes'
<1> SUFFICES ASSUME RowTypes, TimeNext PROVE RowTypes'
  OBVIOUS
<1> USE DEF RowTypes
<1>1. ASSUME MinutesPass PROVE RowTypes'
  BY <1>1 DEF MinutesPass, Seen
<1>2. ASSUME DayPasses, tests' \in [Test -> TestRow \union {NoRow}] PROVE RowTypes'
  <2>1. seen' \in [System -> Seen]
    BY <1>2 DEF DayPasses, Seen
  <2>2. ASSUME NEW j \in Job PROVE jobs'[j] \in JobRow \union {NoRow}
    <3>1. CASE j \in Ended
      <4>1. jobs[j] \in JobRow
        BY <3>1 DEF Ended
      <4>2. Aged(jobs[j].finished) \in Age
        BY <4>1 DEF JobRow, Aged, Age
      <4>3. [jobs[j] EXCEPT !.created = "old", !.finished = Aged(@)] \in JobRow
        BY <4>1, <4>2 DEF JobRow, Age
      <4> QED
        BY <1>2, <3>1, <4>3 DEF DayPasses
    <3> QED
      BY <1>2, <3>1 DEF DayPasses
  <2> QED
    BY <1>2, <2>1, <2>2 DEF DayPasses
<1>3. ASSUME MonthPasses PROVE RowTypes'
  <2>1. ASSUME NEW t \in Test PROVE tests'[t] \in TestRow \union {NoRow}
    <3>1. CASE t \in Passed
      <4>1. tests[t] \in TestRow
        BY <3>1 DEF Passed
      <4>2. Aged(tests[t].finished) \in Age
        BY <4>1 DEF TestRow, Aged, Age
      <4>3. [tests[t] EXCEPT !.finished = Aged(@), !.ended = "old"] \in TestRow
        BY <4>1, <4>2 DEF TestRow, Age
      <4> QED
        BY <1>3, <3>1, <4>3 DEF MonthPasses
    <3> QED
      BY <1>3, <3>1 DEF MonthPasses
  <2>2. tests' \in [Test -> TestRow \union {NoRow}]
    BY <1>3, <2>1 DEF MonthPasses
  <2> QED
    BY <1>2, <1>3, <2>2 DEF MonthPasses
<1> QED
  BY <1>1, <1>2, <1>3 DEF TimeNext

\* Only three actions write what the rest of the invariant speaks of.
LEMMA OthersKeepRows ==
  ASSUME PostureInv, UNCHANGED <<repos, policies, snaps>>
  PROVE  Unverified' /\ PointsToRows'
BY DEF PostureInv, Unverified, PointsToRows, Repos, Policies, Snapshots

LEMMA CatalogKeepsRows == PostureInv /\ CatalogNext => Unverified' /\ PointsToRows'
<1> SUFFICES ASSUME PostureInv, CatalogNext PROVE Unverified' /\ PointsToRows'
  OBVIOUS
<1> USE DEF PostureInv
<1>1. CASE \E s \in System : CreateSystem(s) \/ DeleteSystem(s)
  BY <1>1, OthersKeepRows DEF CreateSystem, DeleteSystem
<1>2. CASE \E s \in System, to \in {"never", "online", "long"} : UpdateSystem(s, to)
  BY <1>2, OthersKeepRows DEF UpdateSystem
<1>3. CASE \E r \in Repo, e, i \in BOOLEAN : CreateRepository(r, e, i) \/ UpdateRepository(r, e, i)
  <2>1. PICK r \in Repo, e \in BOOLEAN, i \in BOOLEAN :
          CreateRepository(r, e, i) \/ UpdateRepository(r, e, i)
    BY <1>3
  <2> DEFINE row == DeclaredPosture(e, i)
  <2>2. row \in RepoRow /\ row # NoRow /\ row.immutability # "VERIFIED" /\ row.encryption # "VERIFIED"
    BY DEF DeclaredPosture, RepoRow, Provenance
  <2>3. repos' = [repos EXCEPT ![r] = row] /\ UNCHANGED <<policies, snaps>>
    BY <2>1 DEF CreateRepository, UpdateRepository
  <2> HIDE DEF row
  <2>4. Repos' = Repos \union {r}
    BY <2>2, <2>3 DEF Repos, RowTypes
  <2>5. Unverified'
    BY <2>2, <2>3, <2>4 DEF Unverified, Repos, RowTypes
  <2>6. PointsToRows'
    BY <2>3, <2>4 DEF PointsToRows, Policies, Snapshots
  <2> QED
    BY <2>5, <2>6
<1>4. CASE \E r \in Repo : DeleteRepository(r)
  <2>1. PICK r \in Repo : DeleteRepository(r)
    BY <1>4
  <2>2. Repos' = Repos \ {r}
    BY <2>1 DEF DeleteRepository, Repos, RowTypes
  <2>3. Unverified'
    BY <2>1, <2>2 DEF DeleteRepository, Unverified, Repos, RowTypes
  <2>4. PointsToRows'
    BY <2>1, <2>2 DEF DeleteRepository, PointsToRows, Policies, Snapshots
  <2> QED
    BY <2>3, <2>4
<1>5. CASE \E p \in Policy, row \in PolicyRow : WritePolicy(p, row)
  <2>1. PICK p \in Policy, row \in PolicyRow : WritePolicy(p, row)
    BY <1>5
  <2>2. Unverified'
    BY <2>1 DEF WritePolicy, Unverified, Repos
  <2>3. PointsToRows'
    BY <2>1 DEF WritePolicy, PointsToRows, Policies, Snapshots, Repos, RowTypes
  <2> QED
    BY <2>2, <2>3
<1>6. CASE \E p \in Policy : DeletePolicy(p)
  <2>1. PICK p \in Policy : DeletePolicy(p)
    BY <1>6
  <2>2. Unverified'
    BY <2>1 DEF DeletePolicy, Unverified, Repos
  <2>3. PointsToRows'
    BY <2>1 DEF DeletePolicy, PointsToRows, Policies, Snapshots, Repos, RowTypes
  <2> QED
    BY <2>2, <2>3
<1> QED
  BY <1>1, <1>2, <1>3, <1>4, <1>5, <1>6 DEF CatalogNext

LEMMA WorkKeepsRows == PostureInv /\ WorkNext => Unverified' /\ PointsToRows'
<1> SUFFICES ASSUME PostureInv, WorkNext PROVE Unverified' /\ PointsToRows'
  OBVIOUS
<1> USE DEF PostureInv
<1>1. CASE \E s \in System : Heartbeat(s)
  BY <1>1, OthersKeepRows DEF Heartbeat
<1>2. CASE \E j \in Job, type \in {"backup", "retention"}, status \in {"success", "failed"},
             created \in Age \ {"never"}, finished \in Age : JobEnds(j, type, status, created, finished)
  BY <1>2, OthersKeepRows DEF JobEnds
<1>3. CASE \E j \in Job, status \in {"success", "failed"} : EditJob(j, status)
  BY <1>3, OthersKeepRows DEF EditJob
<1>4. CASE \E j \in Job : CreateSnapshot(j) \/ DeleteSnapshot(j) \/ DeleteJob(j)
  <2>1. PICK j \in Job : CreateSnapshot(j) \/ DeleteSnapshot(j) \/ DeleteJob(j)
    BY <1>4
  <2>2. CASE CreateSnapshot(j)
    <3>1. policies[PolicyOf[j]].repo \in Repos
      BY <2>2 DEF CreateSnapshot, PointsToRows
    <3> QED
      BY <2>2, <3>1 DEF CreateSnapshot, Unverified, PointsToRows, Repos, Policies, Snapshots, RowTypes
  <2>3. CASE DeleteSnapshot(j)
    BY <2>3 DEF DeleteSnapshot, Unverified, PointsToRows, Repos, Policies, Snapshots, RowTypes
  <2>4. CASE DeleteJob(j)
    BY <2>4, OthersKeepRows DEF DeleteJob
  <2> QED
    BY <2>1, <2>2, <2>3, <2>4
<1>5. CASE \E t \in Test, j \in Job : CompleteAgentRestoreTest(t, j) \/ CompleteRestoreTest(t, j)
  BY <1>5, OthersKeepRows DEF CompleteAgentRestoreTest, CompleteRestoreTest
<1>6. CASE \E t \in Test : LoseRestoreTest(t)
  BY <1>6, OthersKeepRows DEF LoseRestoreTest
<1> QED
  BY <1>1, <1>2, <1>3, <1>4, <1>5, <1>6 DEF WorkNext

LEMMA TimeKeepsRows == PostureInv /\ TimeNext => Unverified' /\ PointsToRows'
BY OthersKeepRows DEF TimeNext, MinutesPass, DayPasses, MonthPasses

LEMMA NextInv == PostureInv /\ [Next]_vars => PostureInv'
<1> SUFFICES ASSUME PostureInv, [Next]_vars PROVE PostureInv'
  OBVIOUS
<1>1. CASE CatalogNext
  BY <1>1, CatalogKeepsTypes, CatalogKeepsRows DEF PostureInv
<1>2. CASE WorkNext
  BY <1>2, WorkKeepsTypes, WorkKeepsRows DEF PostureInv
<1>3. CASE TimeNext
  BY <1>3, TimeKeepsTypes, TimeKeepsRows DEF PostureInv
<1>4. CASE UNCHANGED vars
  BY <1>4, OthersKeepRows DEF PostureInv, RowTypes, vars
<1> QED
  BY <1>1, <1>2, <1>3, <1>4 DEF Next

\* The rows are well typed, no posture is ever verified, and no policy or snapshot
\* points to a repository that is gone (internal/catalog, the foreign keys of migrations).
THEOREM RowsHold == Spec => []PostureInv
<1>1. Init => PostureInv
  BY InitInv
<1>2. PostureInv /\ [Next]_vars => PostureInv'
  BY NextInv
<1> QED
  BY <1>1, <1>2, PTL DEF Spec

(***************************************************************************)
(* What the invariant gives.                                               *)
(***************************************************************************)

LEMMA InvTypeOK == PostureInv => TypeOK
<1> SUFFICES ASSUME PostureInv PROVE TypeOK
  OBVIOUS
<1>1. ApiInput \in Input /\ CollectorInput \in Input
  BY ApiInputType, CollectorInputType DEF PostureInv, RowTypes
<1>2. Score(ApiInput) \in 0 .. 100
  BY ScoreType
<1> QED
  BY <1>1, <1>2 DEF PostureInv, RowTypes, TypeOK

\* Whatever else it counts, an input whose repositories are all unverified loses 15 points.
LEMMA UnverifiedCosts ==
  ASSUME PostureInv, Repos # {}, NEW failed, NEW all, NEW v,
         NEW in, in = Counting(failed, all, v)
  PROVE  Score(in) <= 85
<1>1. {r \in Repos : repos[r].immutability # "VERIFIED"} = Repos
  BY DEF PostureInv, Unverified
<1>2. {r \in Repos : repos[r].encryption # "VERIFIED"} = Repos
  BY DEF PostureInv, Unverified
<1>3. Repos \in SUBSET Repo
  BY DEF Repos
<1>4. Cardinality(Repos) \in Nat /\ Cardinality(Repos) # 0
  BY <1>3, CountType
<1>5. in.repos = Cardinality(Repos)
  BY DEF Counting
<1>6. in.unprotected = Cardinality(Repos)
  BY <1>1 DEF Counting
<1>7. in.unencrypted = Cardinality(Repos)
  BY <1>2 DEF Counting
<1>8. Protection(in) = 10 /\ Encryption(in) = 5
  BY <1>4, <1>5, <1>6, <1>7 DEF Protection, Encryption
<1>9. Deducted(in) >= 15
  BY <1>8, SectionValues DEF Deducted
<1> QED
  BY <1>9, DeductedType DEF Score

LEMMA InvNoCredit == PostureInv => NoCreditForDeclarations
<1> SUFFICES ASSUME PostureInv, Repos # {}
             PROVE  Score(ApiInput) <= 85 /\ Score(CollectorInput) <= 85
  BY DEF NoCreditForDeclarations
<1>1. Score(ApiInput) <= 85
  BY UnverifiedCosts DEF ApiInput
<1>2. Score(CollectorInput) <= 85
  BY UnverifiedCosts DEF CollectorInput
<1> QED
  BY <1>1, <1>2

\* As long as every job is a backup, both readers collect the same counts.
LEMMA InvAgree == PostureInv => ScoresAgree
<1> SUFFICES ASSUME PostureInv, \A j \in Ended : jobs[j].type = "backup"
             PROVE  Score(ApiInput) = Score(CollectorInput)
  BY DEF ScoresAgree
<1> DEFINE failed == {j \in Ended : jobs[j].status = "failed"}
           named  == {tests[t].snap : t \in {u \in Passed : tests[u].snap \in Snapshots}}
<1>1. \A j \in Ended : jobs[j].status \in {"success", "failed"}
  BY DEF PostureInv, RowTypes, Ended, JobRow
<1>2. Failed = failed /\ Backups = Ended
  BY <1>1 DEF Failed, Backups, Of
<1>3. Tested = named
  BY DEF Tested
<1>4. CountVerifiedSnapshots = CountDedup
  BY <1>3 DEF CountVerifiedSnapshots, CountDedup, Tested
<1>5. ApiInput = CollectorInput
  BY <1>2, <1>4 DEF ApiInput, CollectorInput, Failed, Backups
<1> QED
  BY <1>5

LEMMA InvLabel == PostureInv => LabelIsEarned
<1> SUFFICES ASSUME PostureInv, Systems # {}, Repos # {},
                    Classify(Score(ApiInput)) \in {"Excellent", "Good"}
             PROVE  /\ \A j \in Snapshots : \E t \in Passed : tests[t].snap = j
                    /\ \E j \in Of("backup", "success") : jobs[j].finished = "fresh"
                    /\ \A j \in Of("backup", "failed") : jobs[j].created = "old"
                    /\ Alerts(ApiInput, "critical") \subseteq {"agents_offline"}
  BY DEF LabelIsEarned
<1> DEFINE in == ApiInput
<1> HIDE DEF in
<1>1. in = ApiInput /\ in \in Input
  BY ApiInputType DEF in
<1>2. Deducted(in) <= 25
  BY <1>1, GoodScore
<1>3. Protection(in) = 10 /\ Encryption(in) = 5
  <2>1. Repos \in SUBSET Repo
    BY DEF Repos
  <2>2. Cardinality(Repos) \in Nat /\ Cardinality(Repos) # 0
    BY <2>1, CountType
  <2>3. {r \in Repos : repos[r].immutability # "VERIFIED"} = Repos
    BY DEF PostureInv, Unverified
  <2>4. {r \in Repos : repos[r].encryption # "VERIFIED"} = Repos
    BY DEF PostureInv, Unverified
  <2>5. in.unprotected = Cardinality(Repos) /\ in.unencrypted = Cardinality(Repos)
    BY <1>1, <2>3, <2>4, ApiCounts DEF Counted
  <2>6. in.repos = Cardinality(Repos)
    BY <1>1, ApiCounts DEF Counted
  <2> QED
    BY <2>2, <2>5, <2>6 DEF Protection, Encryption
<1>4. Coverage(in) = 0 /\ BackupFreshness(in) = 0 /\ RecentFailures(in) = 0
  BY <1>2, <1>3, SectionValues DEF Deducted
<1>5. Systems \in SUBSET System /\ Snapshots \in SUBSET Job /\ Tested \in SUBSET Snapshots
      /\ IsFiniteSet(Snapshots) /\ {j \in Failed : jobs[j].created = "fresh"} \in SUBSET Job
  <2>1. Snapshots \in SUBSET Job
    BY DEF Snapshots
  <2> QED
    BY <2>1, CountType DEF Systems, Tested, Failed, Of, Ended
<1>6. Tested = Snapshots
  <2>1. Cardinality(Snapshots) \in Nat /\ Cardinality(Tested) \in Nat
        /\ (Cardinality(Snapshots) = 0 <=> Snapshots = {})
    BY <1>5, CountType
  <2>2. in.snapshots = Cardinality(Snapshots) /\ in.verified = Cardinality(Tested)
    BY <1>1, ApiCounts DEF Counted
  <2>3. in.snapshots = 0 \/ (in.verified # 0 /\ ~(in.verified < in.snapshots))
    BY <1>4 DEF Coverage
  <2>4. CASE in.snapshots = 0
    BY <1>5, <2>1, <2>2, <2>4
  <2>5. CASE ~(in.verified < in.snapshots)
    BY <1>5, <2>1, <2>2, <2>5, CountedAll
  <2> QED
    BY <2>3, <2>4, <2>5
<1>7. in.lastSuccess = "fresh"
  <2>1. Cardinality(Systems) # 0
    BY <1>5, CountType
  <2>2. in.systems # 0
    BY <1>1, <2>1, ApiCounts DEF Counted
  <2> QED
    BY <1>1, <1>4, <2>2 DEF BackupFreshness, Input, Age
<1>8. "fresh" \in {jobs[j].finished : j \in Of("backup", "success")}
  <2>1. Newest({jobs[j].finished : j \in Of("backup", "success")}) = "fresh"
    BY <1>1, <1>7, ApiCounts DEF Counted
  <2> QED
    BY <2>1 DEF Newest
<1>9. ASSUME NEW j \in Failed PROVE jobs[j].created = "old"
  <2>1. in.failedLast24h = Cardinality({k \in Failed : jobs[k].created = "fresh"})
    BY <1>1, ApiCounts DEF Counted
  <2>2. in.failedLast24h \in Nat /\ ~(in.failedLast24h > 0)
    BY <1>1, <1>4 DEF RecentFailures, Input
  <2>3. {k \in Failed : jobs[k].created = "fresh"} = {}
    BY <1>5, <2>1, <2>2, CountType
  <2>4. jobs[j] \in JobRow
    BY DEF Failed, Of, Ended, PostureInv, RowTypes
  <2> QED
    BY <2>3, <2>4 DEF JobRow, Age
<1>10. Alerts(in, "critical") \subseteq {"agents_offline"}
  <2> SUFFICES ASSUME NEW d \in Deductions(in), Severity(d[1]) = "critical"
               PROVE  d[1] = "agents_offline"
    BY DEF Alerts
  <2>1. d[1] \in {"no_restore_tests", "no_successful_backup", "agents_offline"}
    BY DEF Severity
  <2>2. d[1] # "no_restore_tests"
    BY <1>4 DEF Deductions
  <2>3. d[1] # "no_successful_backup"
    BY <1>4 DEF Deductions
  <2> QED
    BY <2>1, <2>2, <2>3
<1> QED
  BY <1>1, <1>6, <1>8, <1>9, <1>10 DEF Tested, Failed

(***************************************************************************)
(* The score follows events.                                               *)
(***************************************************************************)

\* The lemmas on the counts, of the state after a step.
LEMMA CountsAfter == Counted' /\ (ApiInput \in Input)'
<1>1. Counted
  BY ApiCounts
<1>2. ApiInput \in Input
  BY ApiInputType
<1> QED
  BY <1>1, <1>2, PTL

\* Counts that differ in what they say of the agents alone.
SameButAgents(a, b) ==
  /\ a.systems = b.systems /\ a.jobs = b.jobs /\ a.failed = b.failed
  /\ a.failedLast24h = b.failedLast24h /\ a.lastSuccess = b.lastSuccess
  /\ a.snapshots = b.snapshots /\ a.verified = b.verified
  /\ a.lastRestoreTest = b.lastRestoreTest /\ a.repos = b.repos
  /\ a.unprotected = b.unprotected /\ a.unencrypted = b.unencrypted
  /\ a.retention = b.retention

LEMMA AgentsCount ==
  ASSUME NEW a \in Input, NEW b \in Input, SameButAgents(a, b),
         a.offline <= b.offline, b.offline = 0 => a.idle <= b.idle
  PROVE  Score(b) <= Score(a)
<1>1. Connectivity(a) <= Connectivity(b)
  BY DEF SameButAgents, Connectivity, Input
<1>2. /\ Coverage(a) = Coverage(b) /\ TestFreshness(a) = TestFreshness(b)
      /\ BackupFreshness(a) = BackupFreshness(b) /\ RecentFailures(a) = RecentFailures(b)
      /\ FailureRate(a) = FailureRate(b) /\ Protection(a) = Protection(b)
      /\ Encryption(a) = Encryption(b) /\ Retained(a) = Retained(b)
  BY DEF SameButAgents, Coverage, TestFreshness, BackupFreshness, RecentFailures, FailureRate,
         Protection, Encryption, Retained
<1>3. Deducted(a) <= Deducted(b)
  BY <1>1, <1>2, SectionValues DEF Deducted
<1> QED
  BY <1>3, ScoreFalls

\* Counts that differ in what they say of the restore tests alone.
SameButTests(a, b) ==
  /\ a.systems = b.systems /\ a.idle = b.idle /\ a.offline = b.offline /\ a.jobs = b.jobs
  /\ a.failed = b.failed /\ a.failedLast24h = b.failedLast24h /\ a.lastSuccess = b.lastSuccess
  /\ a.snapshots = b.snapshots /\ a.repos = b.repos
  /\ a.unprotected = b.unprotected /\ a.unencrypted = b.unencrypted
  /\ a.retention = b.retention

LEMMA TestsCount ==
  ASSUME NEW a \in Input, NEW b \in Input, SameButTests(a, b),
         b.verified <= a.verified,
         b.lastRestoreTest = "fresh" => a.lastRestoreTest = "fresh"
  PROVE  Score(b) <= Score(a)
<1>1. Coverage(a) + TestFreshness(a) <= Coverage(b) + TestFreshness(b)
  BY DEF SameButTests, Coverage, TestFreshness, Input
<1>2. /\ BackupFreshness(a) = BackupFreshness(b) /\ RecentFailures(a) = RecentFailures(b)
      /\ FailureRate(a) = FailureRate(b) /\ Connectivity(a) = Connectivity(b)
      /\ Protection(a) = Protection(b) /\ Encryption(a) = Encryption(b)
      /\ Retained(a) = Retained(b)
  BY DEF SameButTests, BackupFreshness, RecentFailures, FailureRate, Connectivity,
         Protection, Encryption, Retained
<1>3. Deducted(a) <= Deducted(b)
  BY <1>1, <1>2, SectionValues DEF Deducted
<1> QED
  BY <1>3, ScoreFalls

\* Counts that differ in what they say of the jobs alone.
SameButJobs(a, b) ==
  /\ a.systems = b.systems /\ a.idle = b.idle /\ a.offline = b.offline
  /\ a.snapshots = b.snapshots /\ a.verified = b.verified
  /\ a.lastRestoreTest = b.lastRestoreTest /\ a.repos = b.repos
  /\ a.unprotected = b.unprotected /\ a.unencrypted = b.unencrypted
  /\ a.retention = b.retention

\* Of the jobs that ended no more have succeeded, and no fewer failed.
LEMMA JobsCount ==
  ASSUME NEW a \in Input, NEW b \in Input, SameButJobs(a, b),
         a.failed <= b.failed, b.jobs - b.failed <= a.jobs - a.failed, a.failed <= a.jobs,
         a.jobs <= b.jobs, a.failedLast24h <= b.failedLast24h,
         b.lastSuccess = "fresh" => a.lastSuccess = "fresh",
         b.lastSuccess = "old" => a.lastSuccess # "never"
  PROVE  Score(b) <= Score(a)
<1>1. BackupFreshness(a) <= BackupFreshness(b)
  BY DEF SameButJobs, BackupFreshness, Input, Age
<1>2. RecentFailures(a) <= RecentFailures(b)
  BY DEF RecentFailures, Input
<1>3. FailureRate(a) <= FailureRate(b)
  BY DEF FailureRate, Input
<1>4. /\ Coverage(a) = Coverage(b) /\ TestFreshness(a) = TestFreshness(b)
      /\ Connectivity(a) = Connectivity(b) /\ Protection(a) = Protection(b)
      /\ Encryption(a) = Encryption(b) /\ Retained(a) = Retained(b)
  BY DEF SameButJobs, Coverage, TestFreshness, Connectivity, Protection, Encryption, Retained
<1>5. Deducted(a) <= Deducted(b)
  BY <1>1, <1>2, <1>3, <1>4, SectionValues DEF Deducted
<1> QED
  BY <1>5, ScoreFalls

\* A heartbeat: nobody is away who was not.
LEMMA HeartbeatRaises ==
  ASSUME PostureInv, NEW s \in System, Heartbeat(s)
  PROVE  \A before \in {ApiInput}, after \in {ApiInput'} : Score(before) <= Score(after)
<1> SUFFICES ASSUME NEW before, NEW after, before = ApiInput, after = ApiInput'
             PROVE  Score(before) <= Score(after)
  OBVIOUS
<1> USE DEF Heartbeat
<1>1. before \in Input /\ after \in Input
  BY ApiInputType, CountsAfter
<1>2. SameButAgents(after, before)
  <2>1. Systems' = Systems /\ UNCHANGED <<repos, policies, jobs, snaps, tests>>
    BY DEF Systems, PostureInv, RowTypes
  <2> QED
    BY <2>1, ApiCounts, CountsAfter
    DEF Counted, SameButAgents, Backups, Failed, Of, Ended, Snapshots, Tested, Passed, Repos, Policies
<1>3. \A x \in System \ {s} : seen'[x] = seen[x]
  BY DEF PostureInv, RowTypes
<1>4. seen'[s] = "online"
  BY DEF PostureInv, RowTypes
<1>5. after.offline <= before.offline
  <2>1. {x \in System : seen'[x] \in {"never", "long"}}
          \in SUBSET {x \in System : seen[x] \in {"never", "long"}}
    BY <1>3, <1>4
  <2>2. IsFiniteSet({x \in System : seen[x] \in {"never", "long"}})
    BY FS_Subset
  <2> QED
    BY <2>1, <2>2, CountType, ApiCounts, CountsAfter DEF Counted
<1>6. after.idle <= before.idle
  <2>1. {x \in System : seen'[x] = "idle"} \in SUBSET {x \in System : seen[x] = "idle"}
    BY <1>3, <1>4
  <2>2. IsFiniteSet({x \in System : seen[x] = "idle"})
    BY FS_Subset
  <2> QED
    BY <2>1, <2>2, CountType, ApiCounts, CountsAfter DEF Counted
<1> QED
  BY <1>1, <1>2, <1>5, <1>6, AgentsCount

\* Minutes pass: nobody comes back, and whoever was idle is away.
LEMMA MinutesLower ==
  ASSUME PostureInv, MinutesPass
  PROVE  \A before \in {ApiInput}, after \in {ApiInput'} : Score(after) <= Score(before)
<1> SUFFICES ASSUME NEW before, NEW after, before = ApiInput, after = ApiInput'
             PROVE  Score(after) <= Score(before)
  OBVIOUS
<1>1. before \in Input /\ after \in Input
  BY ApiInputType, CountsAfter
<1>2. \A x \in System : seen'[x] = CASE seen[x] = "online" -> "idle"
                                      [] seen[x] = "idle" -> "long"
                                      [] OTHER -> seen[x]
  BY DEF MinutesPass
<1>3. SameButAgents(before, after)
  <2>1. UNCHANGED <<repos, policies, jobs, snaps, tests>>
    BY DEF MinutesPass
  <2>2. Systems' = Systems
    BY <1>2 DEF Systems
  <2> QED
    BY <2>1, <2>2, ApiCounts, CountsAfter
    DEF Counted, SameButAgents, Backups, Failed, Of, Ended, Snapshots, Tested, Passed, Repos, Policies
<1> DEFINE away == {x \in System : seen[x] \in {"never", "long"}}
           gone == {x \in System : seen'[x] \in {"never", "long"}}
           idle == {x \in System : seen[x] = "idle"}
<1>4. away \in SUBSET gone /\ idle \in SUBSET gone /\ IsFiniteSet(gone)
  <2>1. away \in SUBSET gone /\ idle \in SUBSET gone
    BY <1>2
  <2>2. gone \in SUBSET System
    OBVIOUS
  <2> QED
    BY <2>1, <2>2, FS_Subset
<1>5. before.offline = Cardinality(away) /\ after.offline = Cardinality(gone)
      /\ before.idle = Cardinality(idle)
  BY ApiCounts, CountsAfter DEF Counted
<1> HIDE DEF away, gone, idle
<1>6. Cardinality(away) <= Cardinality(gone) /\ Cardinality(idle) <= Cardinality(gone)
  BY <1>4, CountType
<1>7. before.offline <= after.offline /\ before.idle <= after.offline
  BY <1>5, <1>6
<1> QED
  BY <1>1, <1>3, <1>7, AgentsCount DEF Input

\* More tests that passed, of more snapshots and none with an earlier time.
LEMMA MoreTests ==
  ASSUME PostureInv, PostureInv', UNCHANGED <<seen, repos, policies, jobs, snaps>>
  PROVE  \A before \in {ApiInput}, after \in {ApiInput'} :
           /\ /\ Tested \subseteq Tested'
              /\ \A t \in Passed : tests[t].finished = "fresh" =>
                                     t \in Passed' /\ tests'[t].finished = "fresh"
              => Score(before) <= Score(after)
           /\ /\ Tested' \subseteq Tested
              /\ \A t \in Passed' : tests'[t].finished = "fresh" =>
                                      t \in Passed /\ tests[t].finished = "fresh"
              => Score(after) <= Score(before)
<1> SUFFICES ASSUME NEW before, NEW after, before = ApiInput, after = ApiInput'
             PROVE
           /\ /\ Tested \subseteq Tested'
              /\ \A t \in Passed : tests[t].finished = "fresh" =>
                                     t \in Passed' /\ tests'[t].finished = "fresh"
              => Score(before) <= Score(after)
           /\ /\ Tested' \subseteq Tested
              /\ \A t \in Passed' : tests'[t].finished = "fresh" =>
                                      t \in Passed /\ tests[t].finished = "fresh"
              => Score(after) <= Score(before)
  OBVIOUS
<1>1. before \in Input /\ after \in Input
  BY ApiInputType, CountsAfter
<1>2. SameButTests(before, after) /\ SameButTests(after, before)
  BY ApiCounts, CountsAfter
  DEF Counted, SameButTests, Backups, Failed, Of, Ended, Snapshots, Systems, Repos, Policies
<1>3. Tested \in SUBSET Job /\ Tested' \in SUBSET Job /\ IsFiniteSet(Tested) /\ IsFiniteSet(Tested')
  <2>1. Tested \in SUBSET Job /\ Tested' \in SUBSET Job
    BY DEF Tested, Snapshots
  <2> QED
    BY <2>1, FS_Subset
<1>4. /\ before.verified = Cardinality(Tested) /\ after.verified = Cardinality(Tested')
      /\ before.lastRestoreTest = Newest({tests[t].finished : t \in Passed})
      /\ after.lastRestoreTest = Newest({tests'[t].finished : t \in Passed'})
  BY ApiCounts, CountsAfter DEF Counted
<1>5. ASSUME Tested \subseteq Tested',
             \A t \in Passed : tests[t].finished = "fresh" =>
                                 t \in Passed' /\ tests'[t].finished = "fresh"
      PROVE  Score(before) <= Score(after)
  <2>1. before.verified <= after.verified
    BY <1>3, <1>4, <1>5, CountType
  <2>2. before.lastRestoreTest = "fresh" => after.lastRestoreTest = "fresh"
    BY <1>4, <1>5 DEF Newest
  <2> QED
    BY <1>1, <1>2, <2>1, <2>2, TestsCount
<1>6. ASSUME Tested' \subseteq Tested,
             \A t \in Passed' : tests'[t].finished = "fresh" =>
                                  t \in Passed /\ tests[t].finished = "fresh"
      PROVE  Score(after) <= Score(before)
  <2>1. after.verified <= before.verified
    BY <1>3, <1>4, <1>6, CountType
  <2>2. after.lastRestoreTest = "fresh" => before.lastRestoreTest = "fresh"
    BY <1>4, <1>6 DEF Newest
  <2> QED
    BY <1>1, <1>2, <2>1, <2>2, TestsCount
<1> QED
  BY <1>5, <1>6

LEMMA TestsRaise ==
  ASSUME PostureInv, PostureInv', NEW t \in Test, NEW j \in Job,
         CompleteAgentRestoreTest(t, j) \/ CompleteRestoreTest(t, j)
  PROVE  \A before \in {ApiInput}, after \in {ApiInput'} : Score(before) <= Score(after)
<1>1. UNCHANGED <<seen, repos, policies, jobs, snaps>>
  BY DEF CompleteAgentRestoreTest, CompleteRestoreTest
<1>2. PICK row \in TestRow :
        /\ tests' = [tests EXCEPT ![t] = row] /\ row.snap = j
        /\ t \in Passed => tests[t].snap = j /\ row.finished = "fresh"
  <2>1. CASE CompleteAgentRestoreTest(t, j)
    <3> DEFINE row == [snap |-> j, finished |-> "never", ended |-> "fresh"]
    <3>1. row \in TestRow /\ row.snap = j
      BY DEF TestRow, Age
    <3> QED
      BY <2>1, <3>1 DEF CompleteAgentRestoreTest
  <2>2. CASE CompleteRestoreTest(t, j)
    <3> DEFINE row == [snap |-> j, finished |-> "fresh", ended |-> "fresh"]
    <3>1. row \in TestRow /\ row.snap = j /\ row.finished = "fresh"
      BY DEF TestRow, Age
    <3> QED
      BY <2>2, <3>1 DEF CompleteRestoreTest
  <2> QED
    BY <2>1, <2>2
<1>3. Passed \subseteq Passed' /\ Snapshots' = Snapshots
  BY <1>1, <1>2 DEF Passed, Snapshots, PostureInv, RowTypes
<1>4. Tested \subseteq Tested'
  BY <1>2, <1>3 DEF Tested, Passed, PostureInv, RowTypes
<1>5. ASSUME NEW u \in Passed, tests[u].finished = "fresh"
      PROVE  u \in Passed' /\ tests'[u].finished = "fresh"
  BY <1>2, <1>3, <1>5 DEF Passed, PostureInv, RowTypes
<1> QED
  BY <1>1, <1>4, <1>5, MoreTests

LEMMA LostTestLowers ==
  ASSUME PostureInv, PostureInv', NEW t \in Test, LoseRestoreTest(t)
  PROVE  \A before \in {ApiInput}, after \in {ApiInput'} : Score(after) <= Score(before)
<1>1. UNCHANGED <<seen, repos, policies, jobs, snaps>>
  BY DEF LoseRestoreTest
<1>2. Passed' = Passed \ {t} /\ \A u \in Passed' : tests'[u] = tests[u]
  BY DEF LoseRestoreTest, Passed, PostureInv, RowTypes
<1>3. Tested' \subseteq Tested
  BY <1>1, <1>2 DEF Tested, Snapshots
<1> QED
  BY <1>1, <1>2, <1>3, MoreTests

\* A backup fails that was none before, or that had succeeded; or nothing that counts.
LEMMA MoreFailures ==
  ASSUME PostureInv, UNCHANGED <<seen, repos, policies, snaps, tests>>, NEW j \in Job,
         \/ Failed' = Failed /\ Backups' = Backups
         \/ j \notin Failed /\ Failed' = Failed \union {j} /\ Backups' = Backups \union {j},
         Of("backup", "success")' \subseteq Of("backup", "success"),
         \A k \in Failed : jobs'[k].created = jobs[k].created,
         \A k \in Of("backup", "success")' : jobs'[k].finished = jobs[k].finished
  PROVE  \A before \in {ApiInput}, after \in {ApiInput'} : Score(after) <= Score(before)
<1> SUFFICES ASSUME NEW before, NEW after, before = ApiInput, after = ApiInput'
             PROVE  Score(after) <= Score(before)
  OBVIOUS
<1>1. before \in Input /\ after \in Input
  BY ApiInputType, CountsAfter
<1>2. SameButJobs(before, after)
  <2>1. Systems' = Systems /\ Snapshots' = Snapshots /\ Tested' = Tested /\ Repos' = Repos
        /\ Policies' = Policies /\ Passed' = Passed
    BY DEF Systems, Snapshots, Tested, Passed, Repos, Policies
  <2> QED
    BY <2>1, ApiCounts, CountsAfter DEF Counted, SameButJobs
<1>3. Failed \in SUBSET Backups /\ IsFiniteSet(Backups) /\ IsFiniteSet(Failed)
      /\ IsFiniteSet(Failed') /\ IsFiniteSet(Backups')
  <2>1. Failed \in SUBSET Backups /\ Backups \in SUBSET Job
    BY DEF Backups, Failed, Of, Ended
  <2>2. Failed' \in SUBSET Job /\ Backups' \in SUBSET Job
    BY DEF Backups, Failed, Of, Ended
  <2>3. Failed \in SUBSET Job
    BY <2>1
  <2> QED
    BY <2>1, <2>2, <2>3, FS_Subset
<1>4. /\ before.jobs = Cardinality(Backups) /\ before.failed = Cardinality(Failed)
      /\ after.jobs = Cardinality(Backups') /\ after.failed = Cardinality(Failed')
      /\ before.failedLast24h = Cardinality({k \in Failed : jobs[k].created = "fresh"})
      /\ after.failedLast24h = Cardinality({k \in Failed' : jobs'[k].created = "fresh"})
      /\ before.lastSuccess = Newest({jobs[k].finished : k \in Of("backup", "success")})
      /\ after.lastSuccess = Newest({jobs'[k].finished : k \in Of("backup", "success")'})
  BY ApiCounts, CountsAfter DEF Counted
<1>5. before.failed <= before.jobs
  BY <1>3, <1>4, CountType
<1>6. before.failed <= after.failed /\ before.jobs <= after.jobs
      /\ after.jobs - after.failed <= before.jobs - before.failed
  <2>1. CASE Failed' = Failed /\ Backups' = Backups
    BY <1>1, <1>4, <2>1 DEF Input
  <2>2. CASE j \notin Failed /\ Failed' = Failed \union {j} /\ Backups' = Backups \union {j}
    <3>1. after.failed = before.failed + 1
      <4>1. Cardinality(Failed \union {j}) = Cardinality(Failed) + 1
        BY <1>3, <2>2, FS_AddElement
      <4> QED
        BY <1>4, <2>2, <4>1
    <3>2. Cardinality(Backups \union {j}) \in {Cardinality(Backups), Cardinality(Backups) + 1}
      BY <1>3, OneMore
    <3>3. after.jobs = before.jobs \/ after.jobs = before.jobs + 1
      BY <1>4, <2>2, <3>2
    <3> QED
      BY <1>1, <3>1, <3>3 DEF Input
  <2> QED
    BY <2>1, <2>2
<1>7. before.failedLast24h <= after.failedLast24h
  <2>1. {k \in Failed : jobs[k].created = "fresh"}
          \in SUBSET {k \in Failed' : jobs'[k].created = "fresh"}
    OBVIOUS
  <2>2. IsFiniteSet({k \in Failed' : jobs'[k].created = "fresh"})
    BY <1>3, FS_Subset
  <2> QED
    BY <1>4, <2>1, <2>2, CountType
<1>8. {jobs'[k].finished : k \in Of("backup", "success")'}
        \subseteq {jobs[k].finished : k \in Of("backup", "success")}
  OBVIOUS
<1>9. /\ after.lastSuccess = "fresh" => before.lastSuccess = "fresh"
      /\ after.lastSuccess = "old" => before.lastSuccess # "never"
  BY <1>4, <1>8 DEF Newest
<1> QED
  BY <1>1, <1>2, <1>5, <1>6, <1>7, <1>9, JobsCount

LEMMA FailureLowers ==
  ASSUME PostureInv, NEW j \in Job, NEW type \in {"backup", "retention"},
         NEW created \in Age \ {"never"}, NEW finished \in Age,
         JobEnds(j, type, "failed", created, finished)
  PROVE  \A before \in {ApiInput}, after \in {ApiInput'} : Score(after) <= Score(before)
<1> DEFINE row == [type |-> type, status |-> "failed", created |-> created, finished |-> finished]
<1>1. row \in JobRow /\ row # NoRow /\ row.type = type /\ row.status = "failed"
  BY DEF JobRow
<1>2. jobs' = [jobs EXCEPT ![j] = row] /\ UNCHANGED <<seen, repos, policies, snaps, tests>>
      /\ j \notin Ended
  BY DEF JobEnds
<1> HIDE DEF row
<1>3. Ended' = Ended \union {j} /\ jobs'[j] = row /\ \A k \in Ended : jobs'[k] = jobs[k]
  BY <1>1, <1>2 DEF Ended, PostureInv, RowTypes
<1>4. Of("backup", "success")' = Of("backup", "success")
  BY <1>1, <1>3 DEF Of
<1>5. CASE type = "backup"
  <2>1. j \notin Failed /\ Failed' = Failed \union {j}
    BY <1>1, <1>2, <1>3, <1>5 DEF Failed, Of
  <2>2. Backups' = Backups \union {j}
    BY <1>4, <2>1 DEF Backups
  <2> QED
    BY <1>2, <1>3, <1>4, <2>1, <2>2, MoreFailures DEF Failed, Of
<1>6. CASE type = "retention"
  <2>1. Failed' = Failed
    BY <1>1, <1>2, <1>3, <1>6 DEF Failed, Of
  <2>2. Backups' = Backups
    BY <1>4, <2>1 DEF Backups
  <2> QED
    BY <1>2, <1>3, <1>4, <2>1, <2>2, MoreFailures DEF Failed, Of
<1> QED
  BY <1>5, <1>6

LEMMA EditedFailureLowers ==
  ASSUME PostureInv, NEW j \in Job, EditJob(j, "failed")
  PROVE  \A before \in {ApiInput}, after \in {ApiInput'} : Score(after) <= Score(before)
<1> DEFINE row == [jobs[j] EXCEPT !.status = "failed"]
<1>1. jobs[j] \in JobRow /\ j \in Ended
  BY DEF EditJob, Ended, PostureInv, RowTypes
<1>2. /\ row \in JobRow /\ row # NoRow /\ row.type = jobs[j].type /\ row.status = "failed"
      /\ row.created = jobs[j].created /\ row.finished = jobs[j].finished
  BY <1>1 DEF JobRow
<1>3. jobs' = [jobs EXCEPT ![j] = row] /\ UNCHANGED <<seen, repos, policies, snaps, tests>>
  BY DEF EditJob
<1> HIDE DEF row
<1>4. Ended' = Ended /\ jobs'[j] = row /\ \A k \in Ended \ {j} : jobs'[k] = jobs[k]
  BY <1>1, <1>2, <1>3 DEF Ended, PostureInv, RowTypes
<1>5. jobs[j].status \in {"success", "failed"}
  BY <1>1 DEF JobRow
<1>6. Of("backup", "success")' = Of("backup", "success") \ {j}
  BY <1>1, <1>2, <1>4 DEF Of
<1>7. CASE j \in Of("backup", "success")
  <2>1. j \notin Failed /\ Failed' = Failed \union {j}
    BY <1>1, <1>2, <1>4, <1>7 DEF Failed, Of
  <2>2. Backups' = Backups \union {j}
    BY <1>6, <1>7, <2>1 DEF Backups
  <2> QED
    BY <1>2, <1>3, <1>4, <1>6, <2>1, <2>2, MoreFailures DEF Failed, Of
<1>8. CASE j \notin Of("backup", "success")
  <2>1. Failed' = Failed
    BY <1>1, <1>2, <1>4, <1>5, <1>8 DEF Failed, Of
  <2>2. Backups' = Backups
    BY <1>6, <1>8, <2>1 DEF Backups
  <2> QED
    BY <1>2, <1>3, <1>4, <1>6, <2>1, <2>2, MoreFailures DEF Failed, Of
<1> QED
  BY <1>7, <1>8

(***************************************************************************)
(* The theorems.                                                           *)
(***************************************************************************)

\* The rows, what both readers collect from them, and the score of 0 to 100.
THEOREM TypesHold == Spec => []TypeOK
<1>1. PostureInv => TypeOK
  BY InvTypeOK
<1> QED
  BY <1>1, RowsHold, PTL

\* "Good" or better means that every snapshot has passed a restore test and that no
\* backup is missing or has failed within a day (score.go:98).
THEOREM LabelsAreEarned == Spec => []LabelIsEarned
<1>1. PostureInv => LabelIsEarned
  BY InvLabel
<1> QED
  BY <1>1, RowsHold, PTL

\* With a repository in the catalog neither reader ever shows more than 85
\* (score.go:70, models.go:77).
THEOREM DeclarationsEarnNothing == Spec => []NoCreditForDeclarations
<1>1. PostureInv => NoCreditForDeclarations
  BY InvNoCredit
<1> QED
  BY <1>1, RowsHold, PTL

\* The endpoint and the collector show the same score as long as only backups have
\* ended (collector.go:246, health_score.go:46).
THEOREM ReadersAgree == Spec => []ScoresAgree
<1>1. PostureInv => ScoresAgree
  BY InvAgree
<1> QED
  BY <1>1, RowsHold, PTL

\* Good news never lower the score, bad news never raise it (score.go:98-171).
THEOREM EventsAreFollowed == Spec => ScoreFollowsEvents
<1>1. ASSUME PostureInv, PostureInv', [Next]_vars
      PROVE  [\A before \in {ApiInput}, after \in {ApiInput'} :
                /\ Score(after) < Score(before) => ~GoodNews
                /\ Score(after) > Score(before) => ~BadNews]_vars
  <2> SUFFICES ASSUME NEW before, NEW after, before = ApiInput, after = ApiInput'
               PROVE  /\ Score(after) < Score(before) => ~GoodNews
                      /\ Score(after) > Score(before) => ~BadNews
    OBVIOUS
  <2>1. Score(before) \in Int /\ Score(after) \in Int
    BY ScoreType
  <2>2. ASSUME GoodNews PROVE Score(before) <= Score(after)
    BY <1>1, <2>2, HeartbeatRaises, TestsRaise DEF GoodNews
  <2>3. ASSUME BadNews PROVE Score(after) <= Score(before)
    <3>1. CASE MinutesPass
      BY <1>1, <3>1, MinutesLower
    <3>2. CASE \E t \in Test : LoseRestoreTest(t)
      BY <1>1, <3>2, LostTestLowers
    <3>3. CASE \E j \in Job : EditJob(j, "failed")
      BY <1>1, <3>3, EditedFailureLowers
    <3>4. CASE \E j \in Job, type \in {"backup", "retention"}, created \in Age \ {"never"},
                 finished \in Age : JobEnds(j, type, "failed", created, finished)
      BY <1>1, <3>4, FailureLowers
    <3> QED
      BY <2>3, <3>1, <3>2, <3>3, <3>4 DEF BadNews
  <2> QED
    BY <2>1, <2>2, <2>3
<1>2. [][Next]_vars /\ []PostureInv => ScoreFollowsEvents
  BY <1>1, PTL DEF ScoreFollowsEvents
<1> QED
  BY <1>2, RowsHold, PTL DEF Spec

(***************************************************************************)
(* The activity chart.                                                     *)
(***************************************************************************)

USE ActivityAssumption DEF ActivityAssumption

Mode == {"hours", "days", "weeks"}

\* Weeks are counted from the Monday before the first Sunday.
Offset(mode) == IF mode = "weeks" THEN -(6 * HoursPerDay) ELSE 0

LEMMA SizeType ==
  ASSUME NEW mode \in Mode
  PROVE  BucketSize(mode) \in Nat \ {0} /\ Offset(mode) \in Int
BY DEF Mode, BucketSize, Offset

\* A day begins at a multiple of its length.
LEMMA DayFits ==
  ASSUME NEW t \in Nat
  PROVE  /\ t \div HoursPerDay \in Nat
         /\ Day(t) = HoursPerDay * (t \div HoursPerDay) /\ Day(t) \in Nat
         /\ Day(t) <= t /\ t < Day(t) + HoursPerDay
         /\ Day(t) \div HoursPerDay = t \div HoursPerDay
<1>1. t \div HoursPerDay \in Nat /\ t % HoursPerDay \in 0 .. HoursPerDay - 1
  OBVIOUS
<1>2. t = HoursPerDay * (t \div HoursPerDay) + (t % HoursPerDay)
  OBVIOUS
<1>3. Day(t) = HoursPerDay * (t \div HoursPerDay)
  BY <1>1, <1>2 DEF Day
<1>4. Day(t) \in Nat
  BY <1>1, <1>3
<1>5. Day(t) \div HoursPerDay = t \div HoursPerDay
  BY <1>1, <1>3
<1> QED
  BY <1>1, <1>2, <1>3, <1>4, <1>5

\* A week begins a whole number of weeks after the first Monday, and holds its days.
LEMMA WeekFits ==
  ASSUME NEW t \in Nat
  PROVE  \E q \in Int : /\ Week(t) = HoursPerDay * (7 * q - 6)
                        /\ Week(t) <= t /\ t < Week(t) + 7 * HoursPerDay
<1> DEFINE d == t \div HoursPerDay
           q == (d + 6) \div 7
           w == Weekday(Day(t))
<1>1. d \in Nat /\ Day(t) = HoursPerDay * d /\ Day(t) <= t /\ t < Day(t) + HoursPerDay
  BY DayFits
<1>2. w = IF d % 7 = 0 THEN 7 ELSE d % 7
  BY DayFits DEF Weekday
<1> HIDE DEF w
<1>3. Week(t) = HoursPerDay * d - HoursPerDay * (w - 1)
  BY <1>1 DEF Week, w
<1> HIDE DEF d
<1>4. w \in 1 .. 7 /\ q \in Int /\ d - (w - 1) = 7 * q - 6
  BY <1>1, <1>2
<1> HIDE DEF q
<1>5. Week(t) = HoursPerDay * (d - (w - 1))
  BY <1>1, <1>3, <1>4
<1>6. Week(t) = HoursPerDay * (7 * q - 6)
  BY <1>4, <1>5
<1>7. 0 <= HoursPerDay * (w - 1) /\ HoursPerDay * (w - 1) <= 6 * HoursPerDay
  BY <1>4
<1>8. Week(t) <= t /\ t < Week(t) + 7 * HoursPerDay
  BY <1>1, <1>3, <1>4, <1>7
<1> QED
  BY <1>4, <1>6, <1>8

\* The bucket of an instant is one of those that follow each other without a gap, and
\* holds the instant.
LEMMA BucketFits ==
  ASSUME NEW mode \in Mode, NEW t \in Nat
  PROVE  \E k \in Int : /\ BucketOf(mode, t) = BucketSize(mode) * k + Offset(mode)
                        /\ BucketOf(mode, t) <= t
                        /\ t < BucketOf(mode, t) + BucketSize(mode)
<1>1. CASE mode = "hours"
  <2>1. BucketOf(mode, t) = 1 * t + 0
    BY <1>1 DEF BucketOf
  <2> QED
    BY <1>1, <2>1 DEF BucketSize, Offset
<1>2. CASE mode = "days"
  <2>1. BucketOf(mode, t) = HoursPerDay * (t \div HoursPerDay) + 0
    BY <1>2, DayFits DEF BucketOf
  <2> QED
    BY <1>2, <2>1, DayFits DEF BucketSize, Offset, BucketOf
<1>3. CASE mode = "weeks"
  <2>1. PICK q \in Int : /\ Week(t) = HoursPerDay * (7 * q - 6)
                         /\ Week(t) <= t /\ t < Week(t) + 7 * HoursPerDay
    BY WeekFits
  <2>2. HoursPerDay * (7 * q - 6) = (7 * HoursPerDay) * q + (-(6 * HoursPerDay))
    OBVIOUS
  <2> QED
    BY <1>3, <2>1, <2>2 DEF BucketSize, Offset, BucketOf
<1> QED
  BY <1>1, <1>2, <1>3 DEF Mode

\* Such buckets do not overlap.
LEMMA OneBucket ==
  ASSUME NEW n \in Nat \ {0}, NEW k \in Int, NEW l \in Int, NEW t \in Int,
         n * k <= t, t < n * k + n, n * l <= t, t < n * l + n
  PROVE  k = l
<1>1. ASSUME NEW x \in Int, NEW y \in Int, x < y PROVE n * x + n <= n * y
  BY <1>1
<1> QED
  BY <1>1

ChartInv == hour \in Nat /\ \A r \in rows : r.created \in Nat

LEMMA ChartStep == ChartInv /\ [ActivityNext]_activityVars => ChartInv'
BY DEF ChartInv, ActivityNext, HourPasses, CreateRow, activityVars

LEMMA InvHistogram == ChartInv => ChartIsHistogram
<1> SUFFICES ASSUME ChartInv, NEW query \in Queries
             PROVE  LET mode == Chosen(query)[1]
                        n    == Chosen(query)[2]
                        size == BucketSize(mode)
                        last == LastBucket(mode) IN
                    /\ last <= hour /\ hour < last + size
                    /\ \A i \in 0 .. n - 1, kind \in Kind \ {"retention"} :
                         LET b == last - i * size IN
                         Bar(mode, n, b, kind) =
                           Cardinality({r \in rows : r.kind = kind /\ b <= r.created
                                                     /\ r.created < b + size})
  BY DEF ChartIsHistogram
<1> DEFINE mode == Chosen(query)[1]
           n    == Chosen(query)[2]
           size == BucketSize(mode)
           last == LastBucket(mode)
<1>1. mode \in Mode /\ n \in Int
  BY DEF Chosen, Mode
<1>2. last = BucketOf(mode, hour)
  BY <1>1 DEF Mode, LastBucket, BucketOf, Week
<1> HIDE DEF mode, n, last
<1>3. size \in Nat \ {0} /\ Offset(mode) \in Int
  BY <1>1, SizeType
<1>4. PICK k0 \in Int : last = size * k0 + Offset(mode) /\ last <= hour /\ hour < last + size
  BY <1>1, <1>2, BucketFits DEF ChartInv
<1>5. ASSUME NEW i \in 0 .. n - 1, NEW kind \in Kind \ {"retention"}
      PROVE  Bar(mode, n, last - i * size, kind) =
               Cardinality({r \in rows : r.kind = kind /\ last - i * size <= r.created
                                         /\ r.created < last - i * size + size})
  <2> DEFINE b == last - i * size
  <2>1. i \in Int
    BY <1>1
  <2>2. b = size * (k0 - i) + Offset(mode) /\ b \in Int
    BY <1>3, <1>4, <2>1
  <2>3. b \in Buckets(mode, n)
    BY DEF Buckets, last
  <2> HIDE DEF b, size
  <2>4. ASSUME NEW r \in rows
        PROVE  BucketOf(mode, r.created) = b <=> b <= r.created /\ r.created < b + size
    <3>1. r.created \in Nat
      BY DEF ChartInv
    <3>2. PICK k \in Int : /\ BucketOf(mode, r.created) = size * k + Offset(mode)
                           /\ BucketOf(mode, r.created) <= r.created
                           /\ r.created < BucketOf(mode, r.created) + size
      BY <1>1, <3>1, BucketFits DEF size
    <3>3. ASSUME b <= r.created, r.created < b + size PROVE k = k0 - i
      <4> DEFINE t == r.created - Offset(mode)
                 l == k0 - i
      <4>1. t \in Int /\ l \in Int
        BY <1>3, <2>1, <3>1
      <4>2. size * k \in Int /\ size * l \in Int
        BY <1>3, <4>1
      <4>3. size * k <= t /\ t < size * k + size
        BY <1>3, <3>1, <3>2, <4>2
      <4>4. size * l <= t /\ t < size * l + size
        BY <1>3, <2>2, <3>1, <3>3, <4>2
      <4> QED
        BY <1>3, <4>1, <4>3, <4>4, OneBucket
    <3> QED
      BY <2>2, <3>2, <3>3
  <2>5. {r \in rows : r.kind = kind /\ BucketOf(mode, r.created) = b}
          = {r \in rows : r.kind = kind /\ b <= r.created /\ r.created < b + size}
    BY <2>4
  <2>6. Bar(mode, n, b, kind) = Cardinality({r \in rows : r.kind = kind /\ BucketOf(mode, r.created) = b})
    BY <2>3 DEF Bar
  <2> QED
    BY <2>5, <2>6 DEF b
<1> QED
  BY <1>4, <1>5 DEF mode, n, last

\* The bars of the activity chart are a histogram, for days of any length and charts
\* of any number of hours, days or weeks (health_activity.go:133).
THEOREM ChartsAreHistograms == ActivitySpec => []ChartIsHistogram
<1>1. ActivityInit => ChartInv
  BY DEF ActivityInit, ChartInv
<1>2. ChartInv /\ [ActivityNext]_activityVars => ChartInv'
  BY ChartStep
<1>3. ChartInv => ChartIsHistogram
  BY InvHistogram
<1> QED
  BY <1>1, <1>2, <1>3, PTL DEF ActivitySpec
=============================================================================
