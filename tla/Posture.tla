------------------------------ MODULE Posture ------------------------------
(***************************************************************************)
(* The catalog as the health score sees it: systems, repositories,         *)
(* policies, jobs, snapshots and restore tests with their foreign keys     *)
(* (internal/catalog, migrations), the writes of the operators' and the    *)
(* agents' endpoints, and the three readers: GET /v1/health/score, the     *)
(* Prometheus collector and the health of the repositories.                *)
(*                                                                         *)
(* A row appears when it starts to count: jobs and restore tests that have *)
(* not ended are in no score.  The lists one answer is made from are taken *)
(* at one instant, and none of them fails.  Points in time are the classes *)
(* of HealthScore: 24 hours for jobs, 30 days for restore tests.           *)
(***************************************************************************)
EXTENDS HealthScore, FiniteSets

CONSTANTS
  System, Repo, Policy,
  Job,       \* rows of backup_jobs; a job has one snapshot at most, named after it
  Test,      \* rows of restore_tests
  SystemOf,  \* Job -> its system
  PolicyOf,  \* Job -> its policy
  NoRepo,    \* a policy without a repository; a job without a snapshot
  NoRow      \* no row of its table that counts

VARIABLES
  seen,      \* System -> "none" without a row, else the class of last_seen
  repos,     \* Repo -> its row: the provenance of encryption and of immutability
  policies,  \* Policy -> its row: the repository, and whether it has keep rules
  jobs,      \* Job -> its row, once it has ended
  snaps,     \* Job -> the repository of its snapshot
  tests      \* Test -> its row, while it is a success

vars == <<seen, repos, policies, jobs, snaps, tests>>

Seen       == {"none", "never", "online", "idle", "long"}
Provenance == {"UNKNOWN", "DECLARED", "VERIFIED"}
RepoRow    == [encryption : Provenance, immutability : Provenance]
PolicyRow  == [repo : Repo \union {NoRepo}, rules : BOOLEAN]
JobRow     == [type : {"backup", "retention"}, status : {"success", "failed"},
               created : Age \ {"never"}, finished : Age]
\* "ended" is when the test really ended, whatever finished_at says.
TestRow    == [snap : Job, finished : Age, ended : Age \ {"never"}]

ASSUME PostureAssumption ==
  /\ IsFiniteSet(System) /\ IsFiniteSet(Repo) /\ IsFiniteSet(Policy) /\ IsFiniteSet(Job) /\ IsFiniteSet(Test)
  /\ SystemOf \in [Job -> System] /\ PolicyOf \in [Job -> Policy]
  /\ NoRepo \notin Repo /\ NoRow \notin RepoRow \union PolicyRow \union JobRow \union TestRow

Systems   == {s \in System : seen[s] # "none"}
Repos     == {r \in Repo : repos[r] # NoRow}
Policies  == {p \in Policy : policies[p] # NoRow}
Ended     == {j \in Job : jobs[j] # NoRow}
Snapshots == {j \in Job : snaps[j] # NoRepo}
Passed    == {t \in Test : tests[t] # NoRow}

Init ==
  /\ seen = [s \in System |-> "none"] /\ repos = [r \in Repo |-> NoRow]
  /\ policies = [p \in Policy |-> NoRow] /\ jobs = [j \in Job |-> NoRow]
  /\ snaps = [j \in Job |-> NoRepo] /\ tests = [t \in Test |-> NoRow]

(***************************************************************************)
(* Systems.                                                                *)
(***************************************************************************)

CreateSystem(s) ==
  /\ seen[s] = "none"
  /\ seen' = [seen EXCEPT ![s] = "never"]
  /\ UNCHANGED <<repos, policies, jobs, snaps, tests>>

Heartbeat(s) ==
  /\ s \in Systems
  /\ seen' = [seen EXCEPT ![s] = "online"]
  /\ UNCHANGED <<repos, policies, jobs, snaps, tests>>

\* PUT writes the whole row, and last_seen with it: what the body holds, or nothing.
UpdateSystem(s, to) ==
  /\ s \in Systems
  /\ seen' = [seen EXCEPT ![s] = to]
  /\ UNCHANGED <<repos, policies, jobs, snaps, tests>>

\* The jobs of a system keep it; its tokens and restore tests go with it.
DeleteSystem(s) ==
  /\ s \in Systems /\ \A j \in Ended : SystemOf[j] # s
  /\ seen' = [seen EXCEPT ![s] = "none"]
  /\ UNCHANGED <<repos, policies, jobs, snaps, tests>>

(***************************************************************************)
(* Repositories and policies.                                              *)
(***************************************************************************)

\* Variant: what an operator declares is believed.
BelievedPosture(encrypted, protected) ==
  [encryption |-> IF encrypted THEN "VERIFIED" ELSE "UNKNOWN",
   immutability |-> IF protected THEN "VERIFIED" ELSE "UNKNOWN"]

DeclaredPosture(encrypted, protected) ==
  [encryption |-> IF encrypted THEN "DECLARED" ELSE "UNKNOWN",
   immutability |-> IF protected THEN "DECLARED" ELSE "UNKNOWN"]

\* POST inserts, PUT writes over; both derive the posture anew.
CreateRepository(r, encrypted, protected) ==
  /\ r \notin Repos
  /\ repos' = [repos EXCEPT ![r] = DeclaredPosture(encrypted, protected)]
  /\ UNCHANGED <<seen, policies, jobs, snaps, tests>>

UpdateRepository(r, encrypted, protected) ==
  /\ r \in Repos
  /\ repos' = [repos EXCEPT ![r] = DeclaredPosture(encrypted, protected)]
  /\ UNCHANGED <<seen, policies, jobs, snaps, tests>>

\* Policies and snapshots refer to it without ON DELETE.
DeleteRepository(r) ==
  /\ r \in Repos
  /\ \A p \in Policies : policies[p].repo # r
  /\ \A j \in Snapshots : snaps[j] # r
  /\ repos' = [repos EXCEPT ![r] = NoRow]
  /\ UNCHANGED <<seen, policies, jobs, snaps, tests>>

\* POST and PUT; the repository has to exist.
WritePolicy(p, row) ==
  /\ row.repo \in Repos \union {NoRepo}
  /\ policies' = [policies EXCEPT ![p] = row]
  /\ UNCHANGED <<seen, repos, jobs, snaps, tests>>

DeletePolicy(p) ==
  /\ p \in Policies /\ \A j \in Ended : PolicyOf[j] # p
  /\ policies' = [policies EXCEPT ![p] = NoRow]
  /\ UNCHANGED <<seen, repos, jobs, snaps, tests>>

(***************************************************************************)
(* Jobs, snapshots and restore tests.                                      *)
(***************************************************************************)

\* A job ends now; an operator's PUT may leave finished_at empty.
JobEnds(j, type, status, created, finished) ==
  /\ j \notin Ended /\ SystemOf[j] \in Systems /\ PolicyOf[j] \in Policies
  /\ finished # "old"
  /\ jobs' = [jobs EXCEPT ![j] = [type |-> type, status |-> status, created |-> created,
                                  finished |-> finished]]
  /\ UNCHANGED <<seen, repos, policies, snaps, tests>>

\* An operator's PUT of the status.
EditJob(j, status) ==
  /\ j \in Ended
  /\ jobs' = [jobs EXCEPT ![j].status = status]
  /\ UNCHANGED <<seen, repos, policies, snaps, tests>>

\* A snapshot is registered in the repository its job's policy has by then.
CreateSnapshot(j) ==
  /\ j \in Ended \ Snapshots
  /\ jobs[j].type = "backup" /\ jobs[j].status = "success"
  /\ PolicyOf[j] \in Policies /\ policies[PolicyOf[j]].repo # NoRepo
  /\ snaps' = [snaps EXCEPT ![j] = policies[PolicyOf[j]].repo]
  /\ UNCHANGED <<seen, repos, policies, jobs, tests>>

\* Restore tests go with their snapshot.
DeleteSnapshot(j) ==
  /\ j \in Snapshots
  /\ snaps' = [snaps EXCEPT ![j] = NoRepo]
  /\ tests' = [t \in Test |-> IF t \in Passed /\ tests[t].snap = j THEN NoRow ELSE tests[t]]
  /\ UNCHANGED <<seen, repos, policies, jobs>>

DeleteJob(j) ==
  /\ j \in Ended \ Snapshots
  /\ jobs' = [jobs EXCEPT ![j] = NoRow]
  /\ UNCHANGED <<seen, repos, policies, snaps, tests>>

\* The agent's report of a success leaves finished_at as it is.
CompleteAgentRestoreTest(t, j) ==
  /\ j \in Snapshots /\ t \notin Passed
  /\ tests' = [tests EXCEPT ![t] = [snap |-> j, finished |-> "never", ended |-> "fresh"]]
  /\ UNCHANGED <<seen, repos, policies, jobs, snaps>>

\* The operator's sets it, also of a test that is a success already.
CompleteRestoreTest(t, j) ==
  /\ j \in Snapshots /\ (t \in Passed => tests[t].snap = j)
  /\ tests' = [tests EXCEPT ![t] = [snap |-> j, finished |-> "fresh", ended |-> "fresh"]]
  /\ UNCHANGED <<seen, repos, policies, jobs, snaps>>

\* A success is started again, failed or deleted.
LoseRestoreTest(t) ==
  /\ t \in Passed
  /\ tests' = [tests EXCEPT ![t] = NoRow]
  /\ UNCHANGED <<seen, repos, policies, jobs, snaps>>

(***************************************************************************)
(* Time passes: minutes for heartbeats, a day for jobs, a month for tests. *)
(***************************************************************************)

Aged(age) == IF age = "fresh" THEN "old" ELSE age

MinutesPass ==
  /\ seen' = [s \in System |-> CASE seen[s] = "online" -> "idle"
                                 [] seen[s] = "idle" -> "long"
                                 [] OTHER -> seen[s]]
  /\ UNCHANGED <<repos, policies, jobs, snaps, tests>>

DayPasses ==
  /\ seen' = [s \in System |-> IF seen[s] \in {"online", "idle"} THEN "long" ELSE seen[s]]
  /\ jobs' = [j \in Job |-> IF j \in Ended
                            THEN [jobs[j] EXCEPT !.created = "old", !.finished = Aged(@)]
                            ELSE NoRow]
  /\ UNCHANGED <<repos, policies, snaps>>

MonthPasses ==
  /\ DayPasses
  /\ tests' = [t \in Test |-> IF t \in Passed
                              THEN [tests[t] EXCEPT !.finished = Aged(@), !.ended = "old"]
                              ELSE NoRow]

(***************************************************************************)
(* The readers.                                                            *)
(***************************************************************************)

Of(type, status) == {j \in Ended : jobs[j].type = type /\ jobs[j].status = status}

Newest(ages) == IF "fresh" \in ages THEN "fresh" ELSE IF "old" \in ages THEN "old" ELSE "never"

\* What both readers collect; they differ in the jobs and in how they count tests.
Counting(failed, all, verified) ==
  [systems |-> Cardinality(Systems),
   idle |-> Cardinality({s \in System : seen[s] = "idle"}),
   offline |-> Cardinality({s \in System : seen[s] \in {"never", "long"}}),
   jobs |-> Cardinality(all),
   failed |-> Cardinality(failed),
   failedLast24h |-> Cardinality({j \in failed : jobs[j].created = "fresh"}),
   lastSuccess |-> Newest({jobs[j].finished : j \in Of("backup", "success")}),
   snapshots |-> Cardinality(Snapshots),
   verified |-> verified,
   lastRestoreTest |-> Newest({tests[t].finished : t \in Passed}),
   repos |-> Cardinality(Repos),
   unprotected |-> Cardinality({r \in Repos : repos[r].immutability # "VERIFIED"}),
   unencrypted |-> Cardinality({r \in Repos : repos[r].encryption # "VERIFIED"}),
   retention |-> Cardinality({p \in Policies : policies[p].rules})]

\* Snapshots for which some test is a success.
CountVerifiedSnapshots == Cardinality({j \in Snapshots : \E t \in Passed : tests[t].snap = j})

\* computeScore: backup jobs only.
ApiInput ==
  Counting(Of("backup", "failed"), Of("backup", "success") \union Of("backup", "failed"),
           CountVerifiedSnapshots)

\* Variant: a snapshot that was tested twice counts twice.
CountTests == Cardinality({t \in Passed : tests[t].snap \in Snapshots})

\* The collector goes through the tests and counts each snapshot once.
CountDedup == Cardinality({tests[t].snap : t \in {u \in Passed : tests[u].snap \in Snapshots}})

\* The collector: jobs of every type, counted by their status.
CollectorInput ==
  LET failed == {j \in Ended : jobs[j].status = "failed"} IN
  Counting(failed, Ended, CountDedup)

CatalogNext ==
  \/ \E s \in System : CreateSystem(s) \/ DeleteSystem(s)
  \/ \E s \in System, to \in {"never", "online", "long"} : UpdateSystem(s, to)
  \/ \E r \in Repo, e, i \in BOOLEAN : CreateRepository(r, e, i) \/ UpdateRepository(r, e, i)
  \/ \E r \in Repo : DeleteRepository(r)
  \/ \E p \in Policy, row \in PolicyRow : WritePolicy(p, row)
  \/ \E p \in Policy : DeletePolicy(p)

WorkNext ==
  \/ \E s \in System : Heartbeat(s)
  \/ \E j \in Job, type \in {"backup", "retention"}, status \in {"success", "failed"},
        created \in Age \ {"never"}, finished \in Age : JobEnds(j, type, status, created, finished)
  \/ \E j \in Job, status \in {"success", "failed"} : EditJob(j, status)
  \/ \E j \in Job : CreateSnapshot(j) \/ DeleteSnapshot(j) \/ DeleteJob(j)
  \/ \E t \in Test, j \in Job : CompleteAgentRestoreTest(t, j) \/ CompleteRestoreTest(t, j)
  \/ \E t \in Test : LoseRestoreTest(t)

TimeNext ==
  \/ MinutesPass
  \/ DayPasses /\ UNCHANGED tests
  \/ MonthPasses

Next == CatalogNext \/ WorkNext \/ TimeNext

Spec == Init /\ [][Next]_vars

(***************************************************************************)
(* Properties.                                                             *)
(***************************************************************************)

TypeOK ==
  /\ seen \in [System -> Seen] /\ repos \in [Repo -> RepoRow \union {NoRow}]
  /\ policies \in [Policy -> PolicyRow \union {NoRow}]
  /\ jobs \in [Job -> JobRow \union {NoRow}] /\ snaps \in [Job -> Repo \union {NoRepo}]
  /\ tests \in [Test -> TestRow \union {NoRow}]
  /\ ApiInput \in Input /\ CollectorInput \in Input
  /\ Score(ApiInput) \in 0 .. 100

\* A catalog in use is called "Good" or better only if every snapshot has passed a
\* restore test, a backup has succeeded within 24 hours and none that was begun within
\* them has failed, and its only critical alert can be an agent that is away
\* (score.go:98-147).
LabelIsEarned ==
  Systems # {} /\ Repos # {} /\ Classify(Score(ApiInput)) \in {"Excellent", "Good"} =>
    /\ \A j \in Snapshots : \E t \in Passed : tests[t].snap = j
    /\ \E j \in Of("backup", "success") : jobs[j].finished = "fresh"
    /\ \A j \in Of("backup", "failed") : jobs[j].created = "old"
    /\ Alerts(ApiInput, "critical") \subseteq {"agents_offline"}

\* Nothing an operator declares about a repository earns a point: as long as there is
\* one, the score stays 15 points below the top, because no write of the program ever
\* verifies a posture (score.go:70, models.go:77).
NoCreditForDeclarations ==
  Repos # {} => Score(ApiInput) <= 85 /\ Score(CollectorInput) <= 85

\* The two readers, which count in different ways, show the same score as long as no
\* retention job has ended (collector.go:246, health_score.go:46).
ScoresAgree ==
  (\A j \in Ended : jobs[j].type = "backup") => Score(ApiInput) = Score(CollectorInput)

GoodNews ==
  \/ \E s \in System : Heartbeat(s)
  \/ \E t \in Test, j \in Job : CompleteAgentRestoreTest(t, j) \/ CompleteRestoreTest(t, j)

BadNews ==
  \/ \E j \in Job, type \in {"backup", "retention"}, created \in Age \ {"never"}, finished \in Age :
       JobEnds(j, type, "failed", created, finished)
  \/ \E j \in Job : EditJob(j, "failed")
  \/ \E t \in Test : LoseRestoreTest(t)
  \/ MinutesPass

\* No heartbeat and no restore test that passes ever lowers the score, and no failed
\* job, lost test or missing heartbeat raises it, whatever the other sections deduct
\* (score.go:98-171).
ScoreFollowsEvents ==
  [][\A before \in {ApiInput}, after \in {ApiInput'} :
       /\ Score(after) < Score(before) => ~GoodNews
       /\ Score(after) > Score(before) => ~BadNews]_vars

\* What the deduction tells the operator: that no restore test has passed for 30 days.
StaleMeansOld ==
  TestFreshness(ApiInput) > 0 => \A t \in Passed : tests[t].ended = "old"
=============================================================================
