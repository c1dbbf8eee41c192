--------------------------- MODULE RecoveryProofs ---------------------------
(***************************************************************************)
(* Restore tests and retention, for any number of snapshots, tests, edits  *)
(* and retention jobs: the rows are well typed, a test runs at most once   *)
(* and its success is earned, the catalog follows the repository, and a    *)
(* tested snapshot remains.                                                *)
(***************************************************************************)
EXTENDS Retention, FiniteSetTheorems, TLAPS

USE RestoreAssumption, RetentionAssumption DEF RestoreAssumption, RetentionAssumption

(***************************************************************************)
(* The invariant.                                                          *)
(***************************************************************************)

\* The catalog, the repository and the client know only snapshots that were made.
Numbers ==
  /\ cat \subseteq 1 .. made /\ repo \subseteq 1 .. made /\ unlisted \subseteq 1 .. made
  /\ client.cand \subseteq 1 .. made /\ client.listed \subseteq 1 .. made
  /\ client.gone \subseteq 1 .. made
  /\ client.stage \in {"idle", "asking", "validating"} => client.gone = {}
  /\ client.stage \in {"forgotten", "cleaning"} => client.gone \cap repo = {}

\* Whoever has a test has one.
Carried ==
  /\ \A e \in Endpoint : held[e] = Nothing \/ held[e].test \in Test
  /\ agent.phase # "idle" => agent.test \in Test

\* Rows are created in the order of their numbers.
Order == \E n \in 0 .. MaxTests : \A t \in Test : status[t] # "none" <=> t <= n

\* A test's row refers to a snapshot's row.
References == \A t \in Test : Exists(t) => snapOf[t] \in cat

\* No write puts a test back into the queue.
WritesBack ==
  \A e \in Endpoint : held[e] = Nothing \/ held[e].to \in {"running", "success", "failed"}

Claimed ==
  \A t \in Test : /\ claims[t] <= 1
                  /\ status[t] \in {"none", "pending"} => claims[t] = 0

\* A success is earned where it is recorded, on the way and at the agent.
Earned ==
  /\ SuccessIsEarned
  /\ held["agent"].to = "success" /\ TargetOf[held["agent"].test] # "directory"
       => held["agent"].test \in proven
  /\ agent.phase = "restored" /\ TargetOf[agent.test] # "directory" => agent.test \in proven

\* Snapshots with a test that is a success.
Tested == {s \in Snap : \E t \in Test : status[t] = "success" /\ snapOf[t] = s}

\* While the client works on its lists, one of the tested snapshots is in none of them,
\* or will be taken out of them.
Kept ==
  /\ CatalogMatchesRepository
  /\ ~spoiled =>
       /\ client.stage = "validating" => client.listed \subseteq cat
       /\ owed => /\ repo \cap Tested # {}
                  /\ client.stage = "validating" => client.listed \cap Tested # {}
                  /\ client.stage = "approved" => (repo \ client.gone) \cap Tested # {}

IInv ==
  /\ TypeOK /\ Carried /\ WritesBack /\ Numbers /\ Order /\ References /\ Claimed /\ Earned
  /\ Kept

(***************************************************************************)
(* Type correctness.                                                       *)
(***************************************************************************)

LEMMA InitInv == Init => IInv
<1> SUFFICES ASSUME Init PROVE IInv
  OBVIOUS
<1> USE DEF Init, RestoreInit
<1>1. TypeOK /\ Carried
  <2>1. Nothing \in [test : Test \union {0}, to : Status]
    BY DEF Nothing, Status
  <2>2. Resting \in [stage : Stages, job : RetentionJob \union {NoRetention},
                    cand : SUBSET Snap, listed : SUBSET Snap, gone : SUBSET Snap]
    BY DEF Resting, Stages
  <2>3. rjob \in [RetentionJob -> {"none", "pending", "success", "failed"}]
    OBVIOUS
  <2>4. RestoreTypeOK
    <3>1. Idle \in [phase : {"idle", "claimed", "loaded", "restored", "broken"},
                   test : Test \union {0}]
      BY DEF Idle
    <3>2. held \in [Endpoint -> [test : Test \union {0}, to : Status]]
      BY <2>1
    <3>3. status \in [Test -> Status] /\ snapOf \in [Test -> Snap \union {0}]
      BY DEF Status
    <3>4. claims \in [Test -> Nat]
      OBVIOUS
    <3>5. made \in 0 .. MaxSnaps /\ edits \in 0 .. MaxEdits
      OBVIOUS
    <3> HIDE DEF Init, RestoreInit
    <3>6. /\ stale \subseteq Test /\ cat \subseteq Snap /\ repo \subseteq Snap
          /\ unlisted \subseteq Snap
          /\ latest \in Snap \union {0} /\ proven \subseteq Test /\ vouched \subseteq Test
          /\ spoiled \in BOOLEAN /\ agent = Idle
      BY DEF Init, RestoreInit
    <3> QED
      BY <3>1, <3>2, <3>3, <3>4, <3>5, <3>6 DEF RestoreTypeOK
  <2> QED
    BY <2>2, <2>3, <2>4 DEF TypeOK, Carried, Idle
<1>2. Numbers /\ Order /\ References
  <2>1. \A t \in Test : status[t] # "none" <=> t <= 0
    BY DEF Test
  <2> QED
    BY <2>1 DEF Numbers, Order, References, Exists, Resting
<1>3. WritesBack /\ Claimed /\ Earned
  BY DEF WritesBack, Claimed, Earned, SuccessIsEarned, Nothing, Idle, Endpoint
<1>4. Kept
  BY DEF Kept, CatalogMatchesRepository, Resting
<1> QED
  BY <1>1, <1>2, <1>3, <1>4 DEF IInv

\* Every handler and the agent have a test of the table, or none.
LEMMA CarriedStays == TypeOK /\ Carried /\ [Next]_vars => Carried'
<1> SUFFICES ASSUME TypeOK, Carried, [Next]_vars PROVE Carried'
  OBVIOUS
<1> USE DEF Carried
<1>1. ASSUME NEW t \in Test, NEW to \in {"running", "success", "failed"}, LoadRestoreTest(t, to)
      PROVE  Carried'
  BY <1>1 DEF LoadRestoreTest, TypeOK, RestoreTypeOK
<1>2. ASSUME NEW e \in Endpoint, Store(e) \/ Refuse(e) PROVE Carried'
  BY <1>2 DEF Store, Refuse, TypeOK, RestoreTypeOK
<1>3. ASSUME NEW t \in Test, ClaimNextPending(t) PROVE Carried'
  BY <1>3 DEF ClaimNextPending, Idle
<1>4. CASE LoadSnapshot \/ \E o \in RunOutcome : Restore(o)
  <2>1. agent.phase # "idle" /\ agent'.test = agent.test /\ UNCHANGED held
    BY <1>4 DEF LoadSnapshot, Restore, AgentMoves, TypeOK, RestoreTypeOK
  <2> QED
    BY <2>1
<1>5. CASE Report
  BY <1>5 DEF Report, TypeOK, RestoreTypeOK, Idle
<1>6. CASE AgentStops
  BY <1>6 DEF AgentStops, Idle
<1>7. \/ UNCHANGED <<held, agent>>
      \/ AgentNext
      \/ \E t \in Test, to \in {"running", "success", "failed"} : LoadRestoreTest(t, to)
      \/ \E e \in Endpoint : Store(e) \/ Refuse(e)
  BY DEF Next, RestoreNext, OperatorNext, vars, restoreVars, NewJob, BackupEnds, RegisterSnapshot,
         CreateSnapshot, Register, Create, DispatchRestoreTest, CreateRestoreTest,
         DeleteSnapshot, DeleteTest, CleanStale,
         CleanFails, ListStale, DispatchRetention, ReapPending, TakeRetentionJob, ListSnapshots,
         Validate, Forget, NothingToForget, CompleteRetentionJob, RemoveFromCatalog,
         FailRetentionJob, ClientStops
<1> QED
  BY <1>1, <1>2, <1>3, <1>4, <1>5, <1>6, <1>7 DEF AgentNext

\* The steps of the operators and of the scheduler.
LEMMA OperatorTypes ==
  ASSUME TypeOK, UNCHANGED <<rjob, client, owed>>,
         \/ NewJob \/ BackupEnds \/ DispatchRestoreTest \/ OperatorNext
         \/ \E s \in Snap : RegisterSnapshot(s)
  PROVE  TypeOK'
<1> USE DEF TypeOK, RestoreTypeOK
<1>1. CASE NewJob
  BY <1>1 DEF NewJob, testVars, ghostVars
<1>2. CASE BackupEnds
  BY <1>2 DEF BackupEnds, testVars, ghostVars, Snap
<1>3. ASSUME NEW s \in Snap, Create(s) PROVE TypeOK'
  BY <1>3 DEF Create, snapVars, ghostVars, Status
<1>4. CASE DispatchRestoreTest
  BY <1>3, <1>4 DEF DispatchRestoreTest
<1>5. ASSUME NEW s \in Snap, DeleteSnapshot(s) PROVE TypeOK'
  BY <1>5 DEF DeleteSnapshot, Cascade, ghostVars, Status
<1>6. ASSUME NEW t \in Test, DeleteTest(t) PROVE TypeOK'
  BY <1>6 DEF DeleteTest, snapVars, ghostVars, Status
<1>7. ASSUME NEW t \in Test, NEW to \in {"running", "success", "failed"}, LoadRestoreTest(t, to)
      PROVE  TypeOK'
  BY <1>7 DEF LoadRestoreTest, testVars, snapVars, ghostVars, Status, Endpoint
<1>8. ASSUME NEW s \in Snap, RegisterSnapshot(s) \/ CreateSnapshot(s) PROVE TypeOK'
  <2>1. Register(s) /\ edits' \in 0 .. MaxEdits
    BY <1>8 DEF RegisterSnapshot, CreateSnapshot
  <2> QED
    BY <2>1 DEF Register, testVars, ghostVars
<1> QED
  BY <1>1, <1>2, <1>3, <1>4, <1>5, <1>6, <1>7, <1>8 DEF OperatorNext, CreateRestoreTest

\* The steps of the agent, of the endpoints and of the cleaner.
LEMMA AgentTypes ==
  ASSUME TypeOK, Carried, UNCHANGED <<rjob, client, owed>>,
         \/ AgentNext
         \/ \E e \in Endpoint : Store(e) \/ Refuse(e)
         \/ \E t \in Test : CleanStale(t) \/ CleanFails(t)
         \/ \E old \in SUBSET Test : ListStale(old)
  PROVE  TypeOK'
<1> USE DEF TypeOK, RestoreTypeOK
<1>1. ASSUME NEW t \in Test, ClaimNextPending(t) PROVE TypeOK'
  BY <1>1 DEF ClaimNextPending, snapVars, Status, Idle
<1>2. CASE LoadSnapshot \/ \E o \in RunOutcome : Restore(o)
  <2>1. agent' = [agent EXCEPT !.phase = agent'.phase]
        /\ agent'.phase \in {"loaded", "broken", "restored"}
    BY <1>2 DEF LoadSnapshot, Restore, AgentMoves
  <2>2. proven' \subseteq Test
    BY <1>2 DEF LoadSnapshot, Restore, Carried
  <2>3. UNCHANGED <<testVars, held, stale, snapVars, edits, claims, vouched, spoiled>>
    BY <1>2 DEF LoadSnapshot, Restore, AgentMoves
  <2> QED
    BY <2>1, <2>2, <2>3 DEF testVars, snapVars
<1>3. CASE Report
  BY <1>3 DEF Report, testVars, snapVars, ghostVars, Status, Endpoint, Exists, Idle
<1>4. CASE AgentStops
  BY <1>4 DEF AgentStops, testVars, snapVars, ghostVars, Idle
<1>5. ASSUME NEW e \in Endpoint, Store(e) PROVE TypeOK'
  <2>1. held[e] \in [test : Test \union {0}, to : Status] /\ Nothing.test = 0
    BY DEF Nothing
  <2>2. status' \in [Test -> Status] /\ spoiled' \in BOOLEAN
    BY <1>5, <2>1 DEF Store, Update
  <2>3. vouched' \subseteq Test
    BY <1>5 DEF Store, Carried
  <2> QED
    BY <1>5, <2>2, <2>3 DEF Store, snapVars, Nothing, Status
<1>6. ASSUME NEW e \in Endpoint, Refuse(e) PROVE TypeOK'
  BY <1>6 DEF Refuse, testVars, snapVars, ghostVars, Nothing, Status
<1>7. ASSUME NEW t \in Test, CleanStale(t) \/ CleanFails(t) PROVE TypeOK'
  <2>1. CASE CleanStale(t)
    <3>1. status' \in [Test -> Status] /\ spoiled' \in BOOLEAN
      BY <2>1 DEF CleanStale, Update, Status
    <3>2. stale' = stale \ {t} /\ UNCHANGED <<snapOf, held, agent, snapVars, edits, ghostVars>>
      BY <2>1 DEF CleanStale
    <3> QED
      BY <3>1, <3>2 DEF snapVars, ghostVars
  <2>2. CASE CleanFails(t)
    BY <2>2 DEF CleanFails, testVars, snapVars, ghostVars
  <2> QED
    BY <1>7, <2>1, <2>2
<1>8. ASSUME NEW old \in SUBSET Test, ListStale(old) PROVE TypeOK'
  BY <1>8 DEF ListStale, testVars, snapVars, ghostVars
<1> QED
  BY <1>1, <1>2, <1>3, <1>4, <1>5, <1>6, <1>7, <1>8 DEF AgentNext

\* The steps of the retention client.
LEMMA ClientTypes ==
  ASSUME TypeOK,
         \/ \E r \in RetentionJob : DispatchRetention(r) \/ ReapPending(r) \/ TakeRetentionJob(r)
         \/ ListSnapshots \/ Validate \/ Forget \/ NothingToForget
         \/ CompleteRetentionJob \/ RemoveFromCatalog \/ FailRetentionJob \/ ClientStops
  PROVE  TypeOK'
<1> DEFINE Client == [stage : Stages, job : RetentionJob \union {NoRetention},
                      cand : SUBSET Snap, listed : SUBSET Snap, gone : SUBSET Snap]
           JobTypes == [RetentionJob -> {"none", "pending", "success", "failed"}]
<1>0. RestoreTypeOK /\ rjob \in JobTypes /\ client \in Client /\ owed \in BOOLEAN
  BY DEF TypeOK
<1>a. Resting \in Client
  BY DEF Resting, Stages
<1>b. client.job \in RetentionJob \union {NoRetention} /\ client.cand \subseteq Snap
      /\ client.listed \subseteq Snap /\ client.gone \subseteq Snap
  BY <1>0
<1>c. ASSUME NEW x \in Client, NEW stage \in Stages PROVE [x EXCEPT !.stage = stage] \in Client
  OBVIOUS
<1>d. ASSUME UNCHANGED restoreVars PROVE RestoreTypeOK'
  BY <1>0, <1>d DEF RestoreTypeOK, restoreVars, testVars, snapVars, ghostVars
<1>e. ASSUME RestoreTypeOK', rjob' \in JobTypes, client' \in Client, owed' \in BOOLEAN
      PROVE  TypeOK'
  BY <1>e DEF TypeOK
<1> HIDE DEF Client, JobTypes
<1>f. ASSUME NEW r, NEW to \in {"none", "pending", "success", "failed"},
             rjob' = [rjob EXCEPT ![r] = to]
      PROVE  rjob' \in JobTypes
  BY <1>0, <1>f DEF JobTypes
<1>1. ASSUME NEW r \in RetentionJob, DispatchRetention(r) PROVE TypeOK'
  <2>1. RestoreTypeOK'
    BY <1>0, <1>1 DEF DispatchRetention, RestoreTypeOK, testVars, ghostVars
  <2>2. rjob' \in JobTypes /\ UNCHANGED <<client, owed>>
    BY <1>1, <1>f DEF DispatchRetention
  <2> QED
    BY <1>0, <1>e, <2>1, <2>2
<1>2. ASSUME NEW r \in RetentionJob, ReapPending(r) PROVE TypeOK'
  <2>1. rjob' \in JobTypes /\ UNCHANGED <<restoreVars, client, owed>>
    BY <1>2, <1>f DEF ReapPending
  <2> QED
    BY <1>0, <1>d, <1>e, <2>1
<1>3. ASSUME NEW r \in RetentionJob, TakeRetentionJob(r) PROVE TypeOK'
  <2>1. PICK cand \in SUBSET repo :
          client' = [Resting EXCEPT !.stage = "asking", !.job = r, !.cand = cand]
    BY <1>3 DEF TakeRetentionJob, Step
  <2>2. repo \subseteq Snap
    BY <1>0 DEF RestoreTypeOK
  <2>3. client' \in Client
    BY <1>a, <2>1, <2>2 DEF Client, Stages
  <2>4. UNCHANGED <<restoreVars, rjob, owed>>
    BY <1>3 DEF TakeRetentionJob
  <2> QED
    BY <1>0, <1>d, <1>e, <2>3, <2>4
<1>4. CASE ListSnapshots \/ NothingToForget
  <2>1. client' \in {[client EXCEPT !.stage = "validating", !.listed = cat],
                     [client EXCEPT !.stage = "forgotten"]}
        /\ UNCHANGED <<restoreVars, rjob, owed>>
    BY <1>4 DEF ListSnapshots, NothingToForget, Step
  <2>2. cat \subseteq Snap
    BY <1>0 DEF RestoreTypeOK
  <2>3. client' \in Client
    BY <1>0, <2>1, <2>2 DEF Client, Stages
  <2> QED
    BY <1>0, <1>d, <1>e, <2>1, <2>3
<1>5. CASE Validate
  <2>1. PICK gone \in SUBSET client.cand :
          client' = [client EXCEPT !.stage = "approved", !.cand = {}, !.listed = {}, !.gone = gone]
    BY <1>5 DEF Validate, Step
  <2>2. client' \in Client
    BY <1>0, <1>b, <2>1 DEF Client, Stages
  <2>3. owed' \in BOOLEAN /\ UNCHANGED <<restoreVars, rjob>>
    BY <1>5 DEF Validate
  <2> QED
    BY <1>0, <1>d, <1>e, <2>2, <2>3
<1>6. CASE Forget
  <2>1. PICK gone \in SUBSET client.gone :
          client' = [client EXCEPT !.stage = "forgotten", !.gone = gone] /\ repo' = repo \ gone
    BY <1>6 DEF Forget, Step
  <2>2. client' \in Client
    BY <1>0, <1>b, <2>1 DEF Client, Stages
  <2>3. UNCHANGED <<testVars, held, stale, agent, cat, made, unlisted, latest, edits, ghostVars,
                    spoiled, rjob, owed>>
    BY <1>6 DEF Forget
  <2>4. RestoreTypeOK'
    BY <1>0, <2>1, <2>3 DEF RestoreTypeOK, testVars, ghostVars
  <2> QED
    BY <1>0, <1>e, <2>2, <2>3, <2>4
<1>7. CASE CompleteRetentionJob
  <2>1. client' \in Client
    BY <1>0, <1>7, <1>c DEF CompleteRetentionJob, Step, Stages
  <2>2. rjob' \in JobTypes
    BY <1>7, <1>f DEF CompleteRetentionJob
  <2>3. UNCHANGED <<restoreVars, owed>>
    BY <1>7 DEF CompleteRetentionJob
  <2> QED
    BY <1>0, <1>d, <1>e, <2>1, <2>2, <2>3
<1>8. CASE RemoveFromCatalog
  <2>1. PICK gone \in SUBSET (client.gone \intersect cat) : Cascade(gone)
    BY <1>8 DEF RemoveFromCatalog
  <2>2. cat' \subseteq Snap /\ status' \in [Test -> Status]
    BY <1>0, <2>1 DEF Cascade, RestoreTypeOK, Status
  <2>3. client' = Resting /\ spoiled' \in BOOLEAN
        /\ UNCHANGED <<snapOf, held, stale, agent, repo, made, unlisted, latest, edits, ghostVars,
                        rjob, owed>>
    BY <1>0, <1>8 DEF RemoveFromCatalog, Step, RestoreTypeOK
  <2>4. RestoreTypeOK'
    BY <1>0, <2>2, <2>3 DEF RestoreTypeOK, ghostVars
  <2> QED
    BY <1>0, <1>a, <1>e, <2>3, <2>4
<1>9. CASE FailRetentionJob \/ ClientStops
  <2>1. client' = Resting /\ spoiled' \in BOOLEAN
        /\ UNCHANGED <<testVars, held, stale, agent, snapVars, edits, ghostVars, owed>>
    BY <1>0, <1>9 DEF FailRetentionJob, ClientStops, RestoreTypeOK
  <2>2. RestoreTypeOK'
    BY <1>0, <2>1 DEF RestoreTypeOK, testVars, snapVars, ghostVars
  <2>3. rjob' \in JobTypes
    BY <1>0, <1>9, <1>f DEF FailRetentionJob, ClientStops
  <2> QED
    BY <1>0, <1>a, <1>e, <2>1, <2>2, <2>3
<1> QED
  BY <1>1, <1>2, <1>3, <1>4, <1>5, <1>6, <1>7, <1>8, <1>9

LEMMA TypesStay == TypeOK /\ Carried /\ [Next]_vars => TypeOK'
<1> SUFFICES ASSUME TypeOK, Carried, [Next]_vars PROVE TypeOK'
  OBVIOUS
<1>1. CASE UNCHANGED vars
  BY <1>1 DEF vars, restoreVars, testVars, snapVars, ghostVars, TypeOK, RestoreTypeOK
<1> QED
  BY <1>1, OperatorTypes, AgentTypes, ClientTypes DEF Next, RestoreNext

(***************************************************************************)
(* Numbers and rows.                                                       *)
(***************************************************************************)

LEMMA NumbersStay == TypeOK /\ Numbers /\ [Next]_vars => Numbers'
<1> SUFFICES ASSUME TypeOK, Numbers, [Next]_vars PROVE Numbers'
  OBVIOUS
<1> USE DEF Numbers
<1>0. made \in Nat /\ client \in [stage : Stages, job : RetentionJob \union {NoRetention},
                              cand : SUBSET Snap, listed : SUBSET Snap, gone : SUBSET Snap]
  BY DEF TypeOK, RestoreTypeOK
<1>r. /\ Resting.cand = {} /\ Resting.listed = {} /\ Resting.gone = {}
      /\ Resting.stage = "idle"
  BY DEF Resting
<1>1. CASE BackupEnds /\ UNCHANGED client
  BY <1>0, <1>1 DEF BackupEnds
<1>2. ASSUME NEW s \in Snap, DeleteSnapshot(s) /\ UNCHANGED client PROVE Numbers'
  BY <1>2 DEF DeleteSnapshot, Cascade
<1>3. ASSUME NEW r \in RetentionJob, TakeRetentionJob(r) PROVE Numbers'
  BY <1>0, <1>3 DEF TakeRetentionJob, Step, Resting, restoreVars, snapVars
<1>4. CASE ListSnapshots \/ NothingToForget \/ CompleteRetentionJob
  BY <1>0, <1>4 DEF ListSnapshots, NothingToForget, CompleteRetentionJob, Step, restoreVars,
                    snapVars
<1>5. CASE Validate
  BY <1>0, <1>5 DEF Validate, Step, restoreVars, snapVars
<1>6. CASE Forget
  BY <1>0, <1>6 DEF Forget, Step
<1>7. CASE RemoveFromCatalog
  BY <1>r, <1>7 DEF RemoveFromCatalog, Cascade, Step
<1>8. CASE FailRetentionJob \/ ClientStops
  BY <1>r, <1>8 DEF FailRetentionJob, ClientStops, snapVars
<1>a. ASSUME NEW s \in Snap, RegisterSnapshot(s) \/ CreateSnapshot(s), UNCHANGED client
      PROVE  Numbers'
  <2>1. Register(s) /\ s \in 1 .. made
    BY <1>a DEF RegisterSnapshot, CreateSnapshot
  <2> QED
    BY <1>a, <2>1 DEF Register
<1>9. \/ UNCHANGED <<cat, repo, made, unlisted, client>>
      \/ \E s \in Snap : (RegisterSnapshot(s) \/ CreateSnapshot(s)) /\ UNCHANGED client
      \/ BackupEnds /\ UNCHANGED client
      \/ \E s \in Snap : DeleteSnapshot(s) /\ UNCHANGED client
      \/ \E r \in RetentionJob : TakeRetentionJob(r)
      \/ ListSnapshots \/ NothingToForget \/ CompleteRetentionJob \/ Validate \/ Forget
      \/ RemoveFromCatalog \/ FailRetentionJob \/ ClientStops
  BY DEF Next, RestoreNext, AgentNext, OperatorNext, vars, restoreVars, snapVars, NewJob, Create,
         DispatchRestoreTest, CreateRestoreTest, DeleteTest, LoadRestoreTest, Store, Refuse,
         ClaimNextPending, LoadSnapshot, Restore, AgentMoves, Report, AgentStops, CleanStale,
         CleanFails, ListStale, DispatchRetention, ReapPending
<1> QED
  BY <1>1, <1>2, <1>3, <1>4, <1>5, <1>6, <1>7, <1>8, <1>9, <1>a

\* A row is created under a number that is new.
LEMMA CreateTakesNew ==
  ASSUME TypeOK, Order, NEW s \in Snap, Create(s)
  PROVE  \E t \in Test : /\ status[t] = "none"
                         /\ \A u \in Test : u < t <=> status[u] # "none"
                         /\ status' = [status EXCEPT ![t] = "pending"]
                         /\ snapOf' = [snapOf EXCEPT ![t] = s]
<1>1. PICK n \in 0 .. MaxTests : \A t \in Test : status[t] # "none" <=> t <= n
  BY DEF Order
<1>2. {u \in Test : status[u] # "none"} = 1 .. n
  BY <1>1 DEF Test
<1>3. Cardinality(1 .. n) = n
  BY FS_Interval
<1>4. /\ 1 + n \in Test
      /\ status' = [status EXCEPT ![1 + n] = "pending"] /\ snapOf' = [snapOf EXCEPT ![1 + n] = s]
  BY <1>2, <1>3 DEF Create
<1>5. status[1 + n] = "none" /\ \A u \in Test : u < 1 + n <=> status[u] # "none"
  BY <1>1, <1>4 DEF Test
<1> QED
  BY <1>4, <1>5

\* What a step does to the rows of restore_tests; only the client and the operators
\* delete one.
RowStep ==
  \/ UNCHANGED <<status, snapOf>>
  \/ \E s \in Snap : Create(s)
  \/ /\ UNCHANGED snapOf
     /\ \A t \in Test : \/ status'[t] = status[t]
                        \/ /\ Exists(t)
                           /\ status'[t] \in {"running", "success", "failed", "deleted"}

LEMMA NextRow == TypeOK /\ WritesBack /\ Carried /\ [Next]_vars => RowStep
<1> SUFFICES ASSUME TypeOK, WritesBack, Carried, [Next]_vars PROVE RowStep
  OBVIOUS
<1> USE DEF RowStep, TypeOK, RestoreTypeOK
<1>1. ASSUME NEW e \in Endpoint, Store(e) PROVE RowStep
  <2>1. held[e].test \in Test /\ held[e].to \in {"running", "success", "failed"}
    BY <1>1 DEF Store, Carried, WritesBack
  <2> QED
    BY <1>1, <2>1 DEF Store, Update, Exists
<1>2. ASSUME NEW t \in Test, ClaimNextPending(t) \/ CleanStale(t) \/ DeleteTest(t) PROVE RowStep
  BY <1>2 DEF ClaimNextPending, Claimable, CleanStale, DeleteTest, Update, Exists
<1>3. ASSUME NEW gone, Cascade(gone), UNCHANGED snapOf PROVE RowStep
  BY <1>3 DEF Cascade, Exists
<1>4. \/ UNCHANGED <<status, snapOf>>
      \/ \E s \in Snap : Create(s)
      \/ \E e \in Endpoint : Store(e)
      \/ \E t \in Test : ClaimNextPending(t) \/ CleanStale(t) \/ DeleteTest(t)
      \/ UNCHANGED snapOf /\ \E gone \in SUBSET Snap : Cascade(gone)
  BY DEF Next, RestoreNext, AgentNext, OperatorNext, vars, restoreVars, testVars, NewJob,
         BackupEnds, RegisterSnapshot, CreateSnapshot, Register, DispatchRestoreTest,
         CreateRestoreTest, DeleteSnapshot, LoadRestoreTest,
         Refuse, LoadSnapshot, Restore, AgentMoves, Report, AgentStops,
         CleanFails, ListStale, DispatchRetention, ReapPending, TakeRetentionJob, ListSnapshots,
         Validate, Forget, NothingToForget, CompleteRetentionJob, RemoveFromCatalog,
         FailRetentionJob, ClientStops
<1> QED
  BY <1>1, <1>2, <1>3, <1>4

LEMMA OrderStays == TypeOK /\ Order /\ RowStep => Order'
<1> SUFFICES ASSUME TypeOK, Order, RowStep PROVE Order'
  OBVIOUS
<1>1. PICK n \in 0 .. MaxTests : \A t \in Test : status[t] # "none" <=> t <= n
  BY DEF Order
<1>2. ASSUME NEW s \in Snap, Create(s) PROVE Order'
  <2>1. PICK t \in Test : /\ status[t] = "none"
                          /\ \A u \in Test : u < t <=> status[u] # "none"
                          /\ status' = [status EXCEPT ![t] = "pending"]
                          /\ snapOf' = [snapOf EXCEPT ![t] = s]
    BY <1>2, CreateTakesNew
  <2>2. t \in 0 .. MaxTests /\ \A u \in Test : status'[u] # "none" <=> u <= t
    <3>1. t \in 0 .. MaxTests
      BY DEF Test
    <3>2. ASSUME NEW u \in Test PROVE status'[u] # "none" <=> (u < t \/ u = t)
      <4>0. status \in [Test -> Status]
        BY DEF TypeOK, RestoreTypeOK
      <4>1. status'[u] = IF u = t THEN "pending" ELSE status[u]
        BY <2>1, <4>0
      <4> QED
        BY <2>1, <4>1
    <3>3. ASSUME NEW u \in Test PROVE (u < t \/ u = t) <=> u <= t
      BY DEF Test
    <3> QED
      BY <3>1, <3>2, <3>3
  <2> QED
    BY <2>2 DEF Order
<1>3. ASSUME UNCHANGED snapOf,
             \A t \in Test : \/ status'[t] = status[t]
                             \/ /\ Exists(t)
                                /\ status'[t] \in {"running", "success", "failed", "deleted"}
      PROVE  Order'
  <2>1. \A t \in Test : status'[t] # "none" <=> t <= n
    BY <1>1, <1>3 DEF Exists
  <2> QED
    BY <2>1 DEF Order
<1> QED
  BY <1>1, <1>2, <1>3 DEF RowStep, Order

\* A row that is new refers to a snapshot's row, and a snapshot takes its tests along.
LEMMA ReferencesStay ==
  TypeOK /\ Order /\ References /\ RowStep /\ [Next]_vars => References'
<1> SUFFICES ASSUME TypeOK, Order, References, RowStep, [Next]_vars PROVE References'
  OBVIOUS
<1> USE DEF References
<1>1. ASSUME NEW gone, Cascade(gone), UNCHANGED snapOf PROVE References'
  BY <1>1 DEF Cascade, Exists, TypeOK, RestoreTypeOK
<1>2. ASSUME cat \subseteq cat' PROVE References'
  <2>1. ASSUME NEW s \in Snap, Create(s) PROVE References'
    <3>1. PICK t \in Test : /\ status[t] = "none"
                            /\ \A u \in Test : u < t <=> status[u] # "none"
                            /\ status' = [status EXCEPT ![t] = "pending"]
                            /\ snapOf' = [snapOf EXCEPT ![t] = s]
      BY <2>1, CreateTakesNew
    <3>2. s \in cat
      BY <2>1 DEF Create
    <3> QED
      BY <1>2, <3>1, <3>2 DEF Exists, TypeOK, RestoreTypeOK
  <2> QED
    BY <1>2, <2>1 DEF RowStep, Exists
<1>3. cat \subseteq cat' \/ (UNCHANGED snapOf /\ \E gone : Cascade(gone))
  BY DEF Next, RestoreNext, AgentNext, OperatorNext, vars, restoreVars, snapVars, NewJob,
         BackupEnds, RegisterSnapshot, CreateSnapshot, Register, Create, CreateRestoreTest,
         DispatchRestoreTest, DeleteSnapshot, DeleteTest, LoadRestoreTest, Store, Refuse,
         ClaimNextPending, LoadSnapshot, Restore, AgentMoves, Report, AgentStops, CleanStale,
         CleanFails, ListStale, DispatchRetention, ReapPending, TakeRetentionJob, ListSnapshots,
         Validate, Forget, NothingToForget, CompleteRetentionJob, RemoveFromCatalog,
         FailRetentionJob, ClientStops
<1> QED
  BY <1>1, <1>2, <1>3

(***************************************************************************)
(* Tests run once, and successes are earned.                               *)
(***************************************************************************)

LEMMA WritesBackStays == TypeOK /\ WritesBack /\ [Next]_vars => WritesBack'
<1> SUFFICES ASSUME TypeOK, WritesBack, [Next]_vars PROVE WritesBack'
  OBVIOUS
<1> USE DEF WritesBack, TypeOK, RestoreTypeOK
<1>1. ASSUME NEW t \in Test, NEW to \in {"running", "success", "failed"}, LoadRestoreTest(t, to)
      PROVE  WritesBack'
  BY <1>1 DEF LoadRestoreTest
<1>2. ASSUME NEW e \in Endpoint, Store(e) \/ Refuse(e) PROVE WritesBack'
  BY <1>2 DEF Store, Refuse
<1>3. CASE Report
  BY <1>3 DEF Report
<1>4. \/ UNCHANGED held
      \/ \E t \in Test, to \in {"running", "success", "failed"} : LoadRestoreTest(t, to)
      \/ \E e \in Endpoint : Store(e) \/ Refuse(e)
      \/ Report
  BY DEF Next, RestoreNext, AgentNext, OperatorNext, vars, restoreVars, NewJob, BackupEnds,
         RegisterSnapshot, CreateSnapshot, Register,
         DispatchRestoreTest, CreateRestoreTest, Create, DeleteSnapshot, DeleteTest,
         ClaimNextPending, LoadSnapshot, Restore, AgentMoves, AgentStops, CleanStale,
         CleanFails, ListStale, DispatchRetention, ReapPending, TakeRetentionJob, ListSnapshots,
         Validate, Forget, NothingToForget, CompleteRetentionJob, RemoveFromCatalog,
         FailRetentionJob, ClientStops
<1> QED
  BY <1>1, <1>2, <1>3, <1>4

LEMMA ClaimedStays == IInv /\ [Next]_vars => Claimed'
<1> SUFFICES ASSUME IInv, [Next]_vars PROVE Claimed'
  OBVIOUS
<1> USE DEF Claimed
<1>0. TypeOK /\ Order /\ Carried /\ WritesBack /\ Claimed /\ RowStep
  BY NextRow DEF IInv
<1>1. ASSUME NEW t \in Test, ClaimNextPending(t) PROVE Claimed'
  BY <1>0, <1>1 DEF ClaimNextPending, Claimable, TypeOK, RestoreTypeOK
<1>2. CASE UNCHANGED claims
  <2>1. ASSUME NEW s \in Snap, Create(s) PROVE Claimed'
    <3>1. PICK t \in Test : /\ status[t] = "none"
                            /\ \A u \in Test : u < t <=> status[u] # "none"
                            /\ status' = [status EXCEPT ![t] = "pending"]
                            /\ snapOf' = [snapOf EXCEPT ![t] = s]
      BY <1>0, <2>1, CreateTakesNew
    <3>2. status \in [Test -> Status]
      BY <1>0 DEF TypeOK, RestoreTypeOK
    <3>3. \A u \in Test : status'[u] = IF u = t THEN "pending" ELSE status[u]
      BY <3>1, <3>2
    <3> QED
      BY <1>0, <1>2, <3>1, <3>3
  <2> QED
    BY <1>0, <1>2, <2>1 DEF RowStep, Exists
<1>3. UNCHANGED claims \/ \E t \in Test : ClaimNextPending(t)
  BY DEF Next, RestoreNext, AgentNext, OperatorNext, vars, restoreVars, ghostVars, NewJob,
         BackupEnds, RegisterSnapshot, CreateSnapshot, Register, DispatchRestoreTest,
         CreateRestoreTest, Create, DeleteSnapshot, DeleteTest,
         LoadRestoreTest, Store, Refuse, LoadSnapshot, Restore, AgentMoves, Report, AgentStops,
         CleanStale, CleanFails, ListStale, DispatchRetention, ReapPending, TakeRetentionJob,
         ListSnapshots, Validate, Forget, NothingToForget, CompleteRetentionJob,
         RemoveFromCatalog, FailRetentionJob, ClientStops
<1> QED
  BY <1>1, <1>2, <1>3

\* Which steps record a success, and who has earned it then.
LEMMA EarnedStays == IInv /\ [Next]_vars => Earned'
<1> SUFFICES ASSUME IInv, [Next]_vars PROVE Earned'
  OBVIOUS
<1>0. TypeOK /\ Order /\ Carried /\ WritesBack /\ Earned /\ RowStep
  BY NextRow DEF IInv
<1> USE DEF Earned, SuccessIsEarned, TypeOK, RestoreTypeOK
<1>1. ASSUME NEW e \in Endpoint, Store(e) PROVE Earned'
  <2>1. held[e].test \in Test /\ held[e].to \in {"running", "success", "failed"}
    BY <1>0, <1>1 DEF Store, Carried, WritesBack
  <2>2. \/ e = "agent" /\ vouched' = vouched
        \/ e = "operator" /\ held[e].to # "success" /\ vouched' = vouched
        \/ e = "operator" /\ vouched' = vouched \union {held[e].test}
    BY <1>1 DEF Store, Endpoint
  <2>3. UNCHANGED <<agent, proven>> /\ held' = [held EXCEPT ![e] = Nothing]
    BY <1>1 DEF Store
  <2>4. \A t \in Test : status'[t] = status[t] \/ (t = held[e].test /\ status'[t] = held[e].to)
    BY <1>0, <1>1, <2>1 DEF Store, Update
  <2>5. SuccessIsEarned'
    BY <1>0, <2>1, <2>2, <2>3, <2>4
  <2>6. held'["agent"] = held["agent"] \/ held'["agent"].to = "none"
    BY <1>0, <2>3 DEF Nothing, Endpoint
  <2> QED
    BY <1>0, <2>3, <2>5, <2>6
<1>2. ASSUME NEW o \in RunOutcome, Restore(o) PROVE Earned'
  <2>1. agent'.phase = "restored" /\ TargetOf[agent.test] # "directory" => agent.test \in proven'
    BY <1>2 DEF Restore, Succeeds, Found, RunOutcome, AgentMoves
  <2>2. /\ UNCHANGED <<status, held, vouched>> /\ proven \subseteq proven'
        /\ agent'.test = agent.test
    BY <1>0, <1>2 DEF Restore, AgentMoves, testVars
  <2> QED
    BY <1>0, <2>1, <2>2
<1>3. CASE Report
  <2>1. UNCHANGED <<status, vouched, proven>> /\ agent'.phase = "idle"
    BY <1>3 DEF Report, testVars, ghostVars, Idle
  <2>2. \/ held'["agent"] = held["agent"]
        \/ held'["agent"].test = agent.test /\ (held'["agent"].to = "success" => agent.phase = "restored")
    BY <1>0, <1>3 DEF Report, Endpoint
  <2> QED
    BY <1>0, <2>1, <2>2
<1>4. CASE /\ \A t \in Test : status'[t] = status[t] \/ status'[t] # "success"
           /\ proven' = proven /\ vouched' = vouched /\ held'["agent"] = held["agent"]
           /\ agent' = agent \/ agent'.phase # "restored"
  BY <1>0, <1>4
<1>5. ASSUME NEW s \in Snap, Create(s) PROVE Earned'
  <2>1. \A t \in Test : status'[t] = status[t] \/ status'[t] # "success"
    BY <1>0, <1>5 DEF Create
  <2> QED
    BY <1>4, <1>5, <2>1 DEF Create, ghostVars
<1>6. ASSUME NEW t \in Test, ClaimNextPending(t) PROVE Earned'
  <2>1. agent' = agent \/ agent'.phase # "restored"
    BY <1>6 DEF ClaimNextPending, Idle
  <2> QED
    BY <1>0, <1>4, <1>6, <2>1 DEF ClaimNextPending
<1>7. ASSUME NEW t \in Test, CleanStale(t) \/ DeleteTest(t) PROVE Earned'
  BY <1>0, <1>4, <1>7 DEF CleanStale, DeleteTest, Update, ghostVars
<1>8. ASSUME NEW gone, Cascade(gone), UNCHANGED <<held, agent, proven, vouched>> PROVE Earned'
  BY <1>0, <1>4, <1>8 DEF Cascade
<1>9. ASSUME NEW t \in Test, NEW to, LoadRestoreTest(t, to) PROVE Earned'
  BY <1>0, <1>4, <1>9 DEF LoadRestoreTest, testVars, ghostVars, Endpoint
<1>10. ASSUME Refuse("operator") \/ Refuse("agent") PROVE Earned'
  <2>1. held'["agent"] = held["agent"] \/ held'["agent"].to = "none"
    BY <1>0, <1>10 DEF Refuse, Nothing, Endpoint
  <2> QED
    BY <1>0, <1>10, <2>1 DEF Refuse, testVars, ghostVars
<1>11. CASE LoadSnapshot \/ AgentStops
  <2>1. agent'.phase # "restored"
    BY <1>0, <1>11 DEF LoadSnapshot, AgentMoves, AgentStops, Idle
  <2> QED
    BY <1>4, <1>11, <2>1 DEF LoadSnapshot, AgentMoves, AgentStops, testVars, ghostVars
<1>12. \/ UNCHANGED <<status, held, agent, proven, vouched>>
       \/ \E s \in Snap : Create(s)
       \/ \E e \in Endpoint : Store(e) \/ Refuse(e)
       \/ \E t \in Test : ClaimNextPending(t) \/ CleanStale(t) \/ DeleteTest(t)
       \/ \E t \in Test, to \in {"running", "success", "failed"} : LoadRestoreTest(t, to)
       \/ LoadSnapshot \/ AgentStops \/ Report \/ \E o \in RunOutcome : Restore(o)
       \/ \E gone : Cascade(gone) /\ UNCHANGED <<held, agent, proven, vouched>>
  BY <1>0 DEF Next, RestoreNext, AgentNext, OperatorNext, vars, restoreVars, testVars, ghostVars, NewJob,
         BackupEnds, RegisterSnapshot, CreateSnapshot, Register, DispatchRestoreTest,
         CreateRestoreTest, DeleteSnapshot,
         CleanFails, ListStale, DispatchRetention, ReapPending, TakeRetentionJob, ListSnapshots,
         Validate, Forget, NothingToForget, CompleteRetentionJob, RemoveFromCatalog,
         FailRetentionJob, ClientStops
<1> QED
  BY <1>1, <1>2, <1>3, <1>4, <1>5, <1>6, <1>7, <1>8, <1>9, <1>10, <1>11, <1>12 DEF Endpoint

(***************************************************************************)
(* The catalog, the repository and the tested snapshots.                   *)
(***************************************************************************)

\* What a step that spoils nothing does while the client rests: snapshots come to the
\* repository, or from there to the catalog, and no success goes.
Quiet ==
  /\ UNCHANGED <<client, owed>>
  /\ \/ UNCHANGED <<cat, repo, unlisted>>
     \/ /\ repo' = repo \union {made + 1} /\ unlisted' = unlisted \union {made + 1}
        /\ cat' = cat
     \/ \E s \in repo : cat' = cat \union {s} /\ unlisted' = unlisted \ {s} /\ repo' = repo
  /\ \A t \in Test : status[t] = "success" => status'[t] = "success" /\ snapOf'[t] = snapOf[t]

\* The steps that move the client.
ClientStep ==
  \/ \E r \in RetentionJob : TakeRetentionJob(r)
  \/ ListSnapshots \/ Validate \/ Forget \/ NothingToForget
  \/ CompleteRetentionJob \/ RemoveFromCatalog \/ FailRetentionJob \/ ClientStops

LEMMA QuietOrClient ==
  ASSUME IInv, [Next]_vars, ~spoiled'
  PROVE  ~spoiled /\ (Quiet \/ ClientStep)
<1>0. TypeOK /\ Order /\ Carried /\ WritesBack
  BY DEF IInv
<1> USE DEF Quiet, TypeOK, RestoreTypeOK
<1>1. ASSUME UNCHANGED <<status, snapOf, cat, repo, unlisted, spoiled, client, owed>>
      PROVE  ~spoiled /\ Quiet
  BY <1>1
<1>2. ASSUME UNCHANGED client, BackupEnds, UNCHANGED owed PROVE ~spoiled /\ Quiet
  BY <1>2 DEF BackupEnds, testVars
<1>3. ASSUME NEW s \in Snap, Create(s), UNCHANGED <<client, owed>> PROVE ~spoiled /\ Quiet
  <2>1. PICK t \in Test : /\ status[t] = "none"
                          /\ \A u \in Test : u < t <=> status[u] # "none"
                          /\ status' = [status EXCEPT ![t] = "pending"]
                          /\ snapOf' = [snapOf EXCEPT ![t] = s]
    BY <1>0, <1>3, CreateTakesNew
  <2>2. \A u \in Test : status[u] = "success" => status'[u] = "success" /\ snapOf'[u] = snapOf[u]
    BY <1>0, <2>1
  <2> QED
    BY <1>3, <2>2 DEF Create, snapVars
<1>4. ASSUME NEW e \in Endpoint, Store(e), UNCHANGED <<client, owed>> PROVE ~spoiled /\ Quiet
  <2>1. held[e].test \in Test
    BY <1>0, <1>4 DEF Store, Carried
  <2> QED
    BY <1>0, <1>4, <2>1 DEF Store, Update, Exists, snapVars
<1>5. ASSUME NEW t \in Test, CleanStale(t) \/ DeleteTest(t), UNCHANGED <<client, owed>>
      PROVE  ~spoiled /\ Quiet
  BY <1>0, <1>5 DEF CleanStale, DeleteTest, Update, Exists, snapVars
<1>6. ASSUME NEW t \in Test, ClaimNextPending(t), UNCHANGED <<client, owed>>
      PROVE  ~spoiled /\ Quiet
  BY <1>0, <1>6 DEF ClaimNextPending, Claimable, snapVars
<1>a. ASSUME NEW s \in Snap, Register(s), UNCHANGED <<client, owed>> PROVE ~spoiled /\ Quiet
  <2>1. ~spoiled /\ s \in repo
    BY <1>0, <1>a DEF Register
  <2> QED
    BY <1>a, <2>1 DEF Register, testVars
<1>7. ~ \E s \in Snap : DeleteSnapshot(s)
  BY DEF DeleteSnapshot
<1>8. \/ UNCHANGED <<status, snapOf, cat, repo, unlisted, spoiled, client, owed>>
      \/ BackupEnds /\ UNCHANGED <<client, owed>>
      \/ \E s \in Snap : Register(s) /\ UNCHANGED <<client, owed>>
      \/ \E s \in Snap : Create(s) /\ UNCHANGED <<client, owed>>
      \/ \E e \in Endpoint : Store(e) /\ UNCHANGED <<client, owed>>
      \/ \E t \in Test : /\ CleanStale(t) \/ DeleteTest(t) \/ ClaimNextPending(t)
                         /\ UNCHANGED <<client, owed>>
      \/ ClientStep
  BY <1>0, <1>7 DEF Next, RestoreNext, AgentNext, OperatorNext, ClientStep, vars, restoreVars,
         testVars, snapVars, ghostVars, NewJob, RegisterSnapshot, CreateSnapshot,
         DispatchRestoreTest, CreateRestoreTest,
         LoadRestoreTest, Refuse, LoadSnapshot, Restore, AgentMoves, Report, AgentStops,
         CleanFails, ListStale, DispatchRetention, ReapPending
<1>9. ClientStep => ~spoiled
  BY <1>0 DEF ClientStep, TakeRetentionJob, ListSnapshots, Validate, Forget, NothingToForget,
              CompleteRetentionJob, RemoveFromCatalog, FailRetentionJob, ClientStops, restoreVars
<1> QED
  BY <1>1, <1>2, <1>3, <1>4, <1>5, <1>6, <1>8, <1>9, <1>a

LEMMA QuietKeeps ==
  ASSUME IInv, Quiet, ~spoiled
  PROVE  Kept'
<1> USE DEF Kept, CatalogMatchesRepository, Quiet
<1>1. made + 1 \notin client.gone /\ made + 1 \notin cat
  BY DEF IInv, Numbers, TypeOK, RestoreTypeOK
<1>2. CatalogMatchesRepository'
  BY <1>1 DEF IInv
<1>3. Tested \subseteq Tested'
  BY DEF Tested
<1> QED
  BY <1>2, <1>3 DEF IInv

\* The heart of it: of the tested snapshots that were listed, the answer of a validation
\* leaves one out.
LEMMA ValidationSpares ==
  ASSUME TypeOK, NEW cand, NEW listed, listed \subseteq Snap, listed \cap Tested # {},
         NEW kept, Spares(cand, listed, kept)
  PROVE  \E s \in listed \cap Tested : s \notin cand \ kept
<1>1. VerifiedOf(listed) = listed \cap Tested
  BY DEF VerifiedOf, Tested
<1> QED
  BY <1>1 DEF Spares

LEMMA ClientKeeps ==
  ASSUME IInv, ClientStep, ~spoiled, ~spoiled'
  PROVE  Kept'
<1> USE DEF Kept, CatalogMatchesRepository
<1>0. TypeOK /\ Numbers /\ Kept /\ ~spoiled
  BY DEF IInv
<1>r. /\ Resting.cand = {} /\ Resting.listed = {} /\ Resting.gone = {}
      /\ Resting.stage = "idle"
  BY DEF Resting
<1>c. client \in [stage : Stages, job : RetentionJob \union {NoRetention},
                 cand : SUBSET Snap, listed : SUBSET Snap, gone : SUBSET Snap]
  BY <1>0 DEF TypeOK
<1>1. ASSUME NEW r \in RetentionJob, TakeRetentionJob(r) PROVE Kept'
  <2>1. UNCHANGED <<cat, repo, unlisted, status, snapOf, owed, spoiled>>
    BY <1>1 DEF TakeRetentionJob, restoreVars, snapVars, testVars
  <2>2. client.stage = "idle" /\ client'.stage = "asking"
    BY <1>1 DEF TakeRetentionJob, Step, Resting
  <2>3. Tested' = Tested
    BY <2>1 DEF Tested
  <2> QED
    BY <1>0, <2>1, <2>2, <2>3
<1>2. CASE ListSnapshots
  <2>1. UNCHANGED <<cat, repo, unlisted, status, snapOf, owed, spoiled>>
    BY <1>2 DEF ListSnapshots, restoreVars, snapVars, testVars
  <2>2. client.stage = "asking" /\ client'.stage = "validating" /\ client'.listed = cat
    BY <1>2, <1>c DEF ListSnapshots, Step
  <2>3. Tested' = Tested
    BY <2>1 DEF Tested
  <2>4. Tested \subseteq cat
    BY DEF Tested, IInv, References, Exists
  <2> QED
    BY <1>0, <2>1, <2>2, <2>3, <2>4
<1>3. CASE Validate
  <2>1. UNCHANGED <<cat, repo, unlisted, status, snapOf, spoiled>>
    BY <1>3 DEF Validate, restoreVars, snapVars, testVars
  <2>2. PICK kept : /\ client.stage = "validating" /\ client'.stage = "approved"
                    /\ client'.gone = client.cand \ kept
                    /\ Spares(client.cand, client.listed, kept)
    BY <1>3, <1>c DEF Validate, Step
  <2>3. Tested' = Tested
    BY <2>1 DEF Tested
  <2>4. client.listed \subseteq repo /\ UNCHANGED unlisted
    BY <1>0, <1>3, <2>1, <2>2 DEF Validate, restoreVars, snapVars
  <2>5. owed' => client.listed \cap Tested # {}
    BY <1>0, <1>3, <2>2 DEF Validate, VerifiedOf, Tested, TypeOK, RestoreTypeOK
  <2>6. owed' => (repo \ client'.gone) \cap Tested # {}
    <3>1. CASE ~owed'
      BY <3>1
    <3>2. CASE owed'
      <4>1. PICK s \in client.listed \cap Tested : s \notin client'.gone
        BY <1>0, <1>c, <2>2, <2>5, <3>2, ValidationSpares
      <4> QED
        BY <2>4, <4>1
    <3> QED
      BY <3>1, <3>2
  <2> QED
    BY <1>0, <2>1, <2>2, <2>3, <2>4, <2>6
<1>4. CASE Forget
  <2>1. UNCHANGED <<cat, unlisted, status, snapOf, owed, spoiled>>
    BY <1>4 DEF Forget, testVars
  <2>2. /\ client.stage = "approved" /\ client'.stage = "forgotten"
        /\ client'.gone \subseteq client.gone /\ repo' = repo \ client'.gone
    BY <1>4, <1>c DEF Forget, Step
  <2>3. Tested' = Tested
    BY <2>1 DEF Tested
  <2> QED
    BY <1>0, <2>1, <2>2, <2>3
<1>5. CASE NothingToForget
  <2>1. UNCHANGED <<cat, repo, unlisted, status, snapOf, owed, spoiled>>
    BY <1>5 DEF NothingToForget, restoreVars, snapVars, testVars
  <2>2. client.stage = "asking" /\ client'.stage = "forgotten" /\ client'.gone = {}
    BY <1>0, <1>5, <1>c DEF NothingToForget, Step, Numbers
  <2>3. Tested' = Tested
    BY <2>1 DEF Tested
  <2> QED
    BY <1>0, <2>1, <2>2, <2>3
<1>6. CASE CompleteRetentionJob
  <2>1. UNCHANGED <<cat, repo, unlisted, status, snapOf, owed, spoiled>>
    BY <1>6 DEF CompleteRetentionJob, restoreVars, snapVars, testVars
  <2>2. client.stage = "forgotten" /\ client'.stage = "cleaning" /\ client'.gone = client.gone
    BY <1>6, <1>c DEF CompleteRetentionJob, Step
  <2>3. Tested' = Tested
    BY <2>1 DEF Tested
  <2> QED
    BY <1>0, <2>1, <2>2, <2>3
<1>7. CASE RemoveFromCatalog
  <2>1. client.stage = "cleaning" /\ client' = Resting /\ UNCHANGED <<repo, owed, snapOf>>
    BY <1>7 DEF RemoveFromCatalog, Step
  <2>2. Cascade(client.gone \cap cat)
    BY <1>7 DEF RemoveFromCatalog
  <2>3. cat \ client.gone \subseteq repo /\ client.gone \cap repo = {}
    BY <1>0, <2>1 DEF Numbers
  <2>4. cat' \subseteq repo' /\ repo' \subseteq cat' \union unlisted'
    BY <1>0, <1>7, <2>1, <2>2, <2>3 DEF Cascade, RemoveFromCatalog
  <2>5. repo \cap Tested \subseteq Tested'
    BY <1>0, <2>1, <2>2, <2>3 DEF Cascade, Tested, TypeOK, RestoreTypeOK
  <2> QED
    BY <1>0, <1>r, <2>1, <2>4, <2>5
<1>8. CASE FailRetentionJob \/ ClientStops
  <2>1. UNCHANGED <<cat, repo, unlisted, status, snapOf, owed>> /\ client' = Resting
    BY <1>8 DEF FailRetentionJob, ClientStops, restoreVars, snapVars, testVars
  <2>2. client.stage \in {"forgotten", "cleaning"} => client.gone = {}
    BY <1>8 DEF FailRetentionJob, ClientStops
  <2>3. Tested' = Tested
    BY <2>1 DEF Tested
  <2> QED
    BY <1>0, <1>r, <2>1, <2>2, <2>3
<1> QED
  BY <1>1, <1>2, <1>3, <1>4, <1>5, <1>6, <1>7, <1>8 DEF ClientStep

LEMMA KeptStays == IInv /\ [Next]_vars => Kept'
<1> SUFFICES ASSUME IInv, [Next]_vars PROVE Kept'
  OBVIOUS
<1>1. CASE spoiled'
  BY <1>1 DEF Kept, CatalogMatchesRepository
<1>2. CASE ~spoiled'
  BY <1>2, QuietOrClient, QuietKeeps, ClientKeeps
<1> QED
  BY <1>1, <1>2

(***************************************************************************)
(* The theorems.                                                           *)
(***************************************************************************)

\* The invariant holds at the start and every step of agent, operators, scheduler and
\* retention client keeps it.
THEOREM Inductive == Spec => []IInv
<1>1. IInv /\ [Next]_vars => IInv'
  BY CarriedStays, TypesStay, WritesBackStays, NumbersStay, NextRow, OrderStays, ReferencesStay,
     ClaimedStays, EarnedStays, KeptStays DEF IInv
<1> QED
  BY InitInv, <1>1, PTL DEF Spec

\* The rows, the lists of the client and the ghosts keep to their types.
THEOREM TypeCorrect == Spec => []TypeOK
<1>1. IInv => TypeOK
  BY DEF IInv
<1> QED
  BY <1>1, Inductive, PTL

\* However the agent's report, the operator's changes and the cleaner write copies back
\* over each other, a success is one of a test whose own restore left files of the
\* snapshot in place, or of an operator; tests that share a directory are excepted
\* (agent_restore_tests.go:58, runner.go:173-187).
THEOREM SuccessesAreEarned == Spec => []SuccessIsEarned
<1>1. IInv => SuccessIsEarned
  BY DEF IInv, Earned
<1> QED
  BY <1>1, Inductive, PTL

\* A test is claimed once, whatever becomes of the answer (restore_tests.go:134).
THEOREM TestsRunOnce == Spec => []HandedOutOnce
<1>1. IInv => HandedOutOnce
  BY DEF IInv, Claimed, HandedOutOnce
<1> QED
  BY <1>1, Inductive, PTL

\* Where no row and its snapshot have parted otherwise, a row has a snapshot or a retention
\* run is about to report its removal, and a snapshot has a row or its registration is
\* still to come, if it ever does (agent_retention.go:196, agent_jobs.go:135).
THEOREM CatalogFollowsRepository == Spec => []CatalogMatchesRepository
<1>1. IInv => CatalogMatchesRepository
  BY DEF IInv, Kept
<1> QED
  BY <1>1, Inductive, PTL

\* A system whose tested snapshot a validation has seen keeps a tested snapshot, through
\* any number of retention runs (agent_retention.go:74).
THEOREM TestedSnapshotsRemain == Spec => []TestedSnapshotRemains
<1>1. IInv => TestedSnapshotRemains
  <2> SUFFICES ASSUME IInv, owed, ~spoiled PROVE Recoverable # {}
    BY DEF TestedSnapshotRemains
  <2>1. repo \cap Tested # {}
    BY DEF IInv, Kept
  <2> QED
    BY <2>1 DEF Tested, Recoverable
<1> QED
  BY <1>1, Inductive, PTL
=============================================================================
