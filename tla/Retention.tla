----------------------------- MODULE Retention -----------------------------
(***************************************************************************)
(* Retention of one system (internal/api/agent_retention.go): a job of the *)
(* scheduler is taken by the client that runs restic forget, which has its *)
(* candidates validated, removes what was approved and reports.  The       *)
(* validation must leave the system a snapshot that a restore test has     *)
(* shown to be recoverable; it runs against the snapshots and the tests of *)
(* RestoreTests, which go on changing meanwhile.                           *)
(*                                                                         *)
(* The repository has the endpoints and no client for them (agent.go:143), *)
(* so the client is modelled from what the endpoints expect: one job at a  *)
(* time, candidates of the repository, removal of what was approved.  It   *)
(* may die between any two steps and take the pending job again.           *)
(***************************************************************************)
EXTENDS RestoreTests

CONSTANTS
  RetentionJob, \* rows of backup_jobs of type retention
  NoRetention   \* the client has no job

ASSUME RetentionAssumption == NoRetention \notin RetentionJob

VARIABLES
  rjob,   \* backup_jobs.status of the retention jobs
  client, \* where the retention client is, with which job and which snapshots
  owed    \* (ghost) a validation has seen a tested snapshot

vars == <<restoreVars, rjob, client, owed>>

Resting == [stage |-> "idle", job |-> NoRetention, cand |-> {}, listed |-> {}, gone |-> {}]

Init ==
  /\ RestoreInit
  /\ rjob = [r \in RetentionJob |-> "none"]
  /\ client = Resting
  /\ owed = FALSE

Step(from, to) == client.stage = from /\ to.stage # from /\ client' = to

(***************************************************************************)
(* Retention jobs.                                                         *)
(***************************************************************************)

\* For a system that has ever had a backup job of the policy; the job is the newest.
DispatchRetention(r) ==
  /\ rjob[r] = "none" /\ made > 0
  /\ rjob' = [rjob EXCEPT ![r] = "pending"]
  /\ latest' = 0
  /\ UNCHANGED <<testVars, held, stale, agent, cat, repo, made, unlisted, edits, ghostVars, spoiled,
                 client, owed>>

\* The job reaper, six hours later.
ReapPending(r) ==
  /\ rjob[r] = "pending"
  /\ rjob' = [rjob EXCEPT ![r] = "failed"]
  /\ UNCHANGED <<restoreVars, client, owed>>

\* The client lists the pending jobs and asks restic what a policy would remove.
TakeRetentionJob(r) ==
  \E cand \in SUBSET repo :
    /\ rjob[r] = "pending"
    /\ Step("idle", [Resting EXCEPT !.stage = "asking", !.job = r, !.cand = cand])
    /\ UNCHANGED <<restoreVars, rjob, owed>>

(***************************************************************************)
(* handleRetentionValidate: two lists, read one after the other.           *)
(***************************************************************************)

ListSnapshots ==
  /\ client.cand # {}
  /\ Step("asking", [client EXCEPT !.stage = "validating", !.listed = cat])
  /\ UNCHANGED <<restoreVars, rjob, owed>>

\* Snapshots of the list that a test has verified when the tests are read.
VerifiedOf(listed) ==
  {s \in listed : \E t \in Test : status[t] = "success" /\ snapOf[t] = s}

\* Variant: snapshots that were not listed as candidates are taken for verified.
SparesIfAlone(cand, listed, kept) ==
  IF listed \subseteq cand /\ VerifiedOf(listed) # {}
  THEN \E s \in VerifiedOf(listed) : kept = {s} ELSE kept = {}

\* A verified candidate is kept when no verified snapshot would survive.  It is the one
\* registered last; in which order snapshots were registered is left open here.
Spares(cand, listed, kept) ==
  IF VerifiedOf(listed) \subseteq cand /\ VerifiedOf(listed) # {}
  THEN \E s \in VerifiedOf(listed) : kept = {s} ELSE kept = {}

Validate ==
  \E kept \in SUBSET client.cand :
    /\ Spares(client.cand, client.listed, kept)
    /\ Step("validating", [client EXCEPT !.stage = "approved", !.cand = {}, !.listed = {},
                                         !.gone = client.cand \ kept])
    /\ owed' = (owed \/ VerifiedOf(client.listed) # {})
    /\ UNCHANGED <<restoreVars, rjob>>

(***************************************************************************)
(* restic forget, and the report.                                          *)
(***************************************************************************)

\* Variant: the rows of snapshots that were approved and not removed go too.
ForgetSilently ==
  \E gone \in SUBSET client.gone :
    /\ Step("approved", [client EXCEPT !.stage = "forgotten"])
    /\ repo' = repo \ gone
    /\ UNCHANGED <<testVars, held, stale, agent, cat, made, unlisted, latest, edits, ghostVars,
                   spoiled, rjob, owed>>

\* All that was approved goes, or less when restic fails half-way.
Forget ==
  \E gone \in SUBSET client.gone :
    /\ Step("approved", [client EXCEPT !.stage = "forgotten", !.gone = gone])
    /\ repo' = repo \ gone
    /\ UNCHANGED <<testVars, held, stale, agent, cat, made, unlisted, latest, edits, ghostVars,
                   spoiled, rjob, owed>>

\* No candidates: the job completes and nothing is removed.
NothingToForget ==
  /\ client.cand = {}
  /\ Step("asking", [client EXCEPT !.stage = "forgotten"])
  /\ UNCHANGED <<restoreVars, rjob, owed>>

\* Variant: with a status the table does not know.
CompleteAsDone ==
  /\ Step("forgotten", [client EXCEPT !.stage = "cleaning"])
  /\ rjob' = [rjob EXCEPT ![client.job] = "completed"]
  /\ UNCHANGED <<restoreVars, owed>>

\* handleCompleteRetentionJob writes success, whatever the status was.
CompleteRetentionJob ==
  /\ Step("forgotten", [client EXCEPT !.stage = "cleaning"])
  /\ rjob' = [rjob EXCEPT ![client.job] = "success"]
  /\ UNCHANGED <<restoreVars, owed>>

\* Then it deletes the rows of what was removed, one by one; a failure is logged.
RemoveFromCatalog ==
  \E gone \in SUBSET (client.gone \cap cat) :
    /\ Step("cleaning", Resting)
    /\ Cascade(gone)
    /\ spoiled' = (spoiled \/ gone # client.gone \cap cat)
    /\ UNCHANGED <<snapOf, held, stale, agent, repo, made, unlisted, latest, edits, ghostVars,
                   rjob, owed>>

\* handleFailRetentionJob, which removes nothing from the catalog.
FailRetentionJob ==
  /\ client.stage \in {"asking", "approved", "forgotten"}
  /\ rjob' = [rjob EXCEPT ![client.job] = "failed"]
  /\ client' = Resting
  /\ spoiled' = (spoiled \/ (client.stage = "forgotten" /\ client.gone # {}))
  /\ UNCHANGED <<testVars, held, stale, agent, snapVars, edits, ghostVars, owed>>

\* The client dies, or a request of its is lost; a pending job is listed again.
ClientStops ==
  /\ client # Resting
  /\ client' = Resting
  /\ spoiled' = (spoiled \/ (client.stage \in {"forgotten", "cleaning"} /\ client.gone # {}))
  /\ UNCHANGED <<testVars, held, stale, agent, snapVars, edits, ghostVars, rjob, owed>>

Next ==
  \/ RestoreNext /\ UNCHANGED <<rjob, client, owed>>
  \/ \E r \in RetentionJob : DispatchRetention(r) \/ ReapPending(r) \/ TakeRetentionJob(r)
  \/ ListSnapshots \/ Validate \/ Forget \/ NothingToForget
  \/ CompleteRetentionJob \/ RemoveFromCatalog \/ FailRetentionJob \/ ClientStops

Spec == Init /\ [][Next]_vars

(***************************************************************************)
(* Properties.                                                             *)
(***************************************************************************)

Stages == {"idle", "asking", "validating", "approved", "forgotten", "cleaning"}

TypeOK ==
  /\ RestoreTypeOK
  /\ rjob \in [RetentionJob -> {"none", "pending", "success", "failed"}]
  /\ client \in [stage : Stages, job : RetentionJob \union {NoRetention},
                 cand : SUBSET Snap, listed : SUBSET Snap, gone : SUBSET Snap]
  /\ owed \in BOOLEAN

\* Snapshots of the repository that a restore test has shown to be recoverable.
Recoverable == {s \in repo : \E t \in Test : status[t] = "success" /\ snapOf[t] = s}

\* Once a validation has seen a tested snapshot, the repository keeps one, while
\* tests succeed, snapshots come and go and clients die between the two lists, the
\* removal and the report (agent_retention.go:74).  It holds as long as nobody
\* overwrites a success or deletes a snapshot by hand, no snapshot is registered after
\* its removal and no client dies between its removal and the clean-up of the catalog.
TestedSnapshotRemains == owed /\ ~spoiled => Recoverable # {}

\* No row without a snapshot, but those a retention run has just removed, and no
\* snapshot without a row, but those whose report has registered none: what a client
\* was allowed to remove, and did not, keeps its row (agent_retention.go:196).
CatalogMatchesRepository ==
  ~spoiled =>
    /\ cat \ (IF client.stage \in {"forgotten", "cleaning"} THEN client.gone ELSE {}) \subseteq repo
    /\ repo \subseteq cat \union unlisted
=============================================================================
