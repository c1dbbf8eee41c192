--------------------------- MODULE DispatchGuard ---------------------------
(***************************************************************************)
(* The dispatch guard and everything else that writes the backup_jobs      *)
(* table: internal/catalog/dispatch.go (AdmitStart), internal/catalog/     *)
(* jobs.go (the guarded transitions, the reaper), the operator endpoints   *)
(* of internal/api/jobs.go, the retention reports of internal/api/         *)
(* agent_retention.go, and the rows of systems and backup_policies the     *)
(* guard reads.                                                            *)
(*                                                                         *)
(* PostgreSQL runs at READ COMMITTED.  A statement sees the rows committed *)
(* when it starts, an UPDATE or a SELECT ... FOR UPDATE waits for a row    *)
(* another transaction has locked and then looks at it again.  AdmitStart  *)
(* is one action per statement, because its reads are spread over a        *)
(* transaction; the reaper's UPDATEs are one action per row, because they  *)
(* keep the rows they have taken while they wait for the next.  Every      *)
(* other writer is a single-row statement that commits at once: one action *)
(* that waits for the row.                                                 *)
(*                                                                         *)
(* Time is abstracted away: the last heartbeat is either recent enough to  *)
(* dispatch on (at most HealthDegradedWithin old) or not, and any          *)
(* unfinished job may be past the deadline the reaper applies to it.       *)
(* The columns that only the agent's protocol reads (cancel_requested_at,  *)
(* progress) are in JobDelivery.                                           *)
(***************************************************************************)
EXTENDS Integers, FiniteSets

CONSTANTS
  Job,            \* rows that may exist in backup_jobs
  System,         \* systems, each with its agent
  Policy,         \* backup policies
  Repo,           \* repositories
  Request,        \* start requests in flight, over all control-plane instances
  SystemOf,       \* Job -> System, backup_jobs.system_id
  PolicyOf,       \* Job -> Policy, backup_jobs.policy_id
  ConfiguredLimits, \* DispatchLimits an operator may configure, any integers
  MovablePolicy,  \* policies whose repository_id an operator edits meanwhile
  EditableJob,    \* jobs an operator writes through POST and PUT /v1/jobs
  RetentionJob,   \* jobs that a retention client reports on
  NoRepo,         \* repository_id IS NULL
  NoJob,          \* a request that has no job row
  Nobody,         \* an unlocked row, a free advisory lock
  Reaper          \* the FailStaleJobs task of the scheduler

ASSUME DomainAssumption ==
  /\ IsFiniteSet(Job)
  /\ SystemOf \in [Job -> System]
  /\ PolicyOf \in [Job -> Policy]
  /\ ConfiguredLimits \subseteq [global : Int, repo : Int, agent : Int]
  /\ MovablePolicy \subseteq Policy
  /\ EditableJob \subseteq Job
  /\ RetentionJob \subseteq Job
ASSUME DistinctAssumption ==
  /\ NoRepo \notin Repo
  /\ NoJob \notin Job
  /\ Nobody \notin Request \union {Reaper}
  /\ Reaper \notin Request

VARIABLES
  limits,     \* the limits the guard enforces, the same in every instance
  status,     \* backup_jobs.status; "none" before the INSERT, "deleted" after a DELETE
  policyRepo, \* backup_policies.repository_id
  opState,    \* systems.operation_state
  seen,       \* systems whose last heartbeat is recent
  pc,         \* Request -> the next statement of its AdmitStart
  target,     \* Request -> the job it asks to start
  readRepo,   \* Request -> the repository_id its first SELECT returned
  barred,     \* (ghost) requests that began, and lived so far, with their system closed
  rowOwner,   \* Job -> the transaction that has the row locked
  advOwner,   \* the transaction that has the advisory lock
  reapPc,     \* the reaper's next statement
  reapTodo    \* the rows its running UPDATE has still to lock

sysVars  == <<policyRepo, opState, seen>>
reqVars  == <<pc, target, readRepo, barred>>
lockVars == <<rowOwner, advOwner>>
reapVars == <<reapPc, reapTodo>>
vars == <<limits, status, sysVars, reqVars, lockVars, reapVars>>

Terminal  == {"success", "failed", "cancelled"}
JobStatus == {"pending", "running"} \union Terminal

\* "closed" is any of maintenance, draining and suspended: the gate treats them
\* alike, only the reason it reports differs.
OpState == {"active", "closed"}

\* The statements of AdmitStart, in order; "idle" is no transaction.
Locking == {"global", "repo", "agent", "admit"}
Holding == {"system", "advisory"} \union Locking
ReqPc   == {"idle", "select"} \union Holding

Exists(j) == status[j] \in JobStatus

(***************************************************************************)
(* Derived values.                                                         *)
(***************************************************************************)

\* Variant: the limits are taken as configured.
AsConfigured(l) == l

\* A limit below one is raised to one, so no setting opens the gate.
Normalized(l) == [k \in {"global", "repo", "agent"} |-> IF l[k] < 1 THEN 1 ELSE l[k]]

\* ONLINE and DEGRADED dispatch, OFFLINE and UNKNOWN do not.
HealthPermits(s) == s \in seen
OpStatePermits(s) == opState[s] = "active"
Open(s) == OpStatePermits(s) /\ HealthPermits(s)

Running       == {j \in Job : status[j] = "running"}
RunningIn(rp) == {j \in Running : policyRepo[PolicyOf[j]] = rp}
RunningOn(s)  == {j \in Running : SystemOf[j] = s}

Free(j) == rowOwner[j] = Nobody

Init ==
  /\ limits \in {Normalized(l) : l \in ConfiguredLimits}
  /\ status = [j \in Job |-> "none"]
  /\ policyRepo \in [Policy -> Repo \union {NoRepo}]
  /\ opState = [s \in System |-> "active"]
  /\ seen = {}
  /\ pc = [r \in Request |-> "idle"]
  /\ target = [r \in Request |-> NoJob]
  /\ readRepo = [r \in Request |-> NoRepo]
  /\ barred = {}
  /\ rowOwner = [j \in Job |-> Nobody]
  /\ advOwner = Nobody
  /\ reapPc = "idle" /\ reapTodo = {}

(***************************************************************************)
(* AdmitStart, one action per statement.                                   *)
(***************************************************************************)

\* Variant: a session-level advisory lock, which no COMMIT releases.
EndTxKeepingAdvisory(r) ==
  /\ pc' = [pc EXCEPT ![r] = "idle"]
  /\ target' = [target EXCEPT ![r] = NoJob]
  /\ readRepo' = [readRepo EXCEPT ![r] = NoRepo]
  /\ barred' = barred \ {r}
  /\ rowOwner' = [j \in Job |-> IF rowOwner[j] = r THEN Nobody ELSE rowOwner[j]]
  /\ UNCHANGED advOwner

\* COMMIT or ROLLBACK: both release the row and the advisory lock.
EndTx(r) ==
  /\ pc' = [pc EXCEPT ![r] = "idle"]
  /\ target' = [target EXCEPT ![r] = NoJob]
  /\ readRepo' = [readRepo EXCEPT ![r] = NoRepo]
  /\ barred' = barred \ {r}
  /\ rowOwner' = [j \in Job |-> IF rowOwner[j] = r THEN Nobody ELSE rowOwner[j]]
  /\ advOwner' = IF advOwner = r THEN Nobody ELSE advOwner

Advance(r, next) ==
  /\ pc' = [pc EXCEPT ![r] = next]
  /\ UNCHANGED <<target, readRepo, barred>>

\* Variant: the advisory lock is tried before the job row is locked.
BeginStartWithAdvisory(r, j) ==
  /\ pc[r] = "idle" /\ Exists(j)
  /\ pc' = [pc EXCEPT ![r] = "select"]
  /\ target' = [target EXCEPT ![r] = j]
  /\ readRepo' = [readRepo EXCEPT ![r] = policyRepo[PolicyOf[j]]]
  /\ barred' = IF Open(SystemOf[j]) THEN barred ELSE barred \union {r}
  /\ advOwner' = IF advOwner = Nobody THEN r ELSE advOwner
  /\ UNCHANGED <<limits, status, sysVars, rowOwner, reapVars>>

\* BEGIN, and the snapshot of the first SELECT: the repository of the job's policy
\* is the one committed now, however long the row lock is waited for.
BeginStart(r, j) ==
  /\ pc[r] = "idle" /\ Exists(j)
  /\ pc' = [pc EXCEPT ![r] = "select"]
  /\ target' = [target EXCEPT ![r] = j]
  /\ readRepo' = [readRepo EXCEPT ![r] = policyRepo[PolicyOf[j]]]
  /\ barred' = IF Open(SystemOf[j]) THEN barred ELSE barred \union {r}
  /\ UNCHANGED <<limits, status, sysVars, lockVars, reapVars>>

\* SELECT ... FOR UPDATE OF j: a job that is gone or not pending ends in an error.
LockJob(r) ==
  /\ pc[r] = "select" /\ Free(target[r])
  /\ \/ /\ status[target[r]] = "pending"
        /\ rowOwner' = [rowOwner EXCEPT ![target[r]] = r]
        /\ Advance(r, "system")
        /\ UNCHANGED advOwner
     \/ status[target[r]] # "pending" /\ EndTx(r)
  /\ UNCHANGED <<limits, status, sysVars, reapVars>>

\* Variant: only the operation state is looked at.
ReadOpState(r) ==
  /\ pc[r] = "system"
  /\ \/ OpStatePermits(SystemOf[target[r]]) /\ Advance(r, "advisory") /\ UNCHANGED lockVars
     \/ ~OpStatePermits(SystemOf[target[r]]) /\ EndTx(r)
  /\ UNCHANGED <<limits, status, sysVars, reapVars>>

\* Reads the system's row, without a lock on it, and applies both state gates.
ReadSystem(r) ==
  /\ pc[r] = "system"
  /\ \/ Open(SystemOf[target[r]]) /\ Advance(r, "advisory") /\ UNCHANGED lockVars
     \/ ~Open(SystemOf[target[r]]) /\ EndTx(r)
  /\ UNCHANGED <<limits, status, sysVars, reapVars>>

\* Variant: a shared advisory lock, which excludes nobody.
TakeAdvisoryShared(r) ==
  /\ pc[r] = "advisory"
  /\ advOwner' = r
  /\ Advance(r, "global")
  /\ UNCHANGED <<limits, status, sysVars, rowOwner, reapVars>>

TakeAdvisory(r) ==
  /\ pc[r] = "advisory" /\ advOwner = Nobody
  /\ advOwner' = r
  /\ Advance(r, "global")
  /\ UNCHANGED <<limits, status, sysVars, rowOwner, reapVars>>

\* One resource gate: below the limit go on, otherwise COMMIT with the job pending.
Gate(r, at, belowLimit, next) ==
  /\ pc[r] = at
  /\ \/ belowLimit /\ Advance(r, next) /\ UNCHANGED lockVars
     \/ ~belowLimit /\ EndTx(r)
  /\ UNCHANGED <<limits, status, sysVars, reapVars>>

\* Variant: admits one job too many.
CountGlobalInclusive(r) == Gate(r, "global", Cardinality(Running) <= limits.global, "repo")

CountGlobal(r) == Gate(r, "global", Cardinality(Running) < limits.global, "repo")

\* Variant: the advisory lock is given up once the shared pools are counted.
CountRepoThenUnlock(r) ==
  /\ pc[r] = "repo"
  /\ readRepo[r] # NoRepo => Cardinality(RunningIn(readRepo[r])) < limits.repo
  /\ Advance(r, "agent")
  /\ advOwner' = Nobody
  /\ UNCHANGED <<limits, status, sysVars, rowOwner, reapVars>>

\* Skipped when the policy has no repository.
CountRepo(r) ==
  Gate(r, "repo",
       readRepo[r] # NoRepo => Cardinality(RunningIn(readRepo[r])) < limits.repo,
       "agent")

CountAgent(r) ==
  Gate(r, "agent", Cardinality(RunningOn(SystemOf[target[r]])) < limits.agent, "admit")

\* UPDATE ... WHERE status='pending', then COMMIT: the row has been locked since
\* LockJob, so nobody saw the step between the two.
Admit(r) ==
  /\ pc[r] = "admit"
  /\ \/ /\ status[target[r]] = "pending"
        /\ status' = [status EXCEPT ![target[r]] = "running"]
     \/ status[target[r]] # "pending" /\ UNCHANGED status
  /\ EndTx(r)
  /\ UNCHANGED <<limits, sysVars, reapVars>>

\* The request timeout, a lost connection or the death of the instance.
Rollback(r) ==
  /\ pc[r] # "idle"
  /\ EndTx(r)
  /\ UNCHANGED <<limits, status, sysVars, reapVars>>

(***************************************************************************)
(* The single-row statements on backup_jobs.                               *)
(***************************************************************************)

UnchangedButStatus == UNCHANGED <<limits, sysVars, reqVars, lockVars, reapVars>>

\* The scheduler and the manual dispatch insert pending jobs.
CreatePending(j) ==
  /\ status[j] = "none"
  /\ status' = [status EXCEPT ![j] = "pending"]
  /\ UnchangedButStatus

\* applyTransition: a conditional UPDATE keyed on the source states.
Transition(j, from, to) ==
  /\ status[j] \in from /\ Free(j)
  /\ status' = [status EXCEPT ![j] = to]
  /\ UnchangedButStatus

\* Variant: a report of success is believed of a job that has not been started.
CompleteUnstartedJob(j) == Transition(j, {"running", "pending"}, "success")

CompleteJob(j) == Transition(j, {"running"}, "success")
FailJob(j)     == Transition(j, {"running", "pending"}, "failed")
CancelJob(j)   == Transition(j, {"running"}, "cancelled")

DeleteJob(j) == Transition(j, JobStatus, "deleted")

\* POST /v1/jobs: the status is the client's, and "running" when it sends none.
CreateJob(j, st) ==
  /\ j \in EditableJob /\ status[j] = "none"
  /\ status' = [status EXCEPT ![j] = st]
  /\ UnchangedButStatus

\* PUT /v1/jobs/{id} writes the client's status over any other.
UpdateJob(j, st) ==
  /\ j \in EditableJob /\ Exists(j) /\ Free(j)
  /\ status' = [status EXCEPT ![j] = st]
  /\ UnchangedButStatus

\* Retention complete and fail: the job is read by its identifier, whatever its type
\* and its status, and all of its row is written back.
EndRetentionJob(j, st) ==
  /\ j \in RetentionJob /\ st \in {"success", "failed"} /\ Exists(j) /\ Free(j)
  /\ status' = [status EXCEPT ![j] = st]
  /\ UnchangedButStatus

(***************************************************************************)
(* FailStaleJobs: two UPDATEs, each its own transaction.                   *)
(***************************************************************************)

\* The status the rows of the UPDATE the reaper is in must have.
ReapStatus == IF reapPc = "running" THEN "running" ELSE "pending"

\* The rows its snapshot finds past their deadline.
ReapBegin(from, to) ==
  /\ reapPc = from
  /\ reapPc' = to
  /\ \E overdue \in SUBSET {j \in Job : status[j] = to} : reapTodo' = overdue
  /\ UNCHANGED <<limits, status, sysVars, reqVars, lockVars>>

ReapRunning == ReapBegin("idle", "running")
ReapPending == ReapBegin("between", "pending")

\* Variant: the status is not looked at again after the wait for the row.
ReapRowUnchecked(j) ==
  /\ reapPc \in {"running", "pending"} /\ j \in reapTodo /\ Free(j)
  /\ reapTodo' = reapTodo \ {j}
  /\ rowOwner' = [rowOwner EXCEPT ![j] = Reaper]
  /\ UNCHANGED <<limits, status, sysVars, reqVars, advOwner, reapPc>>

\* The UPDATE takes one more row, or passes it over: the row it waited for may have
\* left the status, or its progress may have moved the deadline.
ReapRow(j) ==
  /\ reapPc \in {"running", "pending"} /\ j \in reapTodo /\ Free(j)
  /\ reapTodo' = reapTodo \ {j}
  /\ \/ status[j] = ReapStatus /\ rowOwner' = [rowOwner EXCEPT ![j] = Reaper]
     \/ UNCHANGED rowOwner
  /\ UNCHANGED <<limits, status, sysVars, reqVars, advOwner, reapPc>>

ReleaseReaped == [j \in Job |-> IF rowOwner[j] = Reaper THEN Nobody ELSE rowOwner[j]]

ReapCommit ==
  /\ reapPc \in {"running", "pending"} /\ reapTodo = {}
  /\ status' = [j \in Job |-> IF rowOwner[j] = Reaper THEN "failed" ELSE status[j]]
  /\ rowOwner' = ReleaseReaped
  /\ reapPc' = IF reapPc = "running" THEN "between" ELSE "idle"
  /\ UNCHANGED <<limits, sysVars, reqVars, advOwner, reapTodo>>

\* An error or a restart: the open UPDATE is undone, the rest is skipped.
ReapAbort ==
  /\ reapPc # "idle"
  /\ rowOwner' = ReleaseReaped
  /\ reapPc' = "idle" /\ reapTodo' = {}
  /\ UNCHANGED <<limits, status, sysVars, reqVars, advOwner>>

(***************************************************************************)
(* Systems, policies and time.                                             *)
(***************************************************************************)

\* The ghost: a request stops being barred when its system opens.
UpdateBarred == barred' = {r \in barred : ~Open(SystemOf[target[r]])'}

SetOperationState(s, o) ==
  /\ opState[s] # o
  /\ opState' = [opState EXCEPT ![s] = o]
  /\ UNCHANGED <<limits, status, policyRepo, seen, pc, target, readRepo, lockVars, reapVars>>
  /\ UpdateBarred

\* POST /v1/agent/heartbeat.
Heartbeat(s) ==
  /\ seen' = seen \union {s}
  /\ UNCHANGED <<limits, status, policyRepo, opState, pc, target, readRepo, lockVars, reapVars>>
  /\ UpdateBarred

UpdatePolicy(p, rp) ==
  /\ p \in MovablePolicy
  /\ policyRepo' = [policyRepo EXCEPT ![p] = rp]
  /\ UNCHANGED <<limits, status, opState, seen, reqVars, lockVars, reapVars>>

\* More than HealthDegradedWithin since the last heartbeat.
HeartbeatAges(s) ==
  /\ s \in seen
  /\ seen' = seen \ {s}
  /\ UNCHANGED <<limits, status, policyRepo, opState, reqVars, lockVars, reapVars>>

(***************************************************************************)
(* The specification.                                                      *)
(***************************************************************************)

Proceed(r) ==
  \/ LockJob(r) \/ ReadSystem(r) \/ TakeAdvisory(r)
  \/ CountGlobal(r) \/ CountRepo(r) \/ CountAgent(r) \/ Admit(r)

Reap == ReapRunning \/ ReapPending \/ ReapCommit \/ \E j \in Job : ReapRow(j)

Next ==
  \/ \E r \in Request : Proceed(r) \/ Rollback(r) \/ \E j \in Job : BeginStart(r, j)
  \/ \E j \in Job :
       \/ CreatePending(j) \/ CompleteJob(j) \/ FailJob(j) \/ CancelJob(j)
       \/ DeleteJob(j)
       \/ \E st \in JobStatus :
            CreateJob(j, st) \/ UpdateJob(j, st) \/ EndRetentionJob(j, st)
  \/ Reap \/ ReapAbort
  \/ \E s \in System :
       Heartbeat(s) \/ HeartbeatAges(s) \/ \E o \in OpState : SetOperationState(s, o)
  \/ \E p \in Policy, rp \in Repo \union {NoRepo} : UpdatePolicy(p, rp)

\* The database answers every statement, and hands a lock that is asked for again
\* and again to its waiters in turn.
Fairness ==
  /\ \A r \in Request : SF_vars(Proceed(r))
  /\ WF_vars(ReapCommit) /\ \A j \in Job : SF_vars(ReapRow(j))

Spec == Init /\ [][Next]_vars
FairSpec == Spec /\ Fairness

(***************************************************************************)
(* Properties.                                                             *)
(***************************************************************************)

\* Every variable has its type; in particular no configuration yields a limit below one.
TypeOK ==
  /\ limits \in [{"global", "repo", "agent"} -> Nat \ {0}]
  /\ status \in [Job -> {"none", "deleted"} \union JobStatus]
  /\ policyRepo \in [Policy -> Repo \union {NoRepo}]
  /\ opState \in [System -> OpState]
  /\ seen \subseteq System
  /\ pc \in [Request -> ReqPc]
  /\ target \in [Request -> Job \union {NoJob}]
  /\ readRepo \in [Request -> Repo \union {NoRepo}]
  /\ barred \subseteq Request
  /\ rowOwner \in [Job -> Request \union {Reaper, Nobody}]
  /\ advOwner \in Request \union {Nobody}
  /\ reapPc \in {"idle", "running", "between", "pending"}
  /\ reapTodo \subseteq Job

\* The jobs whose status only guarded statements write: no operator edits them and no
\* retention client reports on them.
GuardedJob == Job \ (EditableJob \union RetentionJob)

\* The jobs that run because the guard admitted them.  A retention report ends a job
\* and never makes one run.
Admitted == Running \ EditableJob

\* However many requests race, over however many instances, and whatever ends,
\* deletes or reaps jobs meanwhile: the guard never has more jobs running than
\* the global limit.
GlobalWithinLimit == Cardinality(Admitted) <= limits.global

\* Nor more on one agent than the agent limit.
AgentWithinLimit ==
  \A s \in System : Cardinality({j \in Admitted : SystemOf[j] = s}) <= limits.agent

\* Nor more on one repository than the repository limit, of the jobs whose policy
\* stays with its repository.
RepoWithinLimit ==
  \A rp \in Repo :
    Cardinality({j \in Admitted : /\ PolicyOf[j] \notin MovablePolicy
                                  /\ policyRepo[PolicyOf[j]] = rp}) <= limits.repo

\* The same without the exception: true of the table whatever operators do to it.
RepoTableWithinLimit == \A rp \in Repo : Cardinality(RunningIn(rp)) <= limits.repo

\* A system that is closed, or unheard of, from before the request until now has
\* not been given a place in the admission: the request has not passed ReadSystem.
ClosedSystemBarsRequest == \A r \in barred : pc[r] \in {"select", "system"}

\* A job never starts on a system that is not ACTIVE when its start commits.
NoStartOnClosedSystem ==
  [][\A j \in Job \ EditableJob :
       status[j] = "pending" /\ status'[j] = "running" => OpStatePermits(SystemOf[j])]_vars

\* A guarded job that has ended stays ended, with the outcome it ended with, however
\* late a report, a reaper or a start request that waited for its row comes.  It is
\* false of the others: a retention report makes a success of a job the reaper has
\* failed (agent_retention.go:188).
EndedStaysEnded ==
  [][\A j \in GuardedJob :
       status[j] \in Terminal => status'[j] \in {status[j], "deleted"}]_vars

\* b has what a is waiting for.
WaitsFor(a, b) ==
  \/ /\ a \in Request /\ pc[a] = "select" /\ b = rowOwner[target[a]]
     /\ b # Nobody
  \/ a \in Request /\ pc[a] = "advisory" /\ b = advOwner /\ b # Nobody
  \/ a = Reaper /\ b # Nobody /\ \E j \in reapTodo : b = rowOwner[j]

\* No set of transactions waits in a circle, though AdmitStart holds a job row while
\* it waits for the advisory lock and the reaper holds rows while it waits for rows:
\* some member of every set waits for no other member.
NoLockCycle ==
  \A S \in (SUBSET (Request \union {Reaper})) \ {{}} :
    \E a \in S : \A b \in S : ~WaitsFor(a, b)

\* The repository a job counts in: whoever moves a policy takes its jobs out of the
\* repositories' slots, as whoever writes a job past the guard takes it out of the pool.
PinnedRepo(j) == IF PolicyOf[j] \in MovablePolicy THEN NoRepo ELSE policyRepo[PolicyOf[j]]

\* For the guarded jobs the guard implements the pool, whatever is done to the others
\* meanwhile: an admission that is spread over seven statements takes its three slots
\* as if in one.
Pool == INSTANCE SlotPool WITH
  Job <- GuardedJob,
  status <- [j \in GuardedJob |-> status[j]],
  repoOf <- [j \in GuardedJob |-> PinnedRepo(j)]
ImplementsPool == Pool!Spec

\* Every start request ends, admitted or not: neither the row nor the advisory lock
\* is waited for forever.
RequestsEnd == \A r \in Request : pc[r] # "idle" ~> pc[r] = "idle"
=============================================================================
