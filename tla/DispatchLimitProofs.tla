------------------------ MODULE DispatchLimitProofs ------------------------
(***************************************************************************)
(* That the dispatch guard keeps every limit, for any number of jobs,      *)
(* systems, policies, repositories and requests.                           *)
(*                                                                         *)
(* A request that has counted below a limit keeps room below it until it   *)
(* admits: only an admission makes the counted sets grow, every admission  *)
(* happens under the advisory lock, and the lock has one owner.  The       *)
(* status that Admit writes is still "pending" when it does, because the   *)
(* row is locked from the first SELECT on.                                 *)
(***************************************************************************)
EXTENDS DispatchGuardProofs

USE DomainAssumption, DistinctAssumption

(***************************************************************************)
(* The inductive invariant.                                                *)
(***************************************************************************)

AdmittedOn(s) == {j \in Admitted : SystemOf[j] = s}
PinnedIn(rp)  == {j \in Admitted : PolicyOf[j] \notin MovablePolicy /\ policyRepo[PolicyOf[j]] = rp}

\* Who is between the advisory lock and COMMIT has the lock, and nobody else.
AdvisoryOf(r) == pc[r] \in Locking <=> advOwner = r

\* A request that is past its first SELECT has its job's row, and the job is pending.
HoldingOf(r) ==
  /\ pc[r] # "idle" => target[r] \in Job
  /\ pc[r] \in Holding => rowOwner[target[r]] = r /\ status[target[r]] = "pending"

\* A locked row is that of its owner's job, or one the reaper is about to fail.
RowOf(j) ==
  /\ \A r \in Request : rowOwner[j] = r => target[r] = j /\ pc[r] \in Holding
  /\ rowOwner[j] = Reaper => reapPc \in {"running", "pending"} /\ status[j] = ReapStatus

\* The repository read with the job is still that of its policy.
RepoOf(r) ==
  pc[r] # "idle" /\ PolicyOf[target[r]] \notin MovablePolicy =>
    readRepo[r] = policyRepo[PolicyOf[target[r]]]

LockInv ==
  /\ \A r \in Request : AdvisoryOf(r) /\ HoldingOf(r) /\ RepoOf(r)
  /\ \A j \in Job : RowOf(j)

\* There is a slot left, globally, in a repository, on an agent.
GlobalRoom    == Cardinality(Admitted) < limits.global
RepoRoom(rp)  == Cardinality(PinnedIn(rp)) < limits.repo
AgentRoom(s)  == Cardinality(AdmittedOn(s)) < limits.agent

\* What a request has counted still holds.
RoomOf(r) ==
  /\ pc[r] \in {"repo", "agent", "admit"} => GlobalRoom
  /\ pc[r] \in {"agent", "admit"} /\ readRepo[r] # NoRepo => RepoRoom(readRepo[r])
  /\ pc[r] = "admit" => AgentRoom(SystemOf[target[r]])

RoomInv == \A r \in Request : RoomOf(r)

WithinLimits ==
  /\ Cardinality(Admitted) <= limits.global
  /\ \A s \in System : Cardinality(AdmittedOn(s)) <= limits.agent
  /\ \A rp \in Repo : Cardinality(PinnedIn(rp)) <= limits.repo

IInv == TypeOK /\ LockInv /\ RoomInv /\ WithinLimits

\* The types the proofs about locks need.
LockTypes ==
  /\ status \in [Job -> {"none", "deleted"} \union JobStatus]
  /\ policyRepo \in [Policy -> Repo \union {NoRepo}]
  /\ pc \in [Request -> ReqPc]
  /\ target \in [Request -> Job \union {NoJob}]
  /\ readRepo \in [Request -> Repo \union {NoRepo}]
  /\ rowOwner \in [Job -> Request \union {Reaper, Nobody}]
  /\ advOwner \in Request \union {Nobody}

LEMMA TypeOKLockTypes == TypeOK => LockTypes
BY DEF TypeOK, LockTypes

LEMMA InitIInv == Init => IInv
<1> SUFFICES ASSUME Init PROVE IInv
  OBVIOUS
<1>1. TypeOK
  BY InitTypeOK
<1>2. LockInv
  <2>1. ASSUME NEW r \in Request PROVE AdvisoryOf(r) /\ HoldingOf(r) /\ RepoOf(r)
    <3>1. pc[r] = "idle" /\ advOwner # r
      BY DEF Init
    <3> QED
      BY <3>1 DEF AdvisoryOf, HoldingOf, RepoOf, Locking, Holding
  <2>2. ASSUME NEW j \in Job PROVE RowOf(j)
    BY DEF Init, RowOf
  <2> QED
    BY <2>1, <2>2 DEF LockInv
<1>3. RoomInv
  BY DEF Init, RoomInv, RoomOf
<1>4. WithinLimits
  <2>1. Admitted = {}
    BY DEF Init, Admitted, Running
  <2>2. /\ \A s \in System : AdmittedOn(s) = {}
        /\ \A rp \in Repo : PinnedIn(rp) = {}
    BY <2>1 DEF AdmittedOn, PinnedIn
  <2>3. limits.global >= 0 /\ limits.repo >= 0 /\ limits.agent >= 0
    BY <1>1 DEF TypeOK
  <2>4. Cardinality({}) = 0
    BY FS_EmptySet
  <2> QED
    BY <2>1, <2>2, <2>3, <2>4 DEF WithinLimits
<1> QED
  BY <1>1, <1>2, <1>3, <1>4 DEF IInv

(***************************************************************************)
(* The locks.                                                              *)
(***************************************************************************)

\* The step moves no policy that is not movable.
PinsStay == \A p \in Policy \ MovablePolicy : policyRepo'[p] = policyRepo[p]

\* The statuses of rows that nobody has locked do not matter.
LEMMA StatusFrame ==
  ASSUME LockTypes, LockInv, PinsStay,
         UNCHANGED <<lockVars, reapVars, pc, target, readRepo>>,
         \A j \in Job : rowOwner[j] # Nobody => status'[j] = status[j]
  PROVE  LockInv'
<1>1. ASSUME NEW r \in Request PROVE (AdvisoryOf(r) /\ HoldingOf(r) /\ RepoOf(r))'
  <2>1. AdvisoryOf(r)'
    BY DEF LockInv, AdvisoryOf, lockVars
  <2>3. RepoOf(r)'
    BY DEF LockInv, HoldingOf, RepoOf, PinsStay
  <2>2. HoldingOf(r)'
    BY DEF LockInv, HoldingOf, lockVars, Holding, Locking
  <2> QED
    BY <2>1, <2>2, <2>3
<1>2. ASSUME NEW j \in Job PROVE RowOf(j)'
  BY DEF LockInv, RowOf, ReapStatus, lockVars, reapVars
<1> QED
  BY <1>1, <1>2 DEF LockInv

\* A transaction that ends leaves the locks of the others as they are.
LEMMA EndTxLock ==
  ASSUME LockTypes, LockInv, NEW r \in Request, EndTx(r), UNCHANGED <<sysVars, reapVars>>,
         \A j \in Job : rowOwner[j] # r => status'[j] = status[j]
  PROVE  LockInv'
<1>1. ASSUME NEW i \in Request PROVE (AdvisoryOf(i) /\ HoldingOf(i) /\ RepoOf(i))'
  <2>1. CASE i = r
    <3>1. pc'[i] = "idle" /\ advOwner' # i
      BY <2>1 DEF LockTypes, EndTx
    <3> QED
      BY <3>1 DEF AdvisoryOf, HoldingOf, RepoOf, Locking, Holding
  <2>2. CASE i # r
    <3>1. /\ pc'[i] = pc[i] /\ target'[i] = target[i] /\ readRepo'[i] = readRepo[i]
          /\ advOwner' = i <=> advOwner = i
      BY <2>2 DEF LockTypes, EndTx
    <3>2. AdvisoryOf(i)' /\ RepoOf(i)'
      BY <3>1 DEF LockInv, AdvisoryOf, RepoOf, sysVars
    <3>3. HoldingOf(i)'
      BY <2>2, <3>1 DEF LockInv, HoldingOf, EndTx, Holding, Locking
    <3> QED
      BY <3>2, <3>3
  <2> QED
    BY <2>1, <2>2
<1>2. ASSUME NEW j \in Job PROVE RowOf(j)'
  <2>1. CASE rowOwner[j] = r
    BY <2>1 DEF EndTx, RowOf
  <2>2. CASE rowOwner[j] # r
    <3>1. rowOwner'[j] = rowOwner[j] /\ status'[j] = status[j]
      BY <2>2 DEF EndTx
    <3>2. \A i \in Request : i # r => pc'[i] = pc[i] /\ target'[i] = target[i]
      BY DEF LockTypes, EndTx
    <3> QED
      BY <2>2, <3>1, <3>2 DEF LockInv, RowOf, ReapStatus, reapVars
  <2> QED
    BY <2>1, <2>2
<1> QED
  BY <1>1, <1>2 DEF LockInv

\* A statement that moves a request on and takes no lock.
LEMMA AdvanceLock ==
  ASSUME LockTypes, LockInv, NEW r \in Request, NEW next \in Holding, Advance(r, next),
         pc[r] \in Holding, next \in Locking <=> pc[r] \in Locking,
         UNCHANGED <<status, sysVars, lockVars, reapVars>>
  PROVE  LockInv'
<1>0. pc' = [pc EXCEPT ![r] = next] /\ target' = target /\ readRepo' = readRepo
  BY DEF Advance
<1>1. ASSUME NEW i \in Request PROVE (AdvisoryOf(i) /\ HoldingOf(i) /\ RepoOf(i))'
  <2>1. pc'[i] = IF i = r THEN next ELSE pc[i]
    BY <1>0 DEF LockTypes
  <2>2. AdvisoryOf(i)'
    BY <2>1 DEF LockInv, AdvisoryOf, lockVars
  <2>3. HoldingOf(i)' /\ RepoOf(i)'
    BY <1>0, <2>1 DEF LockInv, HoldingOf, RepoOf, lockVars, sysVars, Holding, Locking
  <2> QED
    BY <2>2, <2>3
<1>2. ASSUME NEW j \in Job PROVE RowOf(j)'
  BY <1>0 DEF LockTypes, LockInv, RowOf, ReapStatus, lockVars, reapVars
<1> QED
  BY <1>1, <1>2 DEF LockInv

LEMMA GateLock ==
  ASSUME LockTypes, LockInv, NEW r \in Request, NEW at \in Locking, NEW below,
         NEW next \in Locking, Gate(r, at, below, next)
  PROVE  LockInv'
<1>1. CASE EndTx(r)
  BY <1>1, EndTxLock DEF Gate
<1>2. CASE Advance(r, next) /\ UNCHANGED lockVars
  BY <1>2, AdvanceLock DEF Gate, Holding
<1> QED
  BY <1>1, <1>2 DEF Gate

LEMMA LockJobLock ==
  ASSUME LockTypes, LockInv, NEW r \in Request, LockJob(r)
  PROVE  LockInv'
<1>1. CASE EndTx(r)
  BY <1>1, EndTxLock DEF LockJob
<1>2. CASE /\ status[target[r]] = "pending" /\ Advance(r, "system") /\ UNCHANGED advOwner
           /\ rowOwner' = [rowOwner EXCEPT ![target[r]] = r]
  <2>0. /\ target[r] \in Job /\ rowOwner[target[r]] = Nobody /\ pc[r] = "select"
        /\ pc' = [pc EXCEPT ![r] = "system"] /\ target' = target /\ readRepo' = readRepo
        /\ status' = status /\ policyRepo' = policyRepo /\ reapPc' = reapPc
    BY <1>2 DEF LockJob, Free, LockInv, HoldingOf, Advance, sysVars, reapVars
  <2>1. ASSUME NEW i \in Request PROVE (AdvisoryOf(i) /\ HoldingOf(i) /\ RepoOf(i))'
    <3>1. pc'[i] = IF i = r THEN "system" ELSE pc[i]
      BY <2>0 DEF LockTypes
    <3>2. AdvisoryOf(i)'
      BY <1>2, <2>0, <3>1 DEF LockInv, AdvisoryOf, Locking
    <3>3. HoldingOf(i)'
      BY <1>2, <2>0, <3>1 DEF LockTypes, LockInv, HoldingOf
    <3>4. RepoOf(i)'
      BY <2>0, <3>1 DEF LockInv, RepoOf
    <3> QED
      BY <3>2, <3>3, <3>4
  <2>2. ASSUME NEW j \in Job PROVE RowOf(j)'
    <3>1. CASE j = target[r]
      BY <1>2, <2>0, <3>1 DEF LockTypes, RowOf, Holding
    <3>2. CASE j # target[r]
      BY <1>2, <2>0, <3>2 DEF LockTypes, LockInv, RowOf, ReapStatus, Holding, Locking
    <3> QED
      BY <3>1, <3>2
  <2> QED
    BY <2>1, <2>2 DEF LockInv
<1> QED
  BY <1>1, <1>2 DEF LockJob

LEMMA TakeAdvisoryLock ==
  ASSUME LockTypes, LockInv, NEW r \in Request, TakeAdvisory(r)
  PROVE  LockInv'
<1>0. /\ pc[r] = "advisory" /\ advOwner = Nobody /\ advOwner' = r
      /\ pc' = [pc EXCEPT ![r] = "global"] /\ target' = target /\ readRepo' = readRepo
      /\ status' = status /\ policyRepo' = policyRepo /\ reapPc' = reapPc
      /\ rowOwner' = rowOwner
  BY DEF TakeAdvisory, Advance, sysVars, reapVars
<1>1. ASSUME NEW i \in Request PROVE (AdvisoryOf(i) /\ HoldingOf(i) /\ RepoOf(i))'
  <2>1. pc'[i] = IF i = r THEN "global" ELSE pc[i]
    BY <1>0 DEF LockTypes
  <2>2. AdvisoryOf(i)'
    BY <1>0, <2>1 DEF LockInv, AdvisoryOf, Locking
  <2>3. HoldingOf(i)' /\ RepoOf(i)'
    BY <1>0, <2>1 DEF LockInv, HoldingOf, RepoOf, Holding
  <2> QED
    BY <2>2, <2>3
<1>2. ASSUME NEW j \in Job PROVE RowOf(j)'
  BY <1>0 DEF LockTypes, LockInv, RowOf, ReapStatus, Holding, Locking
<1> QED
  BY <1>1, <1>2 DEF LockInv

LEMMA RequestLock ==
  ASSUME LockTypes, LockInv, NEW r \in Request, Proceed(r) \/ Rollback(r)
  PROVE  LockInv'
<1>1. CASE LockJob(r)
  BY <1>1, LockJobLock
<1>2. CASE ReadSystem(r)
  <2>1. CASE EndTx(r)
    BY <1>2, <2>1, EndTxLock DEF ReadSystem
  <2>2. CASE Advance(r, "advisory") /\ UNCHANGED lockVars
    BY <1>2, <2>2, AdvanceLock DEF ReadSystem, Holding, Locking
  <2> QED
    BY <1>2, <2>1, <2>2 DEF ReadSystem
<1>3. CASE TakeAdvisory(r)
  BY <1>3, TakeAdvisoryLock
<1>4. CASE CountGlobal(r) \/ CountRepo(r) \/ CountAgent(r)
  BY <1>4, GateLock DEF CountGlobal, CountRepo, CountAgent, Locking
<1>5. CASE Admit(r)
  <2>1. target[r] \in Job /\ rowOwner[target[r]] = r
    BY <1>5 DEF Admit, LockInv, HoldingOf, Holding, Locking
  <2>2. \A j \in Job : rowOwner[j] # r => status'[j] = status[j]
    BY <1>5, <2>1 DEF LockTypes, Admit
  <2> QED
    BY <1>5, <2>2, EndTxLock DEF Admit
<1>6. CASE Rollback(r)
  BY <1>6, EndTxLock DEF Rollback
<1> QED
  BY <1>1, <1>2, <1>3, <1>4, <1>5, <1>6 DEF Proceed

LEMMA BeginLock ==
  ASSUME LockTypes, LockInv, NEW r \in Request, NEW j \in Job, BeginStart(r, j)
  PROVE  LockInv'
<1>0. /\ pc[r] = "idle" /\ pc' = [pc EXCEPT ![r] = "select"]
      /\ target' = [target EXCEPT ![r] = j]
      /\ readRepo' = [readRepo EXCEPT ![r] = policyRepo[PolicyOf[j]]]
      /\ status' = status /\ policyRepo' = policyRepo /\ reapPc' = reapPc
      /\ rowOwner' = rowOwner /\ advOwner' = advOwner
  BY DEF BeginStart, sysVars, lockVars, reapVars
<1>1. ASSUME NEW i \in Request PROVE (AdvisoryOf(i) /\ HoldingOf(i) /\ RepoOf(i))'
  <2>1. CASE i = r
    <3>1. pc'[i] = "select" /\ target'[i] = j /\ readRepo'[i] = policyRepo[PolicyOf[j]]
      BY <1>0, <2>1 DEF LockTypes
    <3>2. advOwner # i
      BY <1>0, <2>1 DEF LockInv, AdvisoryOf, Locking
    <3> QED
      BY <1>0, <3>1, <3>2 DEF AdvisoryOf, HoldingOf, RepoOf, Holding, Locking
  <2>2. CASE i # r
    <3>1. pc'[i] = pc[i] /\ target'[i] = target[i] /\ readRepo'[i] = readRepo[i]
      BY <1>0, <2>2 DEF LockTypes
    <3> QED
      BY <1>0, <3>1 DEF LockInv, AdvisoryOf, HoldingOf, RepoOf
  <2> QED
    BY <2>1, <2>2
<1>2. ASSUME NEW k \in Job PROVE RowOf(k)'
  <2>1. rowOwner[k] # r
    BY <1>0 DEF LockInv, RowOf, Holding, Locking
  <2>2. \A i \in Request : i # r => pc'[i] = pc[i] /\ target'[i] = target[i]
    BY <1>0 DEF LockTypes
  <2> QED
    BY <1>0, <2>1, <2>2 DEF LockInv, RowOf, ReapStatus
<1> QED
  BY <1>1, <1>2 DEF LockInv

JobStep(j) ==
  \/ CreatePending(j) \/ CompleteJob(j) \/ FailJob(j) \/ CancelJob(j) \/ DeleteJob(j)
  \/ \E st \in JobStatus : CreateJob(j, st) \/ UpdateJob(j, st) \/ EndRetentionJob(j, st)

\* A row that does not exist yet is locked by nobody.
LEMMA NewRowFree ==
  ASSUME LockTypes, LockInv, NEW j \in Job, status[j] = "none"
  PROVE  Free(j)
<1>1. rowOwner[j] \notin Request
  BY DEF LockInv, RowOf, HoldingOf
<1>2. rowOwner[j] # Reaper
  BY DEF LockInv, RowOf, ReapStatus
<1> QED
  BY <1>1, <1>2 DEF LockTypes, Free

LEMMA JobLock ==
  ASSUME LockTypes, LockInv, NEW j \in Job, JobStep(j)
  PROVE  LockInv'
<1>1. UnchangedButStatus /\ Free(j) /\ \E st : status' = [status EXCEPT ![j] = st]
  <2>1. CASE CompleteJob(j) \/ FailJob(j) \/ CancelJob(j) \/ DeleteJob(j)
    BY <2>1 DEF CompleteJob, FailJob, CancelJob, DeleteJob, Transition
  <2>2. CASE CreatePending(j)
    BY <2>2, NewRowFree DEF CreatePending
  <2>3. ASSUME NEW st \in JobStatus, CreateJob(j, st) \/ UpdateJob(j, st) \/ EndRetentionJob(j, st)
        PROVE  UnchangedButStatus /\ Free(j) /\ status' = [status EXCEPT ![j] = st]
    BY <2>3, NewRowFree DEF CreateJob, UpdateJob, EndRetentionJob
  <2> QED
    BY <2>1, <2>2, <2>3 DEF JobStep
<1>2. \A i \in Job : rowOwner[i] # Nobody => status'[i] = status[i]
  BY <1>1 DEF LockTypes, Free
<1> QED
  BY <1>1, <1>2, StatusFrame DEF UnchangedButStatus, PinsStay, sysVars, reqVars

LEMMA ReaperLock ==
  ASSUME LockTypes, LockInv, Reap \/ ReapAbort
  PROVE  LockInv'
<1>0. /\ pc' = pc /\ target' = target /\ readRepo' = readRepo
      /\ policyRepo' = policyRepo /\ advOwner' = advOwner
  BY DEF Reap, ReapAbort, ReapRunning, ReapPending, ReapBegin, ReapRow, ReapCommit,
         sysVars, reqVars, lockVars
<1>1. \A j \in Job, r \in Request :
        rowOwner[j] = r => rowOwner'[j] = r /\ status'[j] = status[j]
  <2>1. CASE ReapRunning \/ ReapPending
    BY <2>1 DEF ReapRunning, ReapPending, ReapBegin, lockVars
  <2>2. ASSUME NEW i \in Job, ReapRow(i)
        PROVE  \A j \in Job, r \in Request :
                 rowOwner[j] = r => rowOwner'[j] = r /\ status'[j] = status[j]
    BY <2>2 DEF LockTypes, ReapRow, Free
  <2>3. CASE ReapCommit
    BY <2>3 DEF ReapCommit, ReleaseReaped
  <2>4. CASE ReapAbort
    BY <2>4 DEF ReapAbort, ReleaseReaped
  <2> QED
    BY <2>1, <2>2, <2>3, <2>4 DEF Reap
<1>2. ASSUME NEW r \in Request PROVE (AdvisoryOf(r) /\ HoldingOf(r) /\ RepoOf(r))'
  <2>1. AdvisoryOf(r)' /\ RepoOf(r)'
    BY <1>0 DEF LockInv, AdvisoryOf, RepoOf
  <2>2. HoldingOf(r)'
    BY <1>0, <1>1 DEF LockInv, HoldingOf, Holding, Locking
  <2> QED
    BY <2>1, <2>2
<1>3. ASSUME NEW j \in Job, NEW r \in Request, rowOwner'[j] = r
      PROVE  target'[r] = j /\ pc'[r] \in Holding
  <2>1. rowOwner[j] = r
    <3>1. CASE ReapRunning \/ ReapPending
      BY <1>3, <3>1 DEF ReapRunning, ReapPending, ReapBegin, lockVars
    <3>2. ASSUME NEW i \in Job, ReapRow(i) PROVE rowOwner[j] = r
      BY <1>3, <3>2 DEF LockTypes, ReapRow
    <3>3. CASE ReapCommit \/ ReapAbort
      BY <1>3, <3>3 DEF ReapCommit, ReapAbort, ReleaseReaped
    <3> QED
      BY <3>1, <3>2, <3>3 DEF Reap
  <2> QED
    BY <1>0, <2>1 DEF LockInv, RowOf
<1>4. ASSUME NEW j \in Job, rowOwner'[j] = Reaper
      PROVE  reapPc' \in {"running", "pending"} /\ status'[j] = ReapStatus'
  <2>1. CASE ReapRunning \/ ReapPending
    <3>1. rowOwner[j] = Reaper /\ reapPc \in {"idle", "between"}
      BY <1>4, <2>1 DEF ReapRunning, ReapPending, ReapBegin, lockVars
    <3> QED
      BY <3>1 DEF LockInv, RowOf
  <2>2. ASSUME NEW i \in Job, ReapRow(i)
        PROVE  reapPc' \in {"running", "pending"} /\ status'[j] = ReapStatus'
    <3>1. reapPc \in {"running", "pending"} /\ reapPc' = reapPc /\ status' = status
      BY <2>2 DEF ReapRow
    <3>2. rowOwner[j] = Reaper \/ status[j] = ReapStatus
      BY <1>4, <2>2 DEF LockTypes, ReapRow
    <3> QED
      BY <3>1, <3>2 DEF LockInv, RowOf, ReapStatus
  <2>3. CASE ReapCommit \/ ReapAbort
    BY <1>4, <2>3 DEF ReapCommit, ReapAbort, ReleaseReaped
  <2> QED
    BY <2>1, <2>2, <2>3 DEF Reap
<1> QED
  BY <1>2, <1>3, <1>4 DEF LockInv, RowOf

LEMMA SystemLock ==
  ASSUME LockTypes, LockInv,
         \/ \E s \in System :
              \/ Heartbeat(s) \/ HeartbeatAges(s)
              \/ \E o \in OpState : SetOperationState(s, o)
         \/ \E p \in Policy, rp \in Repo \union {NoRepo} : UpdatePolicy(p, rp)
  PROVE  LockInv'
<1>1. PinsStay
  BY DEF LockTypes, PinsStay, Heartbeat, HeartbeatAges, SetOperationState, UpdatePolicy
<1>2. UNCHANGED <<status, lockVars, reapVars, pc, target, readRepo>>
  BY DEF Heartbeat, HeartbeatAges, SetOperationState, UpdatePolicy, reqVars
<1> QED
  BY <1>1, <1>2, StatusFrame

(***************************************************************************)
(* The counted sets: only an admission makes one of them grow.             *)
(***************************************************************************)

LEMMA CountedFinite ==
  /\ IsFiniteSet(Admitted) /\ IsFiniteSet(Running)
  /\ \A s \in System : IsFiniteSet(AdmittedOn(s)) /\ IsFiniteSet(RunningOn(s))
  /\ \A rp \in Repo : IsFiniteSet(PinnedIn(rp)) /\ IsFiniteSet(RunningIn(rp))
<1>1. /\ Admitted \subseteq Job /\ Running \subseteq Job
      /\ \A s \in System : AdmittedOn(s) \subseteq Job /\ RunningOn(s) \subseteq Job
      /\ \A rp \in Repo : PinnedIn(rp) \subseteq Job /\ RunningIn(rp) \subseteq Job
  BY DEF Admitted, Running, AdmittedOn, RunningOn, PinnedIn, RunningIn
<1> QED
  BY <1>1, FS_Subset

\* No job begins to run by the guard.
NobodyAdmitted == Admitted' \subseteq Admitted

LEMMA Smaller ==
  ASSUME NEW S, NEW T, IsFiniteSet(T), S \subseteq T
  PROVE  /\ Cardinality(S) \in Nat /\ Cardinality(T) \in Nat
         /\ Cardinality(S) <= Cardinality(T)
BY FS_Subset, FS_CardinalityType

\* A set that gains an element grows by one or not at all.
LEMMA OneMore ==
  ASSUME NEW S, NEW x, IsFiniteSet(S)
  PROVE  /\ IsFiniteSet(S \union {x})
         /\ Cardinality(S \union {x}) \in {Cardinality(S), Cardinality(S) + 1}
BY FS_AddElement

LimitsType == limits \in [{"global", "repo", "agent"} -> Nat \ {0}]

\* Without an admission the counts fall, if they change at all.
LEMMA RoomStays ==
  ASSUME NobodyAdmitted, PinsStay, LimitsType, UNCHANGED limits
  PROVE  /\ GlobalRoom => GlobalRoom'
         /\ \A s \in System : AgentRoom(s) => AgentRoom(s)'
         /\ \A rp \in Repo : RepoRoom(rp) => RepoRoom(rp)'
         /\ WithinLimits => WithinLimits'
<1>1. Cardinality(Admitted') <= Cardinality(Admitted)
      /\ Cardinality(Admitted') \in Nat /\ Cardinality(Admitted) \in Nat
  BY CountedFinite, Smaller DEF NobodyAdmitted
<1>2. ASSUME NEW s \in System
      PROVE  Cardinality(AdmittedOn(s)') <= Cardinality(AdmittedOn(s))
             /\ Cardinality(AdmittedOn(s)') \in Nat /\ Cardinality(AdmittedOn(s)) \in Nat
  <2>1. AdmittedOn(s)' \subseteq AdmittedOn(s)
    BY DEF NobodyAdmitted, AdmittedOn
  <2> QED
    BY <2>1, CountedFinite, Smaller
<1>3. ASSUME NEW rp \in Repo
      PROVE  Cardinality(PinnedIn(rp)') <= Cardinality(PinnedIn(rp))
             /\ Cardinality(PinnedIn(rp)') \in Nat /\ Cardinality(PinnedIn(rp)) \in Nat
  <2>1. PinnedIn(rp)' \subseteq PinnedIn(rp)
    BY DEF NobodyAdmitted, PinsStay, PinnedIn, Admitted, Running
  <2> QED
    BY <2>1, CountedFinite, Smaller
<1>4. limits.global \in Nat /\ limits.agent \in Nat /\ limits.repo \in Nat
  BY DEF LimitsType
<1> QED
  BY <1>1, <1>2, <1>3, <1>4 DEF GlobalRoom, AgentRoom, RepoRoom, WithinLimits

\* A step that admits nobody and takes no request past a gate.
LEMMA CountFrame ==
  ASSUME LockTypes, LockInv, RoomInv, WithinLimits, LimitsType,
         NobodyAdmitted, PinsStay, UNCHANGED limits,
         \A r \in Request :
           \/ pc'[r] = pc[r] /\ target'[r] = target[r] /\ readRepo'[r] = readRepo[r]
           \/ pc'[r] \notin {"repo", "agent", "admit"}
  PROVE  RoomInv' /\ WithinLimits'
<1>1. ASSUME NEW r \in Request,
             pc'[r] = pc[r] /\ target'[r] = target[r] /\ readRepo'[r] = readRepo[r]
      PROVE  RoomOf(r)'
  <2>1. pc[r] = "admit" => SystemOf[target[r]] \in System
    BY DEF LockInv, HoldingOf
  <2>2. readRepo[r] # NoRepo => readRepo[r] \in Repo
    BY DEF LockTypes
  <2> QED
    BY <1>1, <2>1, <2>2, RoomStays DEF RoomInv, RoomOf
<1>2. ASSUME NEW r \in Request, pc'[r] \notin {"repo", "agent", "admit"} PROVE RoomOf(r)'
  BY <1>2 DEF RoomOf
<1> QED
  BY <1>1, <1>2, RoomStays DEF RoomInv

\* A request that passes a gate has found the room it needs behind it.
LEMMA PassGate ==
  ASSUME LockTypes, LockInv, RoomInv, WithinLimits, LimitsType, NEW r \in Request,
         CountGlobal(r) \/ CountRepo(r) \/ CountAgent(r)
  PROVE  RoomInv' /\ WithinLimits'
<1>1. NobodyAdmitted /\ PinsStay /\ UNCHANGED <<limits, status, policyRepo>>
  BY DEF CountGlobal, CountRepo, CountAgent, Gate, NobodyAdmitted, Admitted, Running,
         PinsStay, sysVars
<1>2. CASE EndTx(r)
  <2>1. \A i \in Request :
          \/ pc'[i] = pc[i] /\ target'[i] = target[i] /\ readRepo'[i] = readRepo[i]
          \/ pc'[i] = "idle"
    BY <1>2 DEF LockTypes, EndTx
  <2> QED
    BY <1>1, <2>1, CountFrame
<1>3. ASSUME NEW next, Advance(r, next), RoomOf(r)' PROVE RoomInv' /\ WithinLimits'
  <2>1. \A i \in Request \ {r} :
          pc'[i] = pc[i] /\ target'[i] = target[i] /\ readRepo'[i] = readRepo[i]
    BY <1>3 DEF LockTypes, Advance
  <2>2. ASSUME NEW i \in Request \ {r} PROVE RoomOf(i)'
    <3>1. pc[i] = "admit" => SystemOf[target[i]] \in System
      BY DEF LockInv, HoldingOf
    <3>2. readRepo[i] # NoRepo => readRepo[i] \in Repo
      BY DEF LockTypes
    <3> QED
      BY <1>1, <2>1, <3>1, <3>2, RoomStays DEF RoomInv, RoomOf
  <2> QED
    BY <1>1, <1>3, <2>2, RoomStays DEF RoomInv
<1>4. /\ target[r] \in Job \/ pc[r] = "idle"
      /\ readRepo[r] = NoRepo \/ readRepo[r] \in Repo
  BY DEF LockTypes, LockInv, HoldingOf
<1>5. CASE CountGlobal(r) /\ Cardinality(Running) < limits.global /\ Advance(r, "repo")
  <2>1. GlobalRoom
    <3>1. Admitted \subseteq Running
      BY DEF Admitted
    <3> QED
      BY <1>5, <3>1, CountedFinite, Smaller DEF GlobalRoom, LimitsType
  <2>2. pc'[r] = "repo"
    BY <1>5 DEF LockTypes, Advance
  <2>3. RoomOf(r)'
    BY <1>1, <2>1, <2>2, RoomStays DEF RoomOf
  <2> QED
    BY <1>3, <1>5, <2>3
<1>6. CASE /\ CountRepo(r) /\ Advance(r, "agent")
           /\ readRepo[r] # NoRepo => Cardinality(RunningIn(readRepo[r])) < limits.repo
  <2>1. pc[r] = "repo" /\ GlobalRoom
    BY <1>6 DEF CountRepo, Gate, RoomInv, RoomOf
  <2>2. readRepo[r] # NoRepo => RepoRoom(readRepo[r])
    <3>1. PinnedIn(readRepo[r]) \subseteq RunningIn(readRepo[r])
      BY DEF PinnedIn, RunningIn, Admitted
    <3> QED
      BY <1>4, <1>6, <3>1, CountedFinite, Smaller DEF RepoRoom, LimitsType
  <2>3. pc'[r] = "agent" /\ readRepo' = readRepo
    BY <1>6 DEF LockTypes, Advance
  <2>4. RoomOf(r)'
    BY <1>1, <1>4, <2>1, <2>2, <2>3, RoomStays DEF RoomOf
  <2> QED
    BY <1>3, <1>6, <2>4
<1>7. CASE /\ CountAgent(r) /\ Advance(r, "admit")
           /\ Cardinality(RunningOn(SystemOf[target[r]])) < limits.agent
  <2>1. /\ pc[r] = "agent" /\ GlobalRoom
        /\ readRepo[r] # NoRepo => RepoRoom(readRepo[r])
    BY <1>7 DEF CountAgent, Gate, RoomInv, RoomOf
  <2>2. SystemOf[target[r]] \in System
    BY <1>4, <2>1
  <2>3. AgentRoom(SystemOf[target[r]])
    <3>1. AdmittedOn(SystemOf[target[r]]) \subseteq RunningOn(SystemOf[target[r]])
      BY DEF AdmittedOn, RunningOn, Admitted
    <3> QED
      BY <1>7, <2>2, <3>1, CountedFinite, Smaller DEF AgentRoom, LimitsType
  <2>4. pc'[r] = "admit" /\ readRepo' = readRepo /\ target' = target
    BY <1>7 DEF LockTypes, Advance
  <2>5. RoomOf(r)'
    BY <1>1, <1>4, <2>1, <2>2, <2>3, <2>4, RoomStays DEF RoomOf
  <2> QED
    BY <1>3, <1>7, <2>5
<1> QED
  BY <1>2, <1>5, <1>6, <1>7 DEF CountGlobal, CountRepo, CountAgent, Gate

\* An admission takes the room its request has kept; nobody else has counted.
LEMMA AdmitCount ==
  ASSUME LockTypes, LockInv, RoomInv, WithinLimits, LimitsType, NEW r \in Request, Admit(r)
  PROVE  RoomInv' /\ WithinLimits'
<1> DEFINE t == target[r]
<1>1. /\ pc[r] = "admit" /\ t \in Job /\ advOwner = r
      /\ GlobalRoom /\ AgentRoom(SystemOf[t])
      /\ readRepo[r] # NoRepo => RepoRoom(readRepo[r])
      /\ PolicyOf[t] \notin MovablePolicy => readRepo[r] = policyRepo[PolicyOf[t]]
  BY DEF Admit, LockInv, AdvisoryOf, HoldingOf, RepoOf, RoomInv, RoomOf, Locking
<1>2. /\ limits' = limits /\ policyRepo' = policyRepo
      /\ \A j \in Job : j # t => status'[j] = status[j]
  BY <1>1 DEF Admit, LockTypes, sysVars
<1>3. RoomInv'
  <2>1. ASSUME NEW i \in Request PROVE pc'[i] \notin Locking
    BY <1>1 DEF Admit, EndTx, LockTypes, LockInv, AdvisoryOf, Locking
  <2> QED
    BY <2>1 DEF RoomInv, RoomOf, Locking
<1>4. ASSUME NEW S, NEW T, IsFiniteSet(S), T \subseteq S \union {t}, NEW n \in Nat,
             Cardinality(S) < n
      PROVE  Cardinality(T) <= n
  <2>1. Cardinality(S) \in Nat
    BY <1>4, FS_CardinalityType
  <2>2. IsFiniteSet(S \union {t}) /\ Cardinality(S \union {t}) <= Cardinality(S) + 1
    <3>1. IsFiniteSet(S \union {t})
          /\ Cardinality(S \union {t}) \in {Cardinality(S), Cardinality(S) + 1}
      BY <1>4, OneMore
    <3> QED
      BY <2>1, <3>1
  <2>3. Cardinality(T) \in Nat /\ Cardinality(T) <= Cardinality(S \union {t})
    BY <1>4, <2>2, Smaller
  <2>4. Cardinality(S \union {t}) \in Nat
    BY <2>2, FS_CardinalityType
  <2> QED
    BY <1>4, <2>1, <2>2, <2>3, <2>4
<1>5. ASSUME NEW S, NEW T, IsFiniteSet(S), T \subseteq S, NEW n \in Nat, Cardinality(S) <= n
      PROVE  Cardinality(T) <= n
  BY <1>5, Smaller
<1>6. limits.global \in Nat /\ limits.agent \in Nat /\ limits.repo \in Nat
  BY DEF LimitsType
<1>7. Admitted' \subseteq Admitted \union {t}
  BY <1>2 DEF Admitted, Running
<1>8. Cardinality(Admitted') <= limits.global
  BY <1>1, <1>4, <1>6, <1>7, CountedFinite DEF GlobalRoom
<1>9. ASSUME NEW s \in System PROVE Cardinality(AdmittedOn(s)') <= limits.agent
  <2>1. CASE s = SystemOf[t]
    <3>1. AdmittedOn(s)' \subseteq AdmittedOn(s) \union {t}
      BY <1>7 DEF AdmittedOn
    <3> QED
      BY <1>1, <1>4, <1>6, <2>1, <3>1, CountedFinite DEF AgentRoom
  <2>2. CASE s # SystemOf[t]
    <3>1. AdmittedOn(s)' \subseteq AdmittedOn(s)
      BY <1>7, <2>2 DEF AdmittedOn
    <3> QED
      BY <1>5, <1>6, <3>1, CountedFinite DEF WithinLimits
  <2> QED
    BY <2>1, <2>2
<1>10. ASSUME NEW rp \in Repo PROVE Cardinality(PinnedIn(rp)') <= limits.repo
  <2>1. CASE PolicyOf[t] \notin MovablePolicy /\ policyRepo[PolicyOf[t]] = rp
    <3>1. PinnedIn(rp)' \subseteq PinnedIn(rp) \union {t}
      BY <1>2, <1>7 DEF PinnedIn
    <3>2. RepoRoom(rp)
      BY <1>1, <2>1
    <3> QED
      BY <1>4, <1>6, <3>1, <3>2, CountedFinite DEF RepoRoom
  <2>2. CASE ~(PolicyOf[t] \notin MovablePolicy /\ policyRepo[PolicyOf[t]] = rp)
    <3>1. PinnedIn(rp)' \subseteq PinnedIn(rp)
      BY <1>2, <1>7, <2>2 DEF PinnedIn
    <3> QED
      BY <1>5, <1>6, <3>1, CountedFinite DEF WithinLimits
  <2> QED
    BY <2>1, <2>2
<1> QED
  BY <1>2, <1>3, <1>8, <1>9, <1>10 DEF WithinLimits

LEMMA RequestCount ==
  ASSUME LockTypes, LockInv, RoomInv, WithinLimits, LimitsType, NEW r \in Request,
         Proceed(r) \/ Rollback(r)
  PROVE  RoomInv' /\ WithinLimits'
<1>1. CASE Admit(r)
  BY <1>1, AdmitCount
<1>2. CASE CountGlobal(r) \/ CountRepo(r) \/ CountAgent(r)
  BY <1>2, PassGate
<1>3. CASE LockJob(r) \/ ReadSystem(r) \/ TakeAdvisory(r) \/ Rollback(r)
  <2>1. UNCHANGED <<limits, status, policyRepo>>
    BY <1>3 DEF LockJob, ReadSystem, TakeAdvisory, Rollback, sysVars
  <2>2. NobodyAdmitted /\ PinsStay
    BY <2>1 DEF NobodyAdmitted, PinsStay, Admitted, Running
  <2>3. EndTx(r) \/ \E next \in {"system", "advisory", "global"} : Advance(r, next)
    BY <1>3 DEF LockJob, ReadSystem, TakeAdvisory, Rollback
  <2>4. ASSUME NEW i \in Request
        PROVE  \/ pc'[i] = pc[i] /\ target'[i] = target[i] /\ readRepo'[i] = readRepo[i]
               \/ pc'[i] \notin {"repo", "agent", "admit"}
    BY <2>3 DEF LockTypes, EndTx, Advance
  <2> QED
    BY <2>1, <2>2, <2>4, CountFrame
<1> QED
  BY <1>1, <1>2, <1>3 DEF Proceed

LEMMA JobCount ==
  ASSUME LockTypes, LockInv, RoomInv, WithinLimits, LimitsType, NEW j \in Job, JobStep(j)
  PROVE  RoomInv' /\ WithinLimits'
<1>1. UnchangedButStatus /\ \E st : status' = [status EXCEPT ![j] = st]
                                    /\ (st = "running" => j \in EditableJob)
  <2>1. CASE \/ CreatePending(j) \/ CompleteJob(j) \/ FailJob(j) \/ CancelJob(j)
             \/ DeleteJob(j)
    BY <2>1 DEF CreatePending, CompleteJob, FailJob, CancelJob, DeleteJob, Transition
  <2>2. ASSUME NEW st \in JobStatus, CreateJob(j, st) \/ UpdateJob(j, st)
        PROVE  /\ UnchangedButStatus /\ j \in EditableJob
               /\ status' = [status EXCEPT ![j] = st]
    BY <2>2 DEF CreateJob, UpdateJob
  <2>3. ASSUME NEW st, EndRetentionJob(j, st)
        PROVE  /\ UnchangedButStatus /\ st # "running"
               /\ status' = [status EXCEPT ![j] = st]
    BY <2>3 DEF EndRetentionJob
  <2> QED
    BY <2>1, <2>2, <2>3 DEF JobStep
<1>2. NobodyAdmitted
  BY <1>1 DEF LockTypes, NobodyAdmitted, Admitted, Running
<1>3. PinsStay /\ UNCHANGED <<limits, pc, target, readRepo>>
  BY <1>1 DEF UnchangedButStatus, PinsStay, sysVars, reqVars
<1> QED
  BY <1>2, <1>3, CountFrame

LEMMA OtherCount ==
  ASSUME LockTypes, LockInv, RoomInv, WithinLimits, LimitsType,
         \/ Reap \/ ReapAbort
         \/ \E s \in System :
              \/ Heartbeat(s) \/ HeartbeatAges(s)
              \/ \E o \in OpState : SetOperationState(s, o)
         \/ \E p \in Policy, rp \in Repo \union {NoRepo} : UpdatePolicy(p, rp)
  PROVE  RoomInv' /\ WithinLimits'
<1>1. PinsStay
  BY DEF LockTypes, PinsStay, Heartbeat, HeartbeatAges, SetOperationState, UpdatePolicy, Reap,
         ReapAbort, ReapRunning, ReapPending, ReapBegin, ReapRow, ReapCommit, sysVars
<1>2. UNCHANGED <<limits, pc, target, readRepo>>
  BY DEF Heartbeat, HeartbeatAges, SetOperationState, UpdatePolicy, Reap, ReapAbort,
         ReapRunning, ReapPending, ReapBegin, ReapRow, ReapCommit, reqVars
<1>3. NobodyAdmitted
  BY DEF NobodyAdmitted, Admitted, Running, Heartbeat, HeartbeatAges, SetOperationState,
         UpdatePolicy, Reap, ReapAbort, ReapRunning, ReapPending, ReapBegin, ReapRow,
         ReapCommit
<1> QED
  BY <1>1, <1>2, <1>3, CountFrame

LEMMA BeginCount ==
  ASSUME LockTypes, LockInv, RoomInv, WithinLimits, LimitsType,
         NEW r \in Request, NEW j \in Job, BeginStart(r, j)
  PROVE  RoomInv' /\ WithinLimits'
<1>1. NobodyAdmitted /\ PinsStay /\ UNCHANGED limits
  BY DEF BeginStart, NobodyAdmitted, PinsStay, Admitted, Running, sysVars
<1>2. ASSUME NEW i \in Request
      PROVE  \/ pc'[i] = pc[i] /\ target'[i] = target[i] /\ readRepo'[i] = readRepo[i]
             \/ pc'[i] \notin {"repo", "agent", "admit"}
  BY DEF LockTypes, BeginStart
<1> QED
  BY <1>1, <1>2, CountFrame

LEMMA NextIInv == IInv /\ [Next]_vars => IInv'
<1> SUFFICES ASSUME IInv, [Next]_vars PROVE IInv'
  OBVIOUS
<1>1. /\ TypeOK' /\ LockTypes /\ LimitsType
      /\ LockInv /\ RoomInv /\ WithinLimits
  BY NextTypeOK, TypeOKLockTypes DEF IInv, TypeOK, LimitsType
<1>2. CASE UNCHANGED vars
  <2>1. LockInv'
    <3>1. PinsStay /\ UNCHANGED <<status, lockVars, reapVars, pc, target, readRepo>>
      BY <1>2 DEF PinsStay, vars, sysVars, reqVars
    <3> QED
      BY <1>1, <3>1, StatusFrame
  <2>2. RoomInv' /\ WithinLimits'
    <3>1. /\ NobodyAdmitted /\ PinsStay
          /\ UNCHANGED <<limits, pc, target, readRepo>>
      BY <1>2 DEF NobodyAdmitted, Admitted, Running, PinsStay, vars, sysVars, reqVars
    <3> QED
      BY <1>1, <3>1, CountFrame
  <2> QED
    BY <1>1, <2>1, <2>2 DEF IInv
<1>3. ASSUME NEW r \in Request, Proceed(r) \/ Rollback(r) PROVE IInv'
  BY <1>1, <1>3, RequestLock, RequestCount DEF IInv
<1>4. ASSUME NEW r \in Request, NEW j \in Job, BeginStart(r, j) PROVE IInv'
  BY <1>1, <1>4, BeginLock, BeginCount DEF IInv
<1>5. ASSUME NEW j \in Job, JobStep(j) PROVE IInv'
  BY <1>1, <1>5, JobLock, JobCount DEF IInv
<1>6. CASE Reap \/ ReapAbort
  BY <1>1, <1>6, ReaperLock, OtherCount DEF IInv
<1>7. CASE \/ \E s \in System :
                \/ Heartbeat(s) \/ HeartbeatAges(s)
                \/ \E o \in OpState : SetOperationState(s, o)
           \/ \E p \in Policy, rp \in Repo \union {NoRepo} : UpdatePolicy(p, rp)
  BY <1>1, <1>7, SystemLock, OtherCount DEF IInv
<1> QED
  BY <1>2, <1>3, <1>4, <1>5, <1>6, <1>7 DEF Next, JobStep

THEOREM Inductive == Spec => []IInv
BY InitIInv, NextIInv, PTL DEF Spec

\* However many start requests race, and whatever else happens to jobs, systems and
\* policies: AdmitStart never has more jobs running than the global limit.
THEOREM GlobalLimitHolds == Spec => []GlobalWithinLimit
<1>1. IInv => GlobalWithinLimit
  BY DEF IInv, WithinLimits, GlobalWithinLimit
<1> QED
  BY <1>1, Inductive, PTL

\* Nor more on one agent than the agent limit.
THEOREM AgentLimitHolds == Spec => []AgentWithinLimit
<1>1. IInv => AgentWithinLimit
  BY DEF IInv, WithinLimits, AdmittedOn, AgentWithinLimit
<1> QED
  BY <1>1, Inductive, PTL

\* Nor more on one repository than the repository limit, counting the jobs whose
\* policy no operator moves to another repository.
THEOREM RepoLimitHolds == Spec => []RepoWithinLimit
<1>1. IInv => RepoWithinLimit
  BY DEF IInv, WithinLimits, PinnedIn, RepoWithinLimit
<1> QED
  BY <1>1, Inductive, PTL
=============================================================================
