------------------------ MODULE DispatchGuardProofs ------------------------
(***************************************************************************)
(* Proofs about DispatchGuard, for any number of jobs, systems, policies,  *)
(* repositories, requests and any configured limits.                       *)
(***************************************************************************)
EXTENDS DispatchGuard, FiniteSetTheorems, TLAPS

USE DomainAssumption, DistinctAssumption

(***************************************************************************)
(* Type correctness.                                                       *)
(***************************************************************************)

LEMMA NormalizedType ==
  ASSUME NEW l \in [global : Int, repo : Int, agent : Int]
  PROVE  Normalized(l) \in [{"global", "repo", "agent"} -> Nat \ {0}]
BY DEF Normalized

LEMMA InitTypeOK == Init => TypeOK
<1> SUFFICES ASSUME Init PROVE TypeOK
  OBVIOUS
<1>1. limits \in [{"global", "repo", "agent"} -> Nat \ {0}]
  BY NormalizedType DEF Init
<1> QED
  BY <1>1 DEF Init, TypeOK, OpState, ReqPc

LEMMA EndTxType ==
  ASSUME TypeOK, NEW r \in Request, EndTx(r), UNCHANGED <<limits, sysVars, reapVars>>,
         status' \in [Job -> {"none", "deleted"} \union JobStatus]
  PROVE  TypeOK'
BY DEF TypeOK, EndTx, sysVars, reapVars, OpState, ReqPc

LEMMA AdvanceType ==
  ASSUME TypeOK, NEW r \in Request, NEW next \in ReqPc, Advance(r, next),
         UNCHANGED <<limits, status, sysVars, reapVars>>,
         rowOwner' \in [Job -> Request \union {Reaper, Nobody}],
         advOwner' \in Request \union {Nobody}
  PROVE  TypeOK'
BY DEF TypeOK, Advance, sysVars, reapVars

LEMMA GateType ==
  ASSUME TypeOK, NEW r \in Request, NEW at, NEW below, NEW next \in ReqPc,
         Gate(r, at, below, next)
  PROVE  TypeOK'
<1>1. CASE EndTx(r)
  BY <1>1, EndTxType DEF Gate, TypeOK
<1>2. CASE Advance(r, next) /\ UNCHANGED lockVars
  BY <1>2, AdvanceType DEF Gate, TypeOK, lockVars
<1> QED
  BY <1>1, <1>2 DEF Gate

LEMMA RequestTypeOK ==
  ASSUME TypeOK, NEW r \in Request, Proceed(r) \/ Rollback(r)
  PROVE  TypeOK'
<1>1. CASE LockJob(r)
  <2>1. CASE EndTx(r)
    BY <1>1, <2>1, EndTxType DEF LockJob, TypeOK
  <2>2. CASE Advance(r, "system") /\ UNCHANGED advOwner
             /\ rowOwner' = [rowOwner EXCEPT ![target[r]] = r]
    BY <1>1, <2>2, AdvanceType DEF LockJob, TypeOK, ReqPc, Holding
  <2> QED
    BY <1>1, <2>1, <2>2 DEF LockJob
<1>2. CASE ReadSystem(r)
  <2>1. CASE EndTx(r)
    BY <1>2, <2>1, EndTxType DEF ReadSystem, TypeOK
  <2>2. CASE Advance(r, "advisory") /\ UNCHANGED lockVars
    BY <1>2, <2>2, AdvanceType DEF ReadSystem, TypeOK, ReqPc, Holding, lockVars
  <2> QED
    BY <1>2, <2>1, <2>2 DEF ReadSystem
<1>3. CASE TakeAdvisory(r)
  BY <1>3, AdvanceType DEF TakeAdvisory, TypeOK, ReqPc, Holding, Locking
<1>4. CASE CountGlobal(r)
  BY <1>4, GateType DEF CountGlobal, ReqPc, Holding, Locking
<1>5. CASE CountRepo(r)
  BY <1>5, GateType DEF CountRepo, ReqPc, Holding, Locking
<1>6. CASE CountAgent(r)
  BY <1>6, GateType DEF CountAgent, ReqPc, Holding, Locking
<1>7. CASE Admit(r)
  BY <1>7, EndTxType DEF Admit, TypeOK, JobStatus
<1>8. CASE Rollback(r)
  BY <1>8, EndTxType DEF Rollback, TypeOK
<1> QED
  BY <1>1, <1>2, <1>3, <1>4, <1>5, <1>6, <1>7, <1>8 DEF Proceed

LEMMA TransitionType ==
  ASSUME TypeOK, NEW j \in Job, NEW from, NEW to \in {"deleted"} \union JobStatus,
         Transition(j, from, to)
  PROVE  TypeOK'
BY DEF TypeOK, Transition, UnchangedButStatus, sysVars, reqVars, lockVars, reapVars

LEMMA JobTypeOK ==
  ASSUME TypeOK, NEW j \in Job,
         \/ CreatePending(j) \/ CompleteJob(j) \/ FailJob(j) \/ CancelJob(j)
         \/ DeleteJob(j)
         \/ \E st \in JobStatus : CreateJob(j, st) \/ UpdateJob(j, st) \/ EndRetentionJob(j, st)
  PROVE  TypeOK'
<1>1. CASE CompleteJob(j) \/ FailJob(j) \/ CancelJob(j) \/ DeleteJob(j)
  BY <1>1, TransitionType DEF CompleteJob, FailJob, CancelJob, DeleteJob, JobStatus, Terminal
<1>2. CASE \/ CreatePending(j)
           \/ \E st \in JobStatus :
                CreateJob(j, st) \/ UpdateJob(j, st) \/ EndRetentionJob(j, st)
  BY <1>2 DEF TypeOK, CreatePending, CreateJob, UpdateJob, EndRetentionJob, JobStatus,
              UnchangedButStatus, sysVars, reqVars, lockVars, reapVars
<1> QED
  BY <1>1, <1>2

LEMMA ReaperTypeOK ==
  ASSUME TypeOK, Reap \/ ReapAbort
  PROVE  TypeOK'
<1>1. CASE ReapRunning \/ ReapPending
  BY <1>1 DEF TypeOK, ReapRunning, ReapPending, ReapBegin, sysVars, reqVars, lockVars
<1>2. CASE ReapCommit
  BY <1>2 DEF TypeOK, ReapCommit, ReleaseReaped, sysVars, reqVars, JobStatus, Terminal
<1>3. CASE ReapAbort
  BY <1>3 DEF TypeOK, ReapAbort, ReleaseReaped, sysVars, reqVars
<1>4. ASSUME NEW j \in Job, ReapRow(j) PROVE TypeOK'
  BY <1>4 DEF TypeOK, ReapRow, sysVars, reqVars
<1> QED
  BY <1>1, <1>2, <1>3, <1>4 DEF Reap

LEMMA NextTypeOK == TypeOK /\ [Next]_vars => TypeOK'
<1> SUFFICES ASSUME TypeOK, [Next]_vars PROVE TypeOK'
  OBVIOUS
<1>1. CASE UNCHANGED vars
  BY <1>1 DEF TypeOK, vars, sysVars, reqVars, lockVars, reapVars
<1>2. ASSUME NEW r \in Request, Proceed(r) \/ Rollback(r) PROVE TypeOK'
  BY <1>2, RequestTypeOK
<1>3. ASSUME NEW r \in Request, NEW j \in Job, BeginStart(r, j) PROVE TypeOK'
  BY <1>3 DEF TypeOK, BeginStart, sysVars, lockVars, reapVars, ReqPc
<1>4. ASSUME NEW j \in Job,
             \/ CreatePending(j) \/ CompleteJob(j) \/ FailJob(j) \/ CancelJob(j)
             \/ DeleteJob(j)
             \/ \E st \in JobStatus : CreateJob(j, st) \/ UpdateJob(j, st) \/ EndRetentionJob(j, st)
      PROVE  TypeOK'
  BY <1>4, JobTypeOK
<1>5. CASE Reap \/ ReapAbort
  BY <1>5, ReaperTypeOK
<1>6. ASSUME NEW s \in System,
             \/ Heartbeat(s) \/ HeartbeatAges(s)
             \/ \E o \in OpState : SetOperationState(s, o)
      PROVE  TypeOK'
  BY <1>6 DEF TypeOK, Heartbeat, HeartbeatAges, SetOperationState, UpdateBarred,
              reqVars, lockVars, reapVars
<1>7. ASSUME NEW p \in Policy, NEW rp \in Repo \union {NoRepo}, UpdatePolicy(p, rp)
      PROVE  TypeOK'
  BY <1>7 DEF TypeOK, UpdatePolicy, reqVars, lockVars, reapVars
<1> QED
  BY <1>1, <1>2, <1>3, <1>4, <1>5, <1>6, <1>7 DEF Next

\* Every reachable state is well typed; in particular whatever limits an operator
\* configures, the guard enforces positive ones (NewDispatchGuardWithLimits).
THEOREM TypeCorrect == Spec => []TypeOK
<1>1. Init => TypeOK
  BY InitTypeOK
<1>2. TypeOK /\ [Next]_vars => TypeOK'
  BY NextTypeOK
<1> QED
  BY <1>1, <1>2, PTL DEF Spec
=============================================================================
