------------------------- MODULE DispatchOrderProofs -------------------------
(***************************************************************************)
(* What follows from the inductive invariant of DispatchLimitProofs, for   *)
(* any number of jobs and requests: that ended jobs stay ended, that a     *)
(* closed system gives no place to a request, that nobody waits in a       *)
(* circle, and that the guard implements the pool of slots.                *)
(***************************************************************************)
EXTENDS DispatchLimitProofs

USE DomainAssumption, DistinctAssumption

(***************************************************************************)
(* Ended jobs.                                                             *)
(***************************************************************************)

\* How a step may change the status of a guarded job.
StatusStep(j) ==
  \/ status'[j] = status[j]
  \/ status[j] = "none" /\ status'[j] = "pending"
  \/ status[j] \in {"pending", "running"} /\ status'[j] \in {"running"} \union Terminal
  \/ status'[j] = "deleted"

LEMMA NextStatus ==
  ASSUME IInv, [Next]_vars, NEW j \in GuardedJob
  PROVE  StatusStep(j)
<1> USE DEF StatusStep
<1>0. LockTypes /\ LockInv /\ j \in Job
  BY TypeOKLockTypes DEF IInv, GuardedJob
<1>1. ASSUME NEW r \in Request, Admit(r) PROVE StatusStep(j)
  <2>1. target[r] \in Job
    BY <1>0, <1>1 DEF Admit, LockInv, HoldingOf
  <2> QED
    BY <1>0, <1>1, <2>1 DEF Admit, LockTypes
<1>2. ASSUME NEW i \in Job, JobStep(i) PROVE StatusStep(j)
  BY <1>0, <1>2 DEF JobStep, CreatePending, CompleteJob, FailJob, CancelJob, DeleteJob,
                    Transition, CreateJob, UpdateJob, EndRetentionJob, LockTypes, JobStatus,
                    Terminal, GuardedJob
<1>3. CASE ReapCommit
  <2>1. rowOwner[j] = Reaper => status[j] \in {"pending", "running"}
    BY <1>0 DEF LockInv, RowOf, ReapStatus
  <2> QED
    BY <1>0, <1>3, <2>1 DEF ReapCommit, StatusStep, Terminal
<1>4. \/ UNCHANGED status
      \/ \E r \in Request : Admit(r)
      \/ \E i \in Job : JobStep(i)
      \/ ReapCommit
  BY DEF Next, vars, Proceed, LockJob, ReadSystem, TakeAdvisory, CountGlobal, CountRepo,
         CountAgent, Gate, Rollback, BeginStart, JobStep, Reap, ReapRunning, ReapPending,
         ReapBegin, ReapRow, ReapAbort, Heartbeat, HeartbeatAges, SetOperationState,
         UpdatePolicy
<1> QED
  BY <1>1, <1>2, <1>3, <1>4

\* A guarded job that has ended keeps its outcome, whoever comes late: the reaper, a
\* report of the agent, or a start request that has waited for the row.
THEOREM EndedJobsStayEnded == Spec => EndedStaysEnded
<1> DEFINE Kept == \A j \in GuardedJob :
                     status[j] \in Terminal => status'[j] \in {status[j], "deleted"}
<1>1. IInv /\ [Next]_vars => [Kept]_vars
  <2> SUFFICES ASSUME IInv, [Next]_vars, NEW j \in GuardedJob, status[j] \in Terminal
               PROVE  status'[j] \in {status[j], "deleted"}
    OBVIOUS
  <2>1. StatusStep(j)
    BY NextStatus
  <2> QED
    BY <2>1 DEF StatusStep, Terminal
<1> QED
  BY <1>1, Inductive, PTL DEF EndedStaysEnded, Spec

(***************************************************************************)
(* Closed systems.                                                         *)
(***************************************************************************)

\* A barred request stands before ReadSystem, and its system is closed still.
BarredOf(r) == r \in barred => pc[r] \in {"select", "system"} /\ ~Open(SystemOf[target[r]])
BarredInv == \A r \in Request : BarredOf(r)

LEMMA EndTxBarred ==
  ASSUME LockTypes, BarredInv, NEW r \in Request, EndTx(r), UNCHANGED sysVars
  PROVE  BarredInv'
BY DEF LockTypes, BarredInv, BarredOf, EndTx, sysVars, Open, OpStatePermits, HealthPermits

LEMMA ProceedBarred ==
  ASSUME LockTypes, LockInv, BarredInv, NEW r \in Request, Proceed(r)
  PROVE  BarredInv'
<1> USE DEF Open, OpStatePermits, HealthPermits
<1>1. UNCHANGED sysVars
  BY DEF Proceed, LockJob, ReadSystem, TakeAdvisory, CountGlobal, CountRepo, CountAgent, Gate, Admit
<1>2. CASE EndTx(r)
  BY <1>1, <1>2, EndTxBarred
<1>3. ASSUME NEW next, Advance(r, next), r \in barred => next \in {"select", "system"}
      PROVE  BarredInv'
  BY <1>1, <1>3 DEF LockTypes, BarredInv, BarredOf, Advance, sysVars
<1>4. CASE LockJob(r)
  BY <1>2, <1>3, <1>4 DEF LockJob
<1>5. CASE ReadSystem(r)
  <2>1. Open(SystemOf[target[r]]) => r \notin barred
    BY DEF BarredInv, BarredOf
  <2> QED
    BY <1>2, <1>3, <1>5, <2>1 DEF ReadSystem
<1>6. CASE TakeAdvisory(r) \/ CountGlobal(r) \/ CountRepo(r) \/ CountAgent(r)
  <2>1. r \notin barred
    BY <1>6 DEF TakeAdvisory, CountGlobal, CountRepo, CountAgent, Gate, BarredInv, BarredOf
  <2> QED
    BY <1>2, <1>3, <1>6, <2>1 DEF TakeAdvisory, CountGlobal, CountRepo, CountAgent, Gate
<1> QED
  BY <1>2, <1>4, <1>5, <1>6 DEF Proceed, Admit

LEMMA NextBarred ==
  ASSUME IInv, BarredInv, [Next]_vars
  PROVE  BarredInv'
<1>0. LockTypes /\ LockInv
  BY TypeOKLockTypes DEF IInv
<1> USE DEF Open, OpStatePermits, HealthPermits
<1>1. ASSUME NEW r \in Request, Proceed(r) PROVE BarredInv'
  BY <1>0, <1>1, ProceedBarred
<1>2. ASSUME NEW r \in Request, Rollback(r) PROVE BarredInv'
  BY <1>0, <1>2, EndTxBarred DEF Rollback
<1>3. ASSUME NEW r \in Request, NEW j \in Job, BeginStart(r, j) PROVE BarredInv'
  <2>1. \A i \in Request : pc'[i] = IF i = r THEN "select" ELSE pc[i]
    BY <1>0, <1>3 DEF BeginStart, LockTypes
  <2>2. \A i \in Request : target'[i] = IF i = r THEN j ELSE target[i]
    BY <1>0, <1>3 DEF BeginStart, LockTypes
  <2>3. r \notin barred
    BY <1>3 DEF BeginStart, BarredInv, BarredOf
  <2> QED
    BY <1>3, <2>1, <2>2, <2>3 DEF BeginStart, BarredInv, BarredOf, sysVars
<1>4. CASE \/ UNCHANGED vars \/ Reap \/ ReapAbort
           \/ \E j \in Job : JobStep(j)
           \/ \E p \in Policy, rp \in Repo \union {NoRepo} : UpdatePolicy(p, rp)
  <2>1. UNCHANGED <<reqVars, opState, seen>>
    BY <1>4 DEF vars, sysVars, Reap, ReapAbort, ReapRunning, ReapPending, ReapBegin, ReapRow,
                ReapCommit, JobStep, CreatePending, CompleteJob, FailJob, CancelJob, DeleteJob,
                Transition, CreateJob, UpdateJob, EndRetentionJob, UnchangedButStatus, UpdatePolicy
  <2> QED
    BY <2>1 DEF BarredInv, BarredOf, reqVars
<1>5. ASSUME NEW s \in System,
             Heartbeat(s) \/ \E o \in OpState : SetOperationState(s, o)
      PROVE  BarredInv'
  <2>1. UpdateBarred /\ UNCHANGED <<pc, target>>
    BY <1>5 DEF Heartbeat, SetOperationState
  <2> QED
    BY <2>1 DEF UpdateBarred, BarredInv, BarredOf
<1>6. ASSUME NEW s \in System, HeartbeatAges(s) PROVE BarredInv'
  <2>1. /\ UNCHANGED <<pc, target, barred, opState>> /\ seen' \subseteq seen
    BY <1>6 DEF HeartbeatAges, reqVars
  <2> QED
    BY <2>1 DEF BarredInv, BarredOf
<1> QED
  BY <1>1, <1>2, <1>3, <1>4, <1>5, <1>6 DEF Next, JobStep

\* A request whose system was closed, or unheard of, from its beginning until now has
\* not passed the state gates.
THEOREM ClosedSystemsBarRequests == Spec => []ClosedSystemBarsRequest
<1>1. Init => BarredInv
  BY DEF Init, BarredInv, BarredOf
<1>2. IInv /\ BarredInv => ClosedSystemBarsRequest
  BY DEF IInv, TypeOK, BarredInv, BarredOf, ClosedSystemBarsRequest
<1>3. Spec => []BarredInv
  BY <1>1, NextBarred, Inductive, PTL DEF Spec
<1> QED
  BY <1>2, <1>3, Inductive, PTL

(***************************************************************************)
(* Waiting.                                                                *)
(***************************************************************************)

\* The reaper does not wait for a row it has.
ReapInv == \A j \in reapTodo : rowOwner[j] # Reaper

LEMMA NextReap ==
  ASSUME IInv, ReapInv, [Next]_vars
  PROVE  ReapInv'
<1>0. LockTypes /\ LockInv /\ reapTodo \subseteq Job
  BY TypeOKLockTypes DEF IInv, TypeOK
<1>1. CASE ReapRunning \/ ReapPending
  <2>1. \A j \in Job : rowOwner[j] # Reaper
    BY <1>0, <1>1 DEF ReapRunning, ReapPending, ReapBegin, LockInv, RowOf
  <2> QED
    BY <1>1, <2>1 DEF ReapRunning, ReapPending, ReapBegin, ReapInv, lockVars
<1>2. ASSUME NEW j \in Job, ReapRow(j) PROVE ReapInv'
  BY <1>0, <1>2 DEF ReapRow, ReapInv, LockTypes
<1>3. CASE ReapCommit \/ ReapAbort
  BY <1>0, <1>3 DEF ReapCommit, ReapAbort, ReleaseReaped, ReapInv
<1>4. ASSUME UNCHANGED reapTodo, \A j \in Job : rowOwner'[j] = Reaper => rowOwner[j] = Reaper
      PROVE  ReapInv'
  BY <1>0, <1>4 DEF ReapInv
<1>5. ASSUME NEW r \in Request, Proceed(r) \/ Rollback(r) PROVE ReapInv'
  <2>1. UNCHANGED reapTodo
    BY <1>5 DEF Proceed, LockJob, ReadSystem, TakeAdvisory, CountGlobal, CountRepo, CountAgent,
                Gate, Admit, Rollback, reapVars
  <2>2. \/ rowOwner' = rowOwner \/ EndTx(r)
        \/ rowOwner' = [rowOwner EXCEPT ![target[r]] = r]
    BY <1>5 DEF Proceed, LockJob, ReadSystem, TakeAdvisory, CountGlobal, CountRepo, CountAgent,
                Gate, Admit, Rollback, lockVars
  <2>3. \A j \in Job : rowOwner'[j] = Reaper => rowOwner[j] = Reaper
    BY <1>0, <2>2 DEF EndTx, LockTypes
  <2> QED
    BY <1>4, <2>1, <2>3
<1>6. CASE \/ UNCHANGED vars
           \/ \E r \in Request, j \in Job : BeginStart(r, j)
           \/ \E j \in Job : JobStep(j)
           \/ \E s \in System :
                \/ Heartbeat(s) \/ HeartbeatAges(s)
                \/ \E o \in OpState : SetOperationState(s, o)
           \/ \E p \in Policy, rp \in Repo \union {NoRepo} : UpdatePolicy(p, rp)
  <2>1. UNCHANGED <<reapTodo, rowOwner>>
    BY <1>6 DEF vars, lockVars, reapVars, BeginStart, JobStep, CreatePending, CompleteJob, FailJob,
                CancelJob, DeleteJob, Transition, CreateJob, UpdateJob, EndRetentionJob, UnchangedButStatus,
                Heartbeat, HeartbeatAges, SetOperationState, UpdatePolicy
  <2> QED
    BY <1>4, <2>1
<1> QED
  BY <1>1, <1>2, <1>3, <1>5, <1>6 DEF Next, Reap, JobStep

\* The order of the waiting: requests that only count wait for nobody, those that want
\* the advisory lock for one of these, the reaper for requests that have their row, and
\* requests that want their row for these or the reaper.
LEMMA WaitingOrder ==
  ASSUME LockTypes, LockInv, ReapInv, reapTodo \subseteq Job,
         NEW a \in Request \union {Reaper}, NEW b \in Request \union {Reaper}, WaitsFor(a, b)
  PROVE  \/ a \in Request /\ pc[a] = "advisory" /\ b \in Request /\ pc[b] \in Locking
         \/ a = Reaper /\ b \in Request /\ pc[b] \in Holding
         \/ a \in Request /\ pc[a] = "select" /\ (b = Reaper \/ (b \in Request /\ pc[b] \in Holding))
<1>1. CASE a \in Request /\ pc[a] = "select" /\ b = rowOwner[target[a]]
  <2>1. target[a] \in Job
    BY <1>1 DEF LockInv, HoldingOf
  <2> QED
    BY <1>1, <2>1 DEF LockInv, RowOf
<1>2. CASE a \in Request /\ pc[a] = "advisory" /\ b = advOwner
  <2>1. CASE b \in Request
    BY <1>2, <2>1 DEF LockInv, AdvisoryOf
  <2>2. CASE b = Reaper
    BY <1>2, <2>2 DEF LockTypes
  <2> QED
    BY <2>1, <2>2
<1>3. CASE a = Reaper /\ \E j \in reapTodo : b = rowOwner[j]
  <2>1. b # Reaper
    BY <1>3 DEF ReapInv
  <2> QED
    BY <1>3, <2>1 DEF LockInv, RowOf
<1> QED
  BY <1>1, <1>2, <1>3 DEF WaitsFor

\* No set of transactions waits in a circle, so PostgreSQL never has a deadlock to break.
THEOREM NobodyWaitsInACircle == Spec => []NoLockCycle
<1>1. Init => ReapInv
  BY DEF Init, ReapInv
<1>2. Spec => []ReapInv
  BY <1>1, NextReap, Inductive, PTL DEF Spec
<1>3. IInv /\ ReapInv => NoLockCycle
  <2> SUFFICES ASSUME IInv, ReapInv, NEW S \in (SUBSET (Request \union {Reaper})) \ {{}}
               PROVE  \E a \in S : \A b \in S : ~WaitsFor(a, b)
    BY DEF NoLockCycle
  <2>0. LockTypes /\ LockInv /\ reapTodo \subseteq Job
    BY TypeOKLockTypes DEF IInv, TypeOK
  <2>1. S \subseteq Request \union {Reaper} /\ S # {}
    OBVIOUS
  <2>2. ASSUME NEW a \in S, NEW b \in S, WaitsFor(a, b)
        PROVE  \/ a \in Request /\ pc[a] = "advisory" /\ b \in Request /\ pc[b] \in Locking
               \/ a = Reaper /\ b \in Request /\ pc[b] \in Holding
               \/ /\ a \in Request /\ pc[a] = "select"
                  /\ b = Reaper \/ (b \in Request /\ pc[b] \in Holding)
    <3>1. a \in Request \union {Reaper} /\ b \in Request \union {Reaper}
      BY <2>1
    <3> QED
      BY <2>0, <2>2, <3>1, WaitingOrder
  <2>3. CASE \E a \in S \ {Reaper} : pc[a] \notin {"select", "advisory"}
    BY <2>2, <2>3
  <2>4. CASE /\ \A a \in S \ {Reaper} : pc[a] \in {"select", "advisory"}
             /\ \E a \in S \ {Reaper} : pc[a] = "advisory"
    BY <2>2, <2>4 DEF Locking
  <2>5. CASE /\ \A a \in S \ {Reaper} : pc[a] = "select"
             /\ Reaper \in S
    BY <2>2, <2>5 DEF Holding, Locking
  <2>6. CASE /\ \A a \in S \ {Reaper} : pc[a] = "select"
             /\ Reaper \notin S
    BY <2>1, <2>2, <2>6 DEF Holding, Locking
  <2> QED
    BY <2>3, <2>4, <2>5, <2>6
<1> QED
  BY <1>2, <1>3, Inductive, PTL
=============================================================================
