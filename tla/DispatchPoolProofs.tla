------------------------- MODULE DispatchPoolProofs -------------------------
(***************************************************************************)
(* That the dispatch guard implements SlotPool, for any number of jobs,    *)
(* agents, repositories and requests: the seven statements of an admission *)
(* take the three slots in one step, the one of Admit.  Jobs that are      *)
(* written past the guard are outside the pool, and policies an operator   *)
(* moves outside its repositories; both take room from the guard and never *)
(* give it any.                                                            *)
(***************************************************************************)
EXTENDS DispatchOrderProofs

USE DomainAssumption, DistinctAssumption

PoolStatus == [j \in GuardedJob |-> status[j]]
PoolRepo   == [j \in GuardedJob |-> PinnedRepo(j)]

\* SlotPool's copy of Cardinality is that of FiniteSets.
LEMMA SameCardinality == \A S : Pool!Cardinality(S) = Cardinality(S)
BY DEF Pool!Cardinality, Cardinality

LEMMA InitPool == Init => Pool!Init
<1> SUFFICES ASSUME Init PROVE Pool!Init
  OBVIOUS
<1>1. TypeOK
  BY InitTypeOK
<1> QED
  BY <1>1 DEF Init, TypeOK, Pool!Init, GuardedJob

\* What the pool sees: the size of its pools, its jobs and their repositories.
LEMMA PoolStutter ==
  ASSUME limits' = limits, PoolStatus' = PoolStatus, PoolRepo' = PoolRepo
  PROVE  UNCHANGED Pool!vars
BY DEF PoolStatus, PoolRepo, Pool!vars

\* Operators move only the policies that are outside the pool's repositories.
LEMMA PoolRepoStays ==
  ASSUME PinsStay
  PROVE  PoolRepo' = PoolRepo
<1>1. ASSUME NEW j \in GuardedJob PROVE PinnedRepo(j)' = PinnedRepo(j)
  BY DEF PinsStay, PinnedRepo, GuardedJob
<1> QED
  BY <1>1 DEF PoolRepo

LEMMA PoolInUse ==
  /\ Pool!InUse \subseteq Admitted
  /\ \A s \in System : {i \in Pool!InUse : SystemOf[i] = s} \subseteq AdmittedOn(s)
  /\ \A rp \in Repo : {i \in Pool!InUse : PinnedRepo(i) = rp} \subseteq PinnedIn(rp)
<1>1. Pool!InUse \subseteq Admitted
  BY DEF Pool!InUse, GuardedJob, Admitted, Running
<1>2. \A s \in System : {i \in Pool!InUse : SystemOf[i] = s} \subseteq AdmittedOn(s)
  BY <1>1 DEF AdmittedOn
<1>3. \A rp \in Repo : {i \in Admitted : PinnedRepo(i) = rp} \subseteq PinnedIn(rp)
  BY DEF PinnedIn, PinnedRepo
<1> QED
  BY <1>1, <1>2, <1>3

\* One job of the pool changes its status.
LEMMA MovePool ==
  ASSUME IInv, NEW j \in GuardedJob, NEW to,
         status' = [status EXCEPT ![j] = to], UNCHANGED <<limits, policyRepo>>
  PROVE  /\ PoolStatus[j] = status[j] /\ PoolStatus' = [PoolStatus EXCEPT ![j] = to]
         /\ UNCHANGED <<limits, PoolRepo>>
<1>1. status \in [Job -> {"none", "deleted"} \union JobStatus]
  BY DEF IInv, TypeOK
<1>2. PoolStatus[j] = status[j] /\ PoolStatus' = [PoolStatus EXCEPT ![j] = to]
  BY <1>1 DEF PoolStatus, GuardedJob
<1>3. PoolRepo' = PoolRepo
  BY PoolRepoStays DEF PinsStay
<1> QED
  BY <1>2, <1>3

\* What the request has counted below is what the pool asks for.
LEMMA AdmitPool ==
  ASSUME IInv, NEW r \in Request, Admit(r)
  PROVE  Pool!Next \/ UNCHANGED Pool!vars
<1> DEFINE t == target[r]
<1>1. /\ t \in Job /\ status[t] = "pending"
      /\ GlobalRoom /\ AgentRoom(SystemOf[t])
      /\ readRepo[r] # NoRepo => RepoRoom(readRepo[r])
      /\ PolicyOf[t] \notin MovablePolicy => readRepo[r] = policyRepo[PolicyOf[t]]
  BY DEF Admit, IInv, LockInv, HoldingOf, RepoOf, RoomInv, RoomOf, Holding, Locking
<1>2. status' = [status EXCEPT ![t] = "running"] /\ UNCHANGED <<limits, policyRepo>>
  BY <1>1 DEF Admit, sysVars
<1>3. status \in [Job -> {"none", "deleted"} \union JobStatus]
      /\ \A p \in Policy : policyRepo[p] \in Repo \union {NoRepo}
  BY DEF IInv, TypeOK
<1>4. PoolRepo' = PoolRepo
  BY <1>2, PoolRepoStays DEF PinsStay
<1>5. CASE t \notin GuardedJob
  <2>1. PoolStatus' = PoolStatus
    BY <1>2, <1>3, <1>5 DEF PoolStatus, GuardedJob
  <2> QED
    BY <1>2, <1>4, <2>1, PoolStutter
<1>6. CASE t \in GuardedJob
  <2>0. t \in GuardedJob /\ PoolRepo[t] = PinnedRepo(t)
    BY <1>1, <1>6 DEF PoolRepo
  <2>a. limits.global \in Nat /\ limits.agent \in Nat /\ limits.repo \in Nat
    BY DEF IInv, TypeOK
  <2>1. Pool!Cardinality(Pool!InUse) < limits.global
    <3>1. Cardinality(Pool!InUse) <= Cardinality(Admitted)
          /\ Cardinality(Pool!InUse) \in Nat /\ Cardinality(Admitted) \in Nat
      BY PoolInUse, CountedFinite, Smaller
    <3> QED
      BY <1>1, <2>a, <3>1, SameCardinality DEF GlobalRoom
  <2>2. Pool!Cardinality({i \in Pool!InUse : SystemOf[i] = SystemOf[t]}) < limits.agent
    <3> DEFINE Here == {i \in Pool!InUse : SystemOf[i] = SystemOf[t]}
    <3>1. SystemOf[t] \in System
      BY <1>1
    <3>2. Here \subseteq AdmittedOn(SystemOf[t]) /\ IsFiniteSet(AdmittedOn(SystemOf[t]))
      BY <3>1, PoolInUse, CountedFinite
    <3>3. Cardinality(Here) <= Cardinality(AdmittedOn(SystemOf[t]))
          /\ Cardinality(Here) \in Nat /\ Cardinality(AdmittedOn(SystemOf[t])) \in Nat
      BY <3>2, Smaller
    <3> QED
      BY <1>1, <2>a, <3>3, SameCardinality DEF AgentRoom
  <2>3. PinnedRepo(t) # NoRepo =>
          Cardinality({i \in Pool!InUse : PinnedRepo(i) = PinnedRepo(t)}) < limits.repo
    <3> SUFFICES ASSUME PinnedRepo(t) # NoRepo
                 PROVE  Cardinality({i \in Pool!InUse : PinnedRepo(i) = PinnedRepo(t)}) < limits.repo
      OBVIOUS
    <3>1. PolicyOf[t] \notin MovablePolicy /\ PinnedRepo(t) = policyRepo[PolicyOf[t]]
      BY DEF PinnedRepo
    <3>2. PinnedRepo(t) = readRepo[r] /\ PinnedRepo(t) \in Repo
      BY <1>1, <1>3, <3>1
    <3> DEFINE Here == {i \in Pool!InUse : PinnedRepo(i) = PinnedRepo(t)}
    <3>3. Here \subseteq PinnedIn(readRepo[r]) /\ IsFiniteSet(PinnedIn(readRepo[r]))
      BY <3>2, PoolInUse, CountedFinite
    <3>4. Cardinality(Here) <= Cardinality(PinnedIn(readRepo[r]))
          /\ Cardinality(Here) \in Nat /\ Cardinality(PinnedIn(readRepo[r])) \in Nat
      BY <3>3, Smaller
    <3> QED
      BY <1>1, <2>a, <3>2, <3>4 DEF RepoRoom
  <2>4. {i \in Pool!InUse : PoolRepo[i] = PoolRepo[t]}
          = {i \in Pool!InUse : PinnedRepo(i) = PinnedRepo(t)}
    <3>1. \A i \in Pool!InUse : PoolRepo[i] = PinnedRepo(i)
      BY DEF Pool!InUse, PoolRepo
    <3> QED
      BY <2>0, <3>1
  <2>5. PoolRepo[t] # NoRepo =>
          Pool!Cardinality({i \in Pool!InUse : PoolRepo[i] = PoolRepo[t]}) < limits.repo
    BY <2>0, <2>3, <2>4, SameCardinality
  <2>6. Pool!SlotLeft(t)
    BY <2>1, <2>2, <2>5, Zenon DEF Pool!SlotLeft, PoolRepo
  <2>7. /\ PoolStatus[t] = "pending" /\ PoolStatus' = [PoolStatus EXCEPT ![t] = "running"]
        /\ UNCHANGED <<limits, PoolRepo>>
    BY <1>1, <1>2, <2>0, MovePool
  <2>8. Pool!Take(t)
    BY <2>6, <2>7 DEF Pool!Take, Pool!Move, PoolStatus, PoolRepo
  <2> QED
    BY <2>0, <2>8 DEF Pool!Next, Pool!Take
<1> QED
  BY <1>5, <1>6

\* Writes past the guard are outside the pool, and the other writers move one job.
LEMMA JobPool ==
  ASSUME IInv, NEW j \in Job, JobStep(j)
  PROVE  Pool!Next \/ UNCHANGED Pool!vars
<1>0. UNCHANGED <<limits, policyRepo>>
  BY DEF JobStep, CreatePending, CompleteJob, FailJob, CancelJob, DeleteJob, Transition, CreateJob,
         UpdateJob, EndRetentionJob, UnchangedButStatus, sysVars
<1>a. status \in [Job -> {"none", "deleted"} \union JobStatus]
  BY DEF IInv, TypeOK
<1>b. PoolRepo' = PoolRepo
  BY <1>0, PoolRepoStays DEF PinsStay
<1>1. CASE j \notin GuardedJob
  <2>1. \E to : status' = [status EXCEPT ![j] = to]
    BY DEF JobStep, CreatePending, CompleteJob, FailJob, CancelJob, DeleteJob, Transition, CreateJob,
           UpdateJob, EndRetentionJob
  <2>2. PoolStatus' = PoolStatus
    BY <1>1, <1>a, <2>1 DEF PoolStatus, GuardedJob
  <2> QED
    BY <1>0, <1>b, <2>2, PoolStutter
<1>2. CASE j \in GuardedJob
  <2>0. j \in GuardedJob
    BY <1>2
  <2>1. CASE CreatePending(j)
    <3>1. status[j] = "none" /\ status' = [status EXCEPT ![j] = "pending"]
      BY <2>1 DEF CreatePending
    <3>2. Pool!Create(j)
      BY <1>0, <2>0, <3>1, MovePool DEF Pool!Create, Pool!Move, PoolStatus, PoolRepo
    <3> QED
      BY <2>0, <3>2 DEF Pool!Next
  <2>2. CASE DeleteJob(j)
    <3>1. /\ status[j] \in {"pending", "running"} \union Pool!Outcome
          /\ status' = [status EXCEPT ![j] = "deleted"]
      BY <2>2 DEF DeleteJob, Transition, JobStatus, Terminal, Pool!Outcome
    <3>2. Pool!Delete(j)
      BY <1>0, <2>0, <3>1, MovePool DEF Pool!Delete, Pool!Move, PoolStatus, PoolRepo
    <3> QED
      BY <2>0, <3>2 DEF Pool!Next
  <2>3. ASSUME NEW to \in Terminal, Transition(j, {"running"}, to) PROVE Pool!Next
    <3>1. status[j] = "running" /\ status' = [status EXCEPT ![j] = to] /\ to \in Pool!Outcome
      BY <2>3 DEF Transition, Terminal, Pool!Outcome
    <3>2. Pool!Settle(j)
      BY <1>0, <2>0, <3>1, MovePool DEF Pool!Settle, Pool!Move, PoolStatus, PoolRepo
    <3> QED
      BY <2>0, <3>2 DEF Pool!Next
  <2>4. CASE FailJob(j)
    <3>1. status[j] \in {"pending", "running"} /\ status' = [status EXCEPT ![j] = "failed"]
      BY <2>4 DEF FailJob, Transition
    <3>2. PoolStatus' = [i \in GuardedJob |-> IF i \in {j} THEN "failed" ELSE PoolStatus[i]]
      BY <1>a, <3>1 DEF PoolStatus, GuardedJob
    <3>3. Pool!GiveUp({j})
      BY <1>0, <1>b, <2>0, <3>1, <3>2 DEF Pool!GiveUp, PoolStatus, PoolRepo
    <3> QED
      BY <2>0, <3>3 DEF Pool!Next
  <2> QED
    BY <1>2, <2>1, <2>2, <2>3, <2>4 DEF JobStep, CompleteJob, CancelJob, CreateJob, UpdateJob,
                                        EndRetentionJob, GuardedJob, Terminal
<1> QED
  BY <1>1, <1>2

LEMMA ReapPool ==
  ASSUME IInv, ReapCommit
  PROVE  Pool!Next
<1> DEFINE S == {j \in GuardedJob : rowOwner[j] = Reaper}
<1>1. \A j \in S : status[j] = ReapStatus
  BY DEF IInv, LockInv, RowOf, GuardedJob
<1>2. ReapStatus \in {"pending", "running"} /\ \A j \in S : PoolStatus[j] = ReapStatus
  BY <1>1 DEF ReapStatus, PoolStatus
<1>3. PoolStatus' = [j \in GuardedJob |-> IF j \in S THEN "failed" ELSE PoolStatus[j]]
  BY DEF ReapCommit, PoolStatus, GuardedJob
<1>4. UNCHANGED <<limits, policyRepo>>
  BY DEF ReapCommit, sysVars
<1>5. PoolRepo' = PoolRepo
  BY <1>4, PoolRepoStays DEF PinsStay
<1>6. Pool!GiveUp(S)
  BY <1>2, <1>3, <1>4, <1>5 DEF Pool!GiveUp, PoolStatus, PoolRepo
<1>7. S \in SUBSET GuardedJob
  OBVIOUS
<1> HIDE DEF S
<1> QED
  BY <1>6, <1>7 DEF Pool!Next, Pool!GiveUp

\* An admission over seven statements is one step of the pool, and so is every other end
\* of a guarded job: nobody can tell the guard from a pool whose slots are taken at once,
\* not even while operators edit other jobs, retention clients report on them and policies
\* are moved.
THEOREM GuardImplementsPool == Spec => ImplementsPool
<1>1. IInv /\ [Next]_vars => [Pool!Next]_(Pool!vars)
  <2> SUFFICES ASSUME IInv, [Next]_vars PROVE Pool!Next \/ UNCHANGED Pool!vars
    OBVIOUS
  <2>1. ASSUME NEW r \in Request, Admit(r) PROVE Pool!Next \/ UNCHANGED Pool!vars
    BY <2>1, AdmitPool
  <2>2. ASSUME NEW j \in Job, JobStep(j) PROVE Pool!Next \/ UNCHANGED Pool!vars
    BY <2>2, JobPool
  <2>3. CASE ReapCommit
    BY <2>3, ReapPool
  <2>4. ASSUME NEW p \in Policy, NEW rp \in Repo \union {NoRepo}, UpdatePolicy(p, rp)
        PROVE  UNCHANGED Pool!vars
    <3>1. UNCHANGED <<limits, status>> /\ PinsStay
      BY <2>4 DEF UpdatePolicy, PinsStay, IInv, TypeOK
    <3>2. PoolRepo' = PoolRepo
      BY <3>1, PoolRepoStays
    <3> QED
      BY <3>1, <3>2, PoolStutter DEF PoolStatus
  <2>5. CASE UNCHANGED <<limits, policyRepo, status>>
    <3>1. PoolRepo' = PoolRepo
      BY <2>5, PoolRepoStays DEF PinsStay
    <3> QED
      BY <2>5, <3>1, PoolStutter DEF PoolStatus
  <2>6. \/ UNCHANGED <<limits, policyRepo, status>>
        \/ \E r \in Request : Admit(r)
        \/ \E j \in Job : JobStep(j)
        \/ \E p \in Policy, rp \in Repo \union {NoRepo} : UpdatePolicy(p, rp)
        \/ ReapCommit
    BY DEF Next, vars, sysVars, Proceed, LockJob, ReadSystem, TakeAdvisory,
           CountGlobal, CountRepo, CountAgent, Gate, Rollback, BeginStart, JobStep, Reap, ReapRunning,
           ReapPending, ReapBegin, ReapRow, ReapAbort, Heartbeat, HeartbeatAges, SetOperationState
  <2> QED
    BY <2>1, <2>2, <2>3, <2>4, <2>5, <2>6
<1>2. Init => Pool!Init
  BY InitPool
<1> QED
  BY <1>1, <1>2, Inductive, PTL DEF ImplementsPool, Spec, Pool!Spec
=============================================================================
