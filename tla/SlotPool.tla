------------------------------ MODULE SlotPool ------------------------------
(***************************************************************************)
(* What the dispatch guard promises, without transactions or locks: a pool *)
(* of slots shared by the whole platform, by the jobs of one repository    *)
(* and by the jobs of one agent.  A job takes its slots in one indivisible *)
(* step, and only when all three pools have one left; it gives them back   *)
(* when it ends, and it ends once.                                         *)
(***************************************************************************)
EXTENDS Integers, FiniteSets

CONSTANTS
  Job,        \* the jobs
  SystemOf,   \* Job -> the agent that runs the job
  NoRepo      \* the repository of a job that has none

VARIABLES
  limits,     \* [global, repo, agent]: the size of the pools
  repoOf,     \* Job -> the repository the job writes to
  status      \* Job -> where the job is in its life

vars == <<limits, repoOf, status>>

Outcome == {"success", "failed", "cancelled"}
InUse == {j \in Job : status[j] = "running"}

Init ==
  /\ limits \in [{"global", "repo", "agent"} -> Nat \ {0}]
  /\ status = [j \in Job |-> "none"]

Move(j, from, to) ==
  /\ status[j] \in from
  /\ status' = [status EXCEPT ![j] = to]
  /\ UNCHANGED <<limits, repoOf>>

SlotLeft(j) ==
  /\ Cardinality(InUse) < limits.global
  /\ repoOf[j] # NoRepo =>
       Cardinality({i \in InUse : repoOf[i] = repoOf[j]}) < limits.repo
  /\ Cardinality({i \in InUse : SystemOf[i] = SystemOf[j]}) < limits.agent

Create(j) == Move(j, {"none"}, "pending")
Take(j)   == SlotLeft(j) /\ Move(j, {"pending"}, "running")
Settle(j) == \E st \in Outcome : Move(j, {"running"}, st)
Delete(j) == Move(j, {"pending", "running"} \union Outcome, "deleted")

\* Jobs given up together, because nobody picks them up or nothing is heard of them.
GiveUp(S) ==
  /\ \E st \in {"pending", "running"} : \A j \in S : status[j] = st
  /\ status' = [j \in Job |-> IF j \in S THEN "failed" ELSE status[j]]
  /\ UNCHANGED <<limits, repoOf>>

Next ==
  \/ \E j \in Job : Create(j) \/ Take(j) \/ Settle(j) \/ Delete(j)
  \/ \E S \in SUBSET Job : GiveUp(S)

Spec == Init /\ [][Next]_vars
=============================================================================
