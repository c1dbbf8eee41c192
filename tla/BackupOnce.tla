----------------------------- MODULE BackupOnce -----------------------------
(***************************************************************************)
(* What the control plane and an agent promise together of the backup jobs *)
(* of a system, without goroutines, requests, retries or a disk.  A job is *)
(* admitted once, and the admission is the only right there is to run      *)
(* restic for it: it is used once or lost.  What is recorded afterwards is *)
(* what restic did, or a failure; a success has one snapshot at most,      *)
(* and none once it is removed.                                            *)
(***************************************************************************)
EXTENDS Naturals

CONSTANT Job

VARIABLES
  status,    \* Job -> what is recorded of the job
  cancelReq, \* jobs an operator wants cancelled
  snaps,     \* Job -> the snapshots registered for it
  restic     \* Job -> the right to run, and what came of it

vars == <<status, cancelReq, snaps, restic>>

Unfinished == {"pending", "running"}
Outcome    == {"success", "failed", "cancelled"}

Init ==
  /\ status = [j \in Job |-> "none"]
  /\ cancelReq = {}
  /\ snaps = [j \in Job |-> 0]
  /\ restic = [j \in Job |-> "never"]

Record(j, from, to) ==
  /\ status[j] \in from
  /\ status' = [status EXCEPT ![j] = to]
  /\ UNCHANGED <<cancelReq, snaps>>

Run(j, from, to) ==
  /\ restic[j] = from
  /\ restic' = [restic EXCEPT ![j] = to]
  /\ UNCHANGED <<status, cancelReq, snaps>>

Create(j) == Record(j, {"none"}, "pending") /\ UNCHANGED restic

\* The right to run comes with the admission, or is lost on the way.
Admit(j) ==
  /\ Record(j, {"pending"}, "running")
  /\ restic[j] = "never"
  /\ \/ restic' = [restic EXCEPT ![j] = "granted"]
     \/ UNCHANGED restic

Lose(j)           == Run(j, "granted", "never")
Start(j)          == Run(j, "granted", "started")
Finish(j, result) == Run(j, "started", result)

Succeed(j) == restic[j] = "ok" /\ Record(j, {"running"}, "success") /\ UNCHANGED restic

\* The agent gives up, or the control plane does not hear from it.
Fail(j) == Record(j, Unfinished, "failed") /\ UNCHANGED restic

Cancel(j) ==
  /\ j \in cancelReq /\ restic[j] = "error"
  /\ Record(j, {"running"}, "cancelled")
  /\ UNCHANGED restic

RequestCancel(j) ==
  /\ status[j] \in Unfinished
  /\ cancelReq' = cancelReq \union {j}
  /\ UNCHANGED <<status, snaps, restic>>

Register(j) ==
  /\ status[j] = "success" /\ snaps[j] = 0
  /\ snaps' = [snaps EXCEPT ![j] = 1]
  /\ UNCHANGED <<status, cancelReq, restic>>

\* A snapshot is removed from the catalog.
Remove(j) ==
  /\ snaps[j] = 1
  /\ snaps' = [snaps EXCEPT ![j] = 0]
  /\ UNCHANGED <<status, cancelReq, restic>>

Delete(j) ==
  /\ snaps[j] = 0
  /\ Record(j, Unfinished \union Outcome, "deleted")
  /\ UNCHANGED restic

Next ==
  \E j \in Job :
    \/ Create(j) \/ Admit(j) \/ Lose(j) \/ Start(j) \/ Succeed(j) \/ Fail(j) \/ Cancel(j)
    \/ RequestCancel(j) \/ Register(j) \/ Remove(j) \/ Delete(j)
    \/ \E result \in {"ok", "error"} : Finish(j, result)

Spec == Init /\ [][Next]_vars
=============================================================================
