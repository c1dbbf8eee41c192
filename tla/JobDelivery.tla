---------------------------- MODULE JobDelivery ----------------------------
(***************************************************************************)
(* How a backup job reaches one agent and how its outcome comes back: the  *)
(* agent's poll loop and its drain goroutine (internal/agent/agent.go),    *)
(* the outbox on the agent's disk (internal/agent/outbox), the HTTP client *)
(* (internal/agent/client) and the control plane's handlers                *)
(* (internal/api/agent_jobs.go) on the jobs of that agent.                 *)
(*                                                                         *)
(* The two goroutines of the agent are the clients of the handlers.  A     *)
(* client waits for one answer at a time and stops waiting whenever it     *)
(* likes: the request may be lost, its answer may be lost, or the handler  *)
(* may still run after its client has gone.  The agent may die between any *)
(* two steps and starts again; only the outbox survives.                   *)
(*                                                                         *)
(* Admission is one step here, because DispatchGuard shows that it is one  *)
(* (ImplementsPool); which limit defers a start is left open.  The order   *)
(* in which a batch is executed and the outbox is drained (by creation     *)
(* time) is left open too.                                                 *)
(*                                                                         *)
(* Some endpoints write a job past the guarded transitions: the operator's *)
(* POST and PUT /v1/jobs and POST /v1/snapshots, and the reports of a      *)
(* retention client.  They may be used on the jobs of EditableJob at any   *)
(* time; what is promised of a job is promised of the others.              *)
(***************************************************************************)
EXTENDS Integers, FiniteSets

CONSTANTS
  Job,        \* the backup jobs of the agent's system
  EditableJob, \* the jobs that are also written past the guarded transitions
  NoJob,      \* the agent works on nothing
  DiskFails,  \* whether writing to the outbox can fail
  MaxAdrift,  \* bound: handlers that run on without a client
  MaxSnaps    \* bound: snapshots beyond which a job is not written past them any more

ASSUME DeliveryAssumption ==
  /\ EditableJob \subseteq Job
  /\ NoJob \notin Job
  /\ DiskFails \in BOOLEAN
  /\ MaxAdrift \in Nat /\ MaxSnaps \in Nat

VARIABLES
  status,    \* backup_jobs.status; "none" before the INSERT, "deleted" after a DELETE
  cancelReq, \* jobs with cancel_requested_at set
  snaps,     \* Job -> the number of snapshots registered for it
  phase,     \* where the poll loop is
  batch,     \* the jobs of the last list it has still to execute
  cur,       \* the job it executes
  killed,    \* the cancel watcher has cancelled jobCtx
  outcome,   \* the terminal event executeJob has decided on
  outbox,    \* Job -> the kind of the event on disk
  todo,      \* Job -> the kind of the event the drain goroutine has listed
  call,      \* Client -> the request it waits for, and how far that has come
  adrift,    \* requests without a client
  engine,    \* (ghost) Job -> how far restic has come with it
  saved,     \* (ghost) jobs with an outcome that has been on disk
  refused    \* (ghost) jobs with an outcome that was answered with 401

dbVars    == <<status, cancelReq, snaps>>
loopVars  == <<phase, batch, cur, killed, outcome>>
diskVars  == <<outbox, saved, refused>>
netVars   == <<call, adrift>>
vars == <<dbVars, loopVars, diskVars, todo, netVars, engine>>

Client   == {"main", "drain"}
Kind     == {"complete", "fail", "cancelled"}
Terminal == {"success", "failed", "cancelled"}
JobStatus == {"pending", "running"} \union Terminal

Request == [kind : Kind \union {"start"}, job : Job]
NoRequest == [kind |-> "none", job |-> NoJob]

\* "sent" and "register" are handlers at work, the rest are answers: 2xx, 429, 404
\* or 409, 401, and no answer or a 5xx.
InHand   == {"sent", "register"}
Answered == {"ok", "deferred", "rejected", "unauthorized", "error"}
Waiting(c) == call[c].stage # "none"

Executing(j) == phase = "backup" /\ cur = j

Init ==
  /\ status = [j \in Job |-> "none"]
  /\ cancelReq = {}
  /\ snaps = [j \in Job |-> 0]
  /\ phase = "idle" /\ batch = {} /\ cur = NoJob /\ killed = FALSE /\ outcome = "none"
  /\ outbox = [j \in Job |-> "none"]
  /\ todo = [j \in Job |-> "none"]
  /\ call = [c \in Client |-> [stage |-> "none", req |-> NoRequest]]
  /\ adrift = {}
  /\ engine = [j \in Job |-> "never"]
  /\ saved = {} /\ refused = {}

(***************************************************************************)
(* The handlers: what a request does to the row of its job, and the stage  *)
(* it comes to.                                                            *)
(***************************************************************************)

\* A guarded transition; a job that is in none of the source states, or is gone, is
\* rejected with 409 or 404.
Guarded(j, from, to, answer, stage) ==
  \/ status[j] \in from /\ status' = [status EXCEPT ![j] = to] /\ stage = answer
  \/ status[j] \notin from /\ UNCHANGED status /\ stage = "rejected"

\* The dispatch guard admits a pending job, or leaves it pending.
AdmitStart(j, stage) ==
  \/ Guarded(j, {"pending"}, "running", "ok", stage)
  \/ status[j] = "pending" /\ UNCHANGED status /\ stage = "deferred"

\* Variant: a repeated report of success is answered like the first.
CompleteAgain(j, stage) == Guarded(j, {"running", "success"}, "success", "register", stage)

\* The snapshot is registered afterwards, in a statement of its own.
CompleteJob(j, stage) == Guarded(j, {"running"}, "success", "register", stage)
FailJob(j, stage)     == Guarded(j, {"pending", "running"}, "failed", "ok", stage)
CancelJob(j, stage)   == Guarded(j, {"running"}, "cancelled", "ok", stage)

\* AgentAuth answers 401 whenever it cannot look the token up, revoked or not.
AgentAuth(stage) == stage = "unauthorized" /\ UNCHANGED status

Handle(q, stage) ==
  \/ AgentAuth(stage)
  \/ q.kind = "start"     /\ AdmitStart(q.job, stage)
  \/ q.kind = "complete"  /\ CompleteJob(q.job, stage)
  \/ q.kind = "fail"      /\ FailJob(q.job, stage)
  \/ q.kind = "cancelled" /\ CancelJob(q.job, stage)

\* completeAgentJob goes on: an error is only logged, and so is a policy that has no
\* repository any more.
RegisterSnapshot(j) ==
  \/ status[j] # "deleted" /\ snaps' = [snaps EXCEPT ![j] = @ + 1]
  \/ UNCHANGED snaps

Serve(c) ==
  /\ call[c].stage = "sent"
  /\ \E stage \in {"register"} \union Answered :
       /\ Handle(call[c].req, stage)
       /\ call' = [call EXCEPT ![c].stage = stage]
  /\ UNCHANGED <<cancelReq, snaps, loopVars, diskVars, todo, adrift, engine>>

Register(c) ==
  /\ call[c].stage = "register"
  /\ RegisterSnapshot(call[c].req.job)
  /\ call' = [call EXCEPT ![c].stage = "ok"]
  /\ UNCHANGED <<status, cancelReq, loopVars, diskVars, todo, adrift, engine>>

\* A handler without a client; what it answers is of no account.
ServeAdrift(a) ==
  /\ a \in adrift /\ a.stage = "sent"
  /\ \E stage \in {"register"} \union Answered :
       /\ Handle(a.req, stage)
       /\ adrift' = (adrift \ {a}) \union
                    {b \in {[a EXCEPT !.stage = stage]} : b.stage \in InHand}
  /\ UNCHANGED <<cancelReq, snaps, loopVars, diskVars, todo, call, engine>>

RegisterAdrift(a) ==
  /\ a \in adrift /\ a.stage = "register"
  /\ RegisterSnapshot(a.req.job)
  /\ adrift' = adrift \ {a}
  /\ UNCHANGED <<status, cancelReq, loopVars, diskVars, todo, call, engine>>

\* The request never arrived, or its handler was cancelled or died with the server.
Vanish(a) ==
  /\ a \in adrift
  /\ adrift' = adrift \ {a}
  /\ UNCHANGED <<dbVars, loopVars, diskVars, todo, call, engine>>

\* What becomes of the requests of the clients in C when these stop waiting.
Abandon(C) ==
  \E D \in SUBSET {call[c] : c \in {d \in C : call[d].stage \in InHand}} :
    /\ Cardinality(adrift \union D) <= MaxAdrift
    /\ adrift' = adrift \union D

\* The client's timeout, a broken connection or a 5xx, before or after the handler
\* has done its work.
GiveUp(c) ==
  /\ Waiting(c) /\ call[c].stage # "error"
  /\ Abandon({c})
  /\ call' = [call EXCEPT ![c].stage = "error"]
  /\ UNCHANGED <<dbVars, loopVars, diskVars, todo, engine>>

(***************************************************************************)
(* The other writers of the jobs table.                                    *)
(***************************************************************************)

Untouched == UNCHANGED <<snaps, loopVars, diskVars, todo, netVars, engine>>

CreatePending(j) ==
  /\ status[j] = "none"
  /\ status' = [status EXCEPT ![j] = "pending"]
  /\ UNCHANGED cancelReq /\ Untouched

\* POST /v1/jobs/{id}/cancel flags the job, and nothing else.
RequestCancel(j) ==
  /\ status[j] \in {"pending", "running"}
  /\ cancelReq' = cancelReq \union {j}
  /\ UNCHANGED status /\ Untouched

\* snapshots.job_id refers to the row and does not cascade.
DeleteJob(j) ==
  /\ status[j] \in JobStatus /\ snaps[j] = 0
  /\ status' = [status EXCEPT ![j] = "deleted"]
  /\ UNCHANGED cancelReq /\ Untouched

\* Variant: only jobs that were never picked up are given up.
ReapPendingOnly(j) ==
  /\ status[j] = "pending"
  /\ status' = [status EXCEPT ![j] = "failed"]
  /\ UNCHANGED cancelReq /\ Untouched

\* FailStaleJobs: 30 minutes without progress, or 6 hours without an agent.  Progress
\* reports can be lost while restic runs, so a job may be reaped at any time.
ReapStale(j) ==
  /\ status[j] \in {"pending", "running"}
  /\ status' = [status EXCEPT ![j] = "failed"]
  /\ UNCHANGED cancelReq /\ Untouched

\* DELETE /v1/snapshots/{id}, and the clean-up after a retention run.
DeleteSnapshot(j) ==
  /\ snaps[j] > 0
  /\ snaps' = [snaps EXCEPT ![j] = @ - 1]
  /\ UNCHANGED <<status, cancelReq, loopVars, diskVars, todo, netVars, engine>>

(***************************************************************************)
(* The writers that pass the guarded transitions by.                       *)
(***************************************************************************)

\* POST /v1/jobs: the status is the client's, and "running" when it sends none.
CreateJob(j, st) ==
  /\ j \in EditableJob /\ status[j] = "none"
  /\ status' = [status EXCEPT ![j] = st]
  /\ UNCHANGED cancelReq /\ Untouched

\* PUT /v1/jobs/{id}: the client's status over any other.
UpdateJob(j, st) ==
  /\ j \in EditableJob /\ status[j] \in JobStatus /\ snaps[j] <= MaxSnaps
  /\ status' = [status EXCEPT ![j] = st]
  /\ UNCHANGED cancelReq /\ Untouched

\* Retention complete and fail do the same to the job they name, whatever its type.
EndRetentionJob(j, st) == st \in {"success", "failed"} /\ UpdateJob(j, st)

\* POST /v1/snapshots: the foreign key wants the job to exist.
CreateSnapshot(j) ==
  /\ j \in EditableJob /\ status[j] \in JobStatus /\ snaps[j] <= MaxSnaps
  /\ snaps' = [snaps EXCEPT ![j] = @ + 1]
  /\ UNCHANGED <<status, cancelReq, loopVars, diskVars, todo, netVars, engine>>

(***************************************************************************)
(* The poll loop.                                                          *)
(***************************************************************************)

Send(c, kind, j) ==
  call' = [call EXCEPT ![c] = [stage |-> "sent", req |-> [kind |-> kind, job |-> j]]]
HangUp(c) == call' = [call EXCEPT ![c] = [stage |-> "none", req |-> NoRequest]]

\* poll: the heartbeat, then the list of the pending jobs.
Poll ==
  /\ phase = "idle" /\ batch = {}
  /\ batch' = {j \in Job : status[j] = "pending"}
  /\ UNCHANGED <<dbVars, phase, cur, killed, outcome, diskVars, todo, netVars, engine>>

\* executeJob on the next job of the batch, however old the batch is by now.
NextJob(j) ==
  /\ phase = "idle" /\ j \in batch
  /\ batch' = batch \ {j} /\ cur' = j /\ phase' = "fetch"
  /\ UNCHANGED <<dbVars, killed, outcome, diskVars, todo, netVars, engine>>

Decide(kind) == phase' = "report" /\ outcome' = kind

\* GetPolicy or GetRepository fails, or the policy has no repository.
FetchFails ==
  /\ phase = "fetch"
  /\ Decide("fail")
  /\ UNCHANGED <<dbVars, batch, cur, killed, diskVars, todo, netVars, engine>>

FetchOk ==
  /\ phase = "fetch"
  /\ phase' = "start"
  /\ Send("main", "start", cur)
  /\ UNCHANGED <<dbVars, batch, cur, killed, outcome, diskVars, todo, adrift, engine>>

JobDone == phase' = "idle" /\ cur' = NoJob /\ killed' = FALSE /\ outcome' = "none"

\* Variant: the job is executed although the answer to its start never came.
StartAssumed ==
  /\ phase = "start" /\ call["main"].stage \in {"ok", "error"}
  /\ phase' = "backup"
  /\ engine' = [engine EXCEPT ![cur] = "started"]
  /\ HangUp("main")
  /\ UNCHANGED <<dbVars, batch, cur, killed, outcome, diskVars, todo, adrift>>

StartConfirmed ==
  /\ phase = "start" /\ call["main"].stage = "ok"
  /\ phase' = "backup"
  /\ engine' = [engine EXCEPT ![cur] = "started"]
  /\ HangUp("main")
  /\ UNCHANGED <<dbVars, batch, cur, killed, outcome, diskVars, todo, adrift>>

\* Deferred, refused or unanswered: the job is left as it is.
StartRefused ==
  /\ phase = "start" /\ call["main"].stage \in Answered \ {"ok"}
  /\ JobDone /\ HangUp("main")
  /\ UNCHANGED <<dbVars, batch, diskVars, todo, adrift, engine>>

\* The cancel watcher finds the flag and cancels jobCtx.
WatcherStops ==
  /\ phase = "backup" /\ cur \in cancelReq
  /\ killed' = TRUE
  /\ UNCHANGED <<dbVars, phase, batch, cur, outcome, diskVars, todo, netVars, engine>>

\* Variant: the watcher's flag is looked at before restic's result.
BackupEndsFlagFirst(result) ==
  /\ phase = "backup"
  /\ engine' = [engine EXCEPT ![cur] = result]
  /\ Decide(IF killed THEN "cancelled" ELSE IF result = "ok" THEN "complete" ELSE "fail")
  /\ UNCHANGED <<dbVars, batch, cur, killed, diskVars, todo, netVars>>

\* restic returns; it may have finished although it was told to stop.
BackupEnds(result) ==
  /\ phase = "backup"
  /\ engine' = [engine EXCEPT ![cur] = result]
  /\ \/ result = "ok" /\ Decide("complete")
     \/ result = "error" /\ killed /\ Decide("cancelled")
     \/ result = "error" /\ ~killed /\ Decide("fail")
  /\ UNCHANGED <<dbVars, batch, cur, killed, diskVars, todo, netVars>>

\* reportTerminal: on disk first, over an older event of the same job; then one
\* attempt to deliver it.
Enqueue ==
  /\ phase = "report"
  /\ outbox' = [outbox EXCEPT ![cur] = outcome]
  /\ saved' = saved \union {cur} /\ refused' = refused \ {cur}
  /\ phase' = "deliver"
  /\ Send("main", outcome, cur)
  /\ UNCHANGED <<dbVars, batch, cur, killed, outcome, todo, adrift, engine>>

EnqueueFails ==
  /\ DiskFails /\ phase = "report"
  /\ phase' = "direct"
  /\ Send("main", outcome, cur)
  /\ UNCHANGED <<dbVars, batch, cur, killed, outcome, diskVars, todo, adrift, engine>>

DirectDelivered ==
  /\ phase = "direct" /\ call["main"].stage \in Answered
  /\ JobDone /\ HangUp("main")
  /\ UNCHANGED <<dbVars, batch, diskVars, todo, adrift, engine>>

(***************************************************************************)
(* tryDeliver, after the answer, in either goroutine.                      *)
(***************************************************************************)

\* Variant: every answer confirms the event.
ConfirmsAny(c) == call[c].stage \in Answered

\* Variant: only success confirms it.
ConfirmsSuccess(c) == call[c].stage \in {"ok", "unauthorized"}

\* Done, or isPermanent: 409, 404 and 401.
Confirms(c) == call[c].stage \in {"ok", "rejected", "unauthorized"}

\* Ack goes by the job: it removes whatever event of that job is on disk now.
Ack(c) ==
  /\ outbox' = [outbox EXCEPT ![call[c].req.job] = "none"]
  /\ refused' = IF call[c].stage = "unauthorized" THEN refused \union {call[c].req.job}
                ELSE refused
  /\ UNCHANGED saved

Delivering(c) == c = "drain" \/ phase = "deliver"

Finish(c) ==
  /\ HangUp(c)
  /\ c = "main" => JobDone /\ UNCHANGED batch
  /\ c = "drain" => UNCHANGED loopVars
  /\ UNCHANGED <<dbVars, todo, adrift, engine>>

Delivered(c) == Delivering(c) /\ Confirms(c) /\ Ack(c) /\ Finish(c)

KeepForLater(c) ==
  /\ Delivering(c) /\ call[c].stage \in Answered /\ ~Confirms(c)
  /\ UNCHANGED diskVars
  /\ Finish(c)

(***************************************************************************)
(* The drain goroutine, at the start of the process and every 30 seconds.  *)
(***************************************************************************)

Listed(j) == todo[j] # "none"

DrainList ==
  /\ ~Waiting("drain") /\ \A j \in Job : ~Listed(j)
  /\ todo' = outbox
  /\ UNCHANGED <<dbVars, loopVars, diskVars, netVars, engine>>

\* Variant: a file that is gone is read as an event without a kind.
DrainSendUnlisted(j) ==
  /\ ~Waiting("drain")
  /\ Send("drain", todo[j], j)
  /\ todo' = [todo EXCEPT ![j] = "none"]
  /\ UNCHANGED <<dbVars, loopVars, diskVars, adrift, engine>>

DrainSend(j) ==
  /\ ~Waiting("drain") /\ Listed(j)
  /\ Send("drain", todo[j], j)
  /\ todo' = [todo EXCEPT ![j] = "none"]
  /\ UNCHANGED <<dbVars, loopVars, diskVars, adrift, engine>>

\* The process dies, or ends because a heartbeat was answered with 401, and the
\* service manager starts it again.
Crash ==
  /\ JobDone /\ batch' = {}
  /\ todo' = [j \in Job |-> "none"]
  /\ Abandon(Client)
  /\ call' = [c \in Client |-> [stage |-> "none", req |-> NoRequest]]
  /\ UNCHANGED <<dbVars, diskVars, engine>>

(***************************************************************************)
(* The specification.                                                      *)
(***************************************************************************)

Loop ==
  \/ Poll \/ FetchFails \/ FetchOk \/ StartConfirmed \/ StartRefused \/ WatcherStops
  \/ Enqueue \/ EnqueueFails \/ DirectDelivered
  \/ \E j \in Job : NextJob(j)
  \/ \E result \in {"ok", "error"} : BackupEnds(result)

Network ==
  \/ \E c \in Client : Serve(c) \/ Register(c) \/ GiveUp(c)
  \/ \E a \in adrift : ServeAdrift(a) \/ RegisterAdrift(a) \/ Vanish(a)

Table(j) ==
  \/ CreatePending(j) \/ RequestCancel(j) \/ DeleteJob(j) \/ ReapStale(j) \/ DeleteSnapshot(j)
  \/ \E st \in JobStatus : CreateJob(j, st) \/ UpdateJob(j, st) \/ EndRetentionJob(j, st)
  \/ CreateSnapshot(j)

Next ==
  \/ \E j \in Job : Table(j) \/ DrainSend(j)
  \/ Loop \/ Network \/ DrainList \/ Crash
  \/ \E c \in Client : Delivered(c) \/ KeepForLater(c)

\* restic ends; the drain goroutine comes round; however often the agent crashes and
\* answers are lost, not every request is; and the reaper comes round, though it
\* finds a job overdue for certain only when nobody works on it.
Fairness ==
  /\ \A result \in {"ok", "error"} : WF_vars(BackupEnds(result))
  /\ SF_vars(DrainList) /\ SF_vars(Serve("drain")) /\ SF_vars(Register("drain"))
  /\ SF_vars(Delivered("drain")) /\ SF_vars(KeepForLater("drain"))
  /\ \A j \in Job : SF_vars(DrainSend(j)) /\ WF_vars(~Executing(j) /\ ReapStale(j))

Spec == Init /\ [][Next]_vars
FairSpec == Spec /\ Fairness

(***************************************************************************)
(* Properties.                                                             *)
(***************************************************************************)

\* Every variable has its type.
TypeOK ==
  /\ status \in [Job -> {"none", "pending", "running", "deleted"} \union Terminal]
  /\ cancelReq \subseteq Job
  /\ snaps \in [Job -> Nat]
  /\ phase \in {"idle", "fetch", "start", "backup", "report", "deliver", "direct"}
  /\ batch \subseteq Job
  /\ cur \in Job \union {NoJob}
  /\ killed \in BOOLEAN
  /\ outcome \in Kind \union {"none"}
  /\ outbox \in [Job -> Kind \union {"none"}]
  /\ todo \in [Job -> Kind \union {"none"}]
  /\ call \in [Client -> [stage : {"none"} \union InHand \union Answered,
                          req : Request \union {NoRequest}]]
  /\ adrift \subseteq [stage : InHand, req : Request]
  /\ engine \in [Job -> {"never", "started", "ok", "error"}]
  /\ saved \subseteq Job /\ refused \subseteq Job

\* The jobs that only guarded transitions write.
GuardedJob == Job \ EditableJob

\* restic runs at most once for a guarded job, whatever answers get lost and however
\* often the agent restarts or finds the job in a list.  A job that an operator sets
\* back to pending runs again (jobs.go:118).
ExecutedOnce ==
  [][\A j \in GuardedJob : engine[j] # "never" /\ ~Executing(j) => ~Executing(j)']_vars

\* Reports are retried, answered late and executed without a client, and still the
\* catalog has one snapshot for a guarded job at most, and only for a job that succeeded.
OneSnapshotPerSuccess ==
  \A j \in GuardedJob : snaps[j] <= 1 /\ (snaps[j] = 1 => status[j] = "success")

\* A guarded job is recorded as a success only if restic finished it, and as cancelled
\* only if an operator asked for that and restic did not finish it.
RecordedIsTrue ==
  \A j \in GuardedJob :
    /\ status[j] = "success" => engine[j] = "ok"
    /\ status[j] = "cancelled" => j \in cancelReq /\ engine[j] = "error"

Open(j) == status[j] \in {"pending", "running"}

\* An outcome of a guarded job that has been on disk stays there while the control plane
\* has none, unless a report of it was answered with 401.
OutcomeKept == \A j \in GuardedJob \cap (saved \ refused) : Open(j) => outbox[j] # "none"

\* The outcome of a backup that restic has ended is never lost: without the exception.
OutcomeNeverLost ==
  \A j \in saved :
    Open(j) /\ engine[j] \in {"ok", "error"} /\ cur # j => outbox[j] # "none"

\* A report of failure is never accepted for a job that restic is working on or has
\* finished.
NoFalseFailure ==
  [][\A c \in Client :
       LET j == call[c].req.job
       IN  /\ call[c].stage = "sent" /\ call[c].req.kind = "fail"
           /\ call'[c].stage = "ok"
           => ~Executing(j) /\ engine[j] # "ok"]_vars

\* The poll loop has been told to start the job, and has not yet.
Granted(j) == phase = "start" /\ cur = j /\ call["main"].stage = "ok"

\* Whatever is lost, retried, answered late or handled without a client, however often
\* the agent restarts, and whatever is done to other jobs past the transitions: nobody
\* can tell the agent, its outbox and the handlers from a job that is admitted once, run
\* at most once, and recorded as what it came to, for every guarded job.
Promise == INSTANCE BackupOnce WITH
  Job <- GuardedJob,
  status <- [j \in GuardedJob |-> status[j]],
  cancelReq <- cancelReq \cap GuardedJob,
  snaps <- [j \in GuardedJob |-> snaps[j]],
  restic <- [j \in GuardedJob |-> IF Granted(j) THEN "granted" ELSE engine[j]]
KeepsPromise == Promise!Spec

\* What the agents' side does to the guarded jobs is what DispatchGuard does to them, for
\* the jobs of one system and as far as no limit binds: both write the table as the pool
\* of slots does.
Slots == INSTANCE SlotPool WITH
  Job <- GuardedJob,
  status <- [j \in GuardedJob |-> status[j]],
  limits <- [d \in {"global", "repo", "agent"} |-> Cardinality(GuardedJob) + 1],
  SystemOf <- [j \in GuardedJob |-> "system"],
  repoOf <- [j \in GuardedJob |-> NoJob], NoRepo <- NoJob
WritesLikePool == Slots!Spec

\* Every event leaves the outbox in the end, of whatever job, as long as its file can be
\* read (outbox.go:106 skips one that cannot), and so does a guarded job leave the list of
\* the unfinished ones: no slot leaks for good.
Drained == \A j \in Job : outbox[j] # "none" ~> outbox[j] = "none"
EveryJobEnds == \A j \in GuardedJob : Open(j) ~> ~Open(j)
=============================================================================
