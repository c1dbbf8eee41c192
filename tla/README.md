# OpensourceBackup in TLA+

Specifications of the control plane and the agent of OpensourceBackup, checked
with TLC on small instances and, where it matters most, proved with TLAPS for all
of them. Every definition follows the Go source; `PROJECT.json` gives the lines.

## 1. The system

A control plane (one or more instances of `cmd/control-plane`) keeps everything
in PostgreSQL. On every protected machine an agent (`cmd/agent`) polls it over
HTTP, runs restic, and reports back. Operators use a web UI over the same HTTP
API. There is no push: the agent asks, every poll, for pending jobs.

| Component | State | Operations | Interacts with |
|---|---|---|---|
| Dispatch guard `catalog/dispatch.go` | one transaction per start request: a row lock, an advisory lock, what it has read | `AdmitStart` | jobs, systems, policies; the reaper through row locks |
| Job store `catalog/jobs.go`, `api/jobs.go` | `backup_jobs`: status, cancel flag, progress | insert, the guarded transitions start/complete/fail/cancel, cancel request, operator's POST, PUT and DELETE, retention complete and fail, `FailStaleJobs` | everything |
| Systems `catalog/systems.go`, `operation_state.go` | `systems.operation_state`, `last_seen` | `SetOperationState`, heartbeat | read by the guard |
| Policies, repositories | `backup_policies.repository_id`, limits, schedules | CRUD | read by guard, agent, scheduler |
| Agent poll loop `agent/agent.go` | the batch of the last list, the job in execution, the watcher's flag | `poll`, `executeJob`, `reportTerminal` | handlers over HTTP, restic, outbox |
| Outbox `agent/outbox` | one file per job | `Enqueue`, `List`, `Ack` | poll loop and drain goroutine |
| Agent endpoints `api/agent_jobs.go`, `agent_auth.go` | none | start, complete, fail, cancelled, progress | job store, snapshots, tokens |
| Scheduler `scheduler/scheduler.go` | cron entries, policies they captured | reload, dispatches, stale-test cleaner, reaper, dead-man's switch | jobs, restore tests, policies |
| Restore tests `catalog/restore_tests.go`, `api/restore_tests.go`, `api/agent_restore_tests.go` | `restore_tests` rows; in each endpoint a copy of one | create, claim, complete, fail, start, delete, clean | agent, scheduler, snapshots (cascade), retention, score |
| Retention `api/agent_retention.go` | retention jobs, snapshots, the lists of one validation | dispatch, validate, complete, fail | restore tests, snapshots, restic |
| Enrollment, tokens `auth/enrollment_store.go`, `auth/agent_token_store.go`, `cmd/agent/main.go` | one-time tokens, agent tokens, the agent's token file | create, consume, store, look up, purge | agent start, every agent request |
| Users, sessions `auth/users.go`, `auth/rbac_session.go`, `api/users.go` | `users` rows, sessions in memory | login, role change, delete, revoke, the first administrator | every administrator's request |
| Schedules `scheduler/scheduler.go`, `api/policies.go` | policies, the cron entries made of them | write, reload, fire, window | jobs |
| Health score, alerts `health/`, `api/health_score.go` | none: functions of the tables | `Calculate`, `computeScore`, the collector's input | all tables |
| Activity chart, repository overview | none | buckets, counts, last runs | jobs, tests, snapshots |
| Migrations `migrate/` | `schema_migrations` | plan, apply, record | every start |
| Updater `agent/updater.go` | three file names | `Apply` | service manager |
| Rate limiter `security/ratelimit.go` | a map of token buckets | `Allow`, clean-up | every request |
| Secrets, notifications, audit log, metrics text, web UI, installers | see section 7 | | |

What is hard in it: transactions at READ COMMITTED that read in several
statements; locks taken in an order (job row, advisory lock) that the reaper does
not know; HTTP requests whose answer is lost while the handler runs on; an agent
that may die anywhere and that has two goroutines reporting the same outcome;
endpoints that read a row, change their copy and write all of it back; checks and
the writes they guard in separate statements (one-time tokens, the last
administrator, the migrations); caches of tables in memory (cron entries, sessions,
rate limits); a validation whose answer is carried out much later by another
process; files renamed in an order that a crash may cut anywhere; numbers shown to
operators that two readers compute in two ways. `PROJECT.json` lists these hazards
line by line, each with the properties that would notice it going wrong.

What makes each part correct, as far as the code makes it so:

* the guard never exceeds a limit, however requests race, and every request ends;
* a guarded job, which only the guarded transitions write, stays as it ended; restic
  runs at most once for it, what is recorded of it is what happened, it is recorded
  once, and it does not stay unfinished for ever. An operator's POST and PUT of
  `/v1/jobs`, and the reports of a retention client, write any job they name past the
  transitions: nothing of this is promised of a job they name;
* a restore test runs once, and its success comes from an operator or from files of the
  snapshot in place, if not all of them; a system keeps a snapshot whose restore was
  tested, unless a success is thrown away, a row deleted or registered by hand, or a
  removal cut short; with the same exceptions a row of the catalog has its snapshot,
  while a snapshot may never get its row;
* a one-time token makes one agent token, except for two requests that both found it
  unused, and an agent's token is known as long as its system; a request removes the last
  administrator only when its count has failed or become old; a session with an old role
  is about to be revoked, unless a login crossed the change;
* the cron entries are those of the policies, unless a reload failed or was overtaken,
  and fire inside the windows they were made with; an instance serves only the schema it
  was built for; an update leaves a binary or a backup that is one; forgetting an address
  gives it nothing;
* a score is earned, moves with events, and is the same wherever it is shown, as long as
  only backups have ended.

Sessions (`rbac_session.go:39-43`) and cron entries are in the memory of one instance of
the control plane. A change of role or of a policy reaches those of the instance that
made it; the others keep theirs until they expire or that instance reloads. `Accounts` and
`PolicySchedule` have one instance.

Several of these exceptions are races the code leaves open: two requests that consume one
token, two that each count an administrator besides the other, a login that crosses a
change, a reload that is overtaken, a policy that moves during a start. A property that
makes the exception shows that there is no other way to the bad state, and not that there
is none; the hazard's note says so.

## 2. Modules

| Module | What it is |
|---|---|
| `DispatchGuard` | `AdmitStart`, one action per statement, and every other statement that writes the tables it reads |
| `SlotPool` | the abstract promise: three pools of slots, taken in one step |
| `JobDelivery` | one agent, its outbox, the network and the handlers, on the jobs of its system |
| `BackupOnce` | the abstract promise: a job is admitted once, run at most once, and recorded as what it came to |
| `RestoreTests` | the restore tests of one system: endpoints, claim, the agent's restore, the cleaner |
| `Retention` | extends `RestoreTests` with retention jobs, the validation and the clean-up |
| `HealthScore` | the score, its label, deductions and alerts as operators on counts |
| `Posture` | extends `HealthScore` with the tables the counts come from and the readers |
| `Activity` | the buckets of the activity chart |
| `Accounts` | users, sessions, and the administrators' requests statement by statement |
| `Enrollment` | one-time tokens, agent tokens, the start of an agent, the purge |
| `PolicySchedule` | policies, cron entries, reloads, firings, windows |
| `Migrations` | instances that migrate and serve |
| `Updater` | `Apply` over three files |
| `RateLimit` | the token bucket of one address beside one that never forgets |
| `Services` | the last six beside each other |
| `MCDispatchGuard`, `MCJobDelivery`, `MCRetention`, `MCPosture`, `MCServices` | instances for TLC |
| `DispatchGuardProofs`, `DispatchLimitProofs`, `DispatchOrderProofs`, `DispatchPoolProofs` | type correctness; the limits; ended jobs, closed systems, waiting; the refinement of `SlotPool` |
| `JobDeliveryProofs` | the safety properties of `JobDelivery`; the refinement of `BackupOnce`, and of `SlotPool` |
| `RecoveryProofs` | those of `RestoreTests` and `Retention` |
| `PostureProofs` | those of `Posture` and `Activity` |
| `ServiceProofs` | those of the six components of `Services` |

Four compositions: `Retention` runs against the tests and snapshots of
`RestoreTests`, on the same variables; `Posture` reads with the operators of
`HealthScore`; the start of a job, seven statements in `DispatchGuard`, is one step
in `JobDelivery`, which `ImplementsPool` justifies, and both modules write the table
of jobs as `SlotPool` does (`ImplementsPool`, `WritesLikePool`); `Services` puts six
components beside each other that share no state in the code either.

A "Variant:" in a module is a definition with a plausible mistake; `PROJECT.json`
names it as the mutant of a property, under which TLC finds the property violated.

### DispatchGuard

State: `status` (the column; `none` before the INSERT, `deleted` after a DELETE),
`policyRepo`, `opState`, `seen` (systems whose heartbeat is recent enough to
dispatch on), and for every start request `pc` (its next statement), `target` and
`readRepo` (what its first SELECT returned). `rowOwner` and `advOwner` are the
locks. The reaper is a process of its own: `reapPc`, and `reapTodo`, the rows its
UPDATE has found and not yet locked.

`BeginStart`, `LockJob`, `ReadSystem`, `TakeAdvisory`, `CountGlobal`, `CountRepo`,
`CountAgent`, `Admit` are the statements of `AdmitStart` in order; each can end the
transaction (`EndTx`) as the code does, and `Rollback` can end it anywhere, for a
timeout, a lost connection or the death of an instance. `BeginStart` and `LockJob`
are two actions because the SELECT takes its snapshot before it waits for the row:
the repository it returns is that of the snapshot, the status is looked at again
after the wait. The UPDATEs of the reaper are one action per row for the same
reason. Single-row statements elsewhere commit at once and are one action that
waits for the row. `CreateJob` and `UpdateJob` are the operator's POST and PUT of
`/v1/jobs`, which write any status; `EndRetentionJob` is the completion or failure a
retention client reports, which writes its outcome over the job with that identifier,
whatever its type and status (`agent_retention.go:188`, `:247`). `EditableJob` and
`RetentionJob` say which jobs these touch, `GuardedJob` are the others, and
`MovablePolicy` says which policies are moved.

Left out: progress columns and times (any unfinished job may be past the reaper's
deadline), the three kinds of closed operation state (one gate), the block reasons,
deletion of systems and policies, commits whose acknowledgement is lost (to the
table they are commits; to the agent, a lost answer, which `JobDelivery` has).

`SlotPool` is what a reader expects of the guard. `ImplementsPool` maps it to the
guarded jobs, with `repoOf` set to the repository of the job's policy, or to none if
that policy moves (`PinnedRepo`). The other jobs and moved policies are outside the pool
and count against the limits all the same: they can only keep others waiting. An
operator who sets a job to running takes a slot nobody gave it, which is why the limits
count the jobs that no operator edits; a retention report never writes running.

### JobDelivery

State: the rows (`status`, `cancelReq`, `snaps`), the poll loop (`phase`, `batch`,
`cur`, `killed` for the watcher's flag, `outcome`), the disk (`outbox`), the drain
goroutine's list (`todo`), and the network: `call` holds the request each of the
two goroutines waits for and how far it has come, `adrift` the requests whose
client has stopped waiting and whose handlers may still run. Three ghosts record
what the code does not: how far restic came (`engine`), which outcomes have been on
disk (`saved`), and which were answered with 401 (`refused`).

`Poll`, `NextJob`, `FetchFails`/`FetchOk`, `StartConfirmed`/`StartRefused`,
`WatcherStops`, `BackupEnds`, `Enqueue`/`EnqueueFails`, `Delivered`/`KeepForLater`
follow `executeJob` and `reportTerminal`; `DrainList`, `DrainSend` are
`drainOutbox`; `Serve` and `Register` are the handlers, the second being the part
of `completeAgentJob` after the transition has committed. `GiveUp` is a timeout, a
broken connection or a 5xx. `Crash` may happen in every state. `DeleteSnapshot` takes
a row of any job away. `CreateJob`, `UpdateJob`, `EndRetentionJob` and `CreateSnapshot`
are the four endpoints that write past the transitions, on the jobs of `EditableJob`;
they meet the same agent, outbox and handlers, and the properties are about the other
jobs (`GuardedJob`).

`BackupOnce` is what operators expect of all this: four variables, no goroutines, no
requests, no disk. `KeepsPromise` maps `restic` to the ghost `engine`, except that a
job whose start has been confirmed to the poll loop, which has not yet begun, is
`granted` (`Granted`). A crash or a timeout at that point is `Lose`: the job has been
admitted and will not be run. A handler that admits a job for a client that has gone
is an `Admit` without a grant; a snapshot that is deleted is a `Remove`. The jobs
outside `GuardedJob` are not part of the promise, and what is done to them is a stutter.

The start is one step, which `ImplementsPool` justifies; which limit defers it is
left open. Left out: the progress endpoint, the order of a batch and of the
outbox, an agent without an outbox directory (it behaves as one whose disk always
fails), and the restore tests on the same agent, which `RestoreTests` has.

### RestoreTests and Retention

State: the rows of `restore_tests` (`status`, `snapOf`) and of `snapshots` (`cat`),
what restic has in the repository (`repo`), the snapshots nobody has registered yet
(`unlisted`), what each endpoint has read and is about to write (`held`), the cleaner's
list (`stale`), and where the agent is. Ghosts record how often a test was handed out
(`claims`), whose own restore has left files of its snapshot in place (`proven`), what
an operator declared (`vouched`), and whether a success was thrown away or a row and its
snapshot have parted (`spoiled`).

A snapshot is made and registered in two actions: `BackupEnds` puts it in the
repository, `RegisterSnapshot` gives it its row when the report comes, which may be never
(the job was reaped or cancelled meanwhile, or the INSERT failed and was logged).
`CreateSnapshot` is the endpoint by which one is registered by hand.

An endpoint is two actions, the read (`LoadRestoreTest`, `Report`) and the UPDATE of
the whole row (`Store`), because that is what the code does. All of these writes
set the status to a constant, so `held` keeps the status only; `Refuse` is a
statement that fails. `ClaimNextPending` is `FOR UPDATE SKIP LOCKED`: the oldest
pending test, or the oldest nobody is writing; its answer may be lost. `Restore` takes
how restic ended (without an error, with one whose text `runner.go:173-187` forgives, or
with another) and, apart from that, whether it has left files of the snapshot in place,
all or some of them: an error that is forgiven is a success as soon as one file is found.
`ListStale`, `CleanStale`, `CleanFails` are the
cleaner. `DispatchRestoreTest` looks at the newest job of the policy, of whatever
type, as the scheduler does.

`Retention` adds `DispatchRetention`, the two lists of `handleRetentionValidate` as
two actions (`ListSnapshots`, `Validate`), restic's removal, possibly of a part
(`Forget`), and both reports with their unguarded writes. Of the verified candidates the
code keeps the one registered last; in which order snapshots were registered is left
open, so `Spares` may keep any of them. The repository has the
endpoints and no client that uses them (`agent.go:143` leaves the jobs alone), so
that a retention job is in practice failed by the reaper; the client is modelled
from what the endpoints expect, and may die anywhere.

### HealthScore, Posture and Activity

`HealthScore` has an operator for each section of `Calculate`; of a point in time it
keeps whether it is missing, within the limit asked for, or beyond. `Posture` has
the six tables the score is computed from with their foreign keys, and all writes
of the operators' and the agents' endpoints. Time passes by `MinutesPass`,
`DayPasses` and `MonthPasses`, which age what must age together. `ApiInput` is
`computeScore`, `CollectorInput` is what the Prometheus collector counts: the two
go through the tables in different ways. The overview of the repositories, which counts
rows of the same tables, is left out. A repository's posture is what an
operator declares; no code path writes `VERIFIED`, which is why a catalog with a
repository never reaches 86 points.

`Activity` compares the buckets of the handler's calendar arithmetic with intervals
of hours: `BucketOf` is what a row's time is rounded to, `LastBucket` the handler's
separate computation for the present.

### Accounts, Enrollment, PolicySchedule, Migrations, Updater, RateLimit

* `Accounts`: a request is at a statement (`calls`), after the role check; the count
  of administrators, the read of the target, the write and the revocation of the
  sessions are actions, and so are the statements of a login and of the
  start that makes the first administrator.
* `Enrollment`: `ConsumeRead` and `ConsumeMark` are the two statements of `Consume`,
  `Store` is the agent token's INSERT, `Receive` its arrival, `SaveToken` the file;
  `StopAgent` and `StatementFails` may come in between; a SELECT that fails refuses the
  agent with its one-time token unused. `Purge` deletes a system
  with the cascades the migrations declare, and is refused for one with jobs.
* `PolicySchedule`: a change is `Write`, then the list of the policies, then the new
  cron; two changes interleave. An entry fires with the settings it was made from
  (`begun` records what a firing decided), and `Within` is `inBackupWindow`.
* `Migrations`: each instance reads the version, plans, and runs each migration with
  its record in one transaction; another instance of another release does the same,
  a repeatable migration may run twice, and any of them may stop.
* `Updater`: the statements of `Apply`, each of which may fail or be the last.
* `RateLimit`: a request takes its bucket from the map under one lock and a token
  under another; `CleanUp` may come in between. `ideal` is the limiter that keeps
  every bucket. Tokens are integers: `One` of them is a whole one.

## 3. Runs

| Run | Question | Bounds |
|---|---|---|
| `dispatch` | Do races break a limit? Is the transaction atomic to the outside? May a closed system get past the gate? | two requests, two jobs of one agent, two policies on one repository or none, three settings of limits in each of which another one binds |
| `dispatch_open` | Can the locks and the reaper wait in a circle? Does an ended job stay ended, while others are written past the transitions? | two requests, a guarded job and one that an operator edits and a retention client reports on, one movable policy, one slot |
| `dispatch_fair` | Does every start request end? | two requests, two jobs, a retention client reporting on one, one slot |
| `delivery` | Is the outcome true, recorded once, kept until confirmed? Can anybody tell it from a job that is admitted and run once? Does every job end? | one job, guarded or not, both clients, two handlers adrift, a failing disk |
| `recovery` | Is a success earned, is a test handed out once, does a tested snapshot remain, does the catalog follow the repository? | two snapshots, two tests (one in a directory that others may share), two retention jobs, two operators' edits |
| `posture` | What do the numbers an operator is shown say of the tables? | one system and policy, two repositories, jobs and tests; any four changes from an empty catalog or one in use, any number of jobs and tests in one in use; the chart over nine days |
| `services` | Six parts, each alone: see below | see below |
| `dispatch_late_maintenance`, `dispatch_moved_policy`, `delivery_outage`, `delivery_false_failure`, `posture_stale_test` | violations, see section 5 | as above |

Why the bounds are enough.

A race over a slot needs two requests, a circle of locks two requests and the
reaper; two jobs let either of them be running, pending or ended when the other is
counted, and one agent with two policies makes every gate the one that decides. Neither
job of `dispatch` is written past the transitions: that the limits hold beside such jobs
is in the theorems only.

In `delivery`, two adrift handlers are a repeated report and one more; jobs meet only
in the poll loop's `cur` and the drain goroutine's one call. A behaviour of
`MCJobDelivery` has one job: a guarded one, with every failure there is, or one that is
written past the transitions, with fewer of them (no handler adrift, no cancellation, no
failing disk). `MaxSnaps` bounds the snapshots registered by hand. A guarded job beside
one that is not is in the theorems only.

In `recovery` two snapshots are a candidate and one that survives, or two
candidates; the second test is the one that a claim skips to and that shares a
directory; a second retention job is the one whose validation follows an earlier
removal. Its two sets of initial states (retention to come and no edits left, edits to
come and retention over) add up where they would multiply, so that an operator's
edit meets no retention job in this run; the theorems do not have that limit. It is the
largest run, with six million states.

In `posture` the score sees counts, and its sections ask of a count whether it is
zero or all: two rows tell these apart. Four changes make a catalog from nothing
(system, repository, policy, job), or break one in use in four ways; with unbounded
changes only jobs, snapshots, tests and time go on. `MCPosture` gives the chart
behaviours of its own, with days of two hours: two rows, every hour of a week as the
beginning, all three modes, and a number of hours out of range.

`services`: `MCServices` chooses a `focus` at the start, and only that part moves.

* accounts: two requests and two sessions of three users, two with one address; the
  race over the last administrator is two requests, the start that makes one is
  a third party.
* enrollment: an agent, two one-time tokens, three agent tokens, two systems, one of
  which has jobs and so cannot be purged; two requests are a repeated enrollment.
* schedule: one policy, two changes at a time, a day of four minutes with a window
  inside it, one through midnight and none, expressions that do not parse.
* migrations: an older release and two instances of the current one, databases that
  have none, one or two of the four migrations, two of which may run twice.
* updater: three releases, so that a backup is neither the old nor the new one.
* rate: two requests, a bucket of two whole tokens, a clean-up after four ticks.

`posture` and `services` switch the deadlock check off: in `posture` the changes of
an instance are bounded, and so is the chart's clock; in `services` an updater whose
last attempt has left no binary, or an agent that was refused, has no next step
in the code either. In the other runs it is on.

Symmetry: requests in `dispatch`, `dispatch_open` and their two violations, retention
jobs in `recovery`, jobs and tests in the `posture` runs. No module tells the members
apart, and no run with liveness uses it.

Every property of a passing run has a mutant in `PROJECT.json`.

Fairness. `dispatch_fair`: PostgreSQL answers each statement, and a lock asked for
again and again is granted (its queues are first come, first served), hence strong
fairness of a request's next statement and of the reaper's rows. `delivery`: restic
ends (weak fairness), the drain goroutine's ticker fires, and of the requests sent
again and again not all are lost (strong fairness of each of its steps, since a
crash or a timeout can disable any of them for a while); the reaper comes round
every ten minutes, and is relied on only for jobs nobody works on. Nothing is
assumed of operators, of the poll loop, or that the agent ever stops crashing. The
other runs state safety and action properties only. The code promises no liveness there: a
claimed test whose answer is lost ends by the cleaner, an agent that is refused waits for
a person, a failed reload for the next change.

## 4. Proofs

`DispatchGuardProofs!TypeCorrect`: `Spec => []TypeOK`, one step per action.

`DispatchLimitProofs`: for any finite set of jobs and any systems, policies,
repositories, requests and configured limits, `GlobalWithinLimit`,
`AgentWithinLimit` and `RepoWithinLimit` hold. None of them is inductive: that a
count was below its limit says nothing about the moment of the UPDATE. The
inductive invariant `IInv` adds

* `LockInv`: exactly the requests between `TakeAdvisory` and their end own the
  advisory lock; a request past its first SELECT owns its job's row and the job is
  still pending; a row of the reaper's has the status its UPDATE looks for; the
  repository a request has read is that of its policy, unless the policy moves;
* `RoomInv`: what a request has counted still holds: there is a global slot behind
  the first gate, a slot of its repository behind the second, one of its agent
  behind the third.

`RoomStays` is why this is inductive: the counted sets only grow by an admission,
and by `LockInv` no other request is past a gate when one is made. `AdmitCount`
then takes the slot that `RoomInv` has kept.

`DispatchOrderProofs` draws three more conclusions from `IInv`:

* `EndedJobsStayEnded`: of a guarded job only the reaper's COMMIT writes the status
  without a condition of its own, and it holds the rows it writes, which have the status
  it looked for; an operator's PUT and a retention report have no condition either, and
  do not name a guarded job;
* `ClosedSystemsBarRequests`, with the invariant that a barred request's system is
  still closed, which is what `ReadSystem` looks at;
* `NobodyWaitsInACircle`: waiting has an order. Who counts waits for nobody; who
  wants the advisory lock waits for one of these; the reaper waits for requests
  that have a row, and (`ReapInv`) not for itself; who wants a row waits for these
  or for the reaper.

`DispatchPoolProofs!GuardImplementsPool`: every step is a step of `SlotPool` or a
stutter, for the guarded jobs and beside any others, and for any policies that move (the
run has neither: its two jobs are both in the pool and meet in all three limits). The
step of `Admit` is `Take`, and `RoomInv` is exactly the guard of `Take`, since the jobs
and repositories outside the pool only add to what the guard has counted; the reaper's
COMMIT is `GiveUp` of the rows it has; an operator's writes and a retention client's are
stutters.

`JobDeliveryProofs`: for any set of jobs, any of them guarded, any number of handlers
adrift, and a disk that fails or not, `TypeOK`, `OneSnapshotPerSuccess`,
`RecordedIsTrue`, `OutcomeKept` and `ExecutedOnce` hold of the guarded jobs. (`delivery`
checks the stronger `KeepsPromise` in place of `ExecutedOnce`.) The inductive invariant has five parts:

* `Shape`: which goroutine waits for which kind of request in which phase;
* `Truth`: what an event says of its job (restic has finished it, an operator has
  cancelled it) is true wherever the event is, on disk, listed, in a request or
  adrift, and a job restic has touched is no longer pending. An event is never
  falsified (`Later`) and is only copied (`EventsFrom`), so this is inductive;
* `AnswerTrue`: a report answered with success, 409 or 404 is of a job that has
  ended, which is why the outbox may forget it;
* `Registered`: a handler that is about to register a snapshot is the only one for
  its job, and there is none yet;
* `Kept`: the outcomes on disk.

What the parts say of a job they say of a guarded one. That restic never runs twice
(`NeverExecutedTwice`) rests on `Truth`: the start that is confirmed is the one that took
the job out of `pending`, and no guarded job comes back to it; one that an operator sets
back to pending does, and runs again.

`DeliveryKeepsPromise`: every step is a step of `BackupOnce` or a stutter
(`NextPromise`). The invariant supplies the guards of the abstract actions: an
admitted job has not been run (`StartedOf`), a report that is recorded is true
(`EventTrue`, in `HandlePromise`), a snapshot is registered for a success that has
none (`MayRegister`). A right to run appears only in the answer to a start (`ServePromise`)
and ends in `StartConfirmed`, or with `GrantEnds` in a timeout or a crash; the
outbox, the drain goroutine and everything adrift are invisible. This is the strongest
statement about what others see of the module: `ExecutedOnce` and `RecordedIsTrue`
are consequences of it, while `OutcomeKept` speaks of the disk, which it hides.

`DeliveryWritesLikePool`: of the promise's steps, those that write `status` are steps of
`SlotPool` with limits that never bind, for any finite set of guarded jobs. `DispatchGuard` and
`JobDelivery` each model the table with the other's side abstracted; this and
`GuardImplementsPool` say that they agree on what the guarded transitions may do there.
The writers that pass these by are actions of both.

`RecoveryProofs`: for any number of snapshots, tests, edits and retention jobs,
`TypeOK`, `SuccessIsEarned`, `HandedOutOnce`, `CatalogMatchesRepository` and
`TestedSnapshotRemains` hold. A success in the table is a copy of what some endpoint
held, so that `Earned` speaks of the rows, of the copy an endpoint is about to write
and of the agent that has restored. `Numbers` says that only snapshots which
were made are known anywhere and that what the client has removed is gone from the
repository, `References` that a test's snapshot has a row. `WritesBack` says that no copy holds `pending`,
which is why a test is claimed once. `Kept` is what the validation has promised, at
each of its steps: while it reads its second list some tested snapshot is in the
first; once it has answered, a tested snapshot is not among those approved.
`ValidationSpares` shows that the code's choice does this, whichever of the verified
candidates it keeps; the steps of everybody else are `Quiet`, they take no success away
unless `spoiled`.

`PostureProofs`: for any numbers of systems, repositories, policies, jobs and tests.
The inductive invariant adds to the types that no repository is verified
(`Unverified`) and the foreign keys (`PointsToRows`); what is shown is then a
matter of counting. `LabelsAreEarned` follows from `GoodScore`: "Good" leaves 25 points to
lose, 15 of which are lost to the unverified repositories, so that no section
that takes away more than 10 may apply. `ReadersAgree`: the set of snapshots that the
tests name is the set of snapshots for which there is a test. `EventsAreFollowed` has a lemma
for what each kind of event does to the counts, and one for what that does to the
score; `CountsAfter` carries the lemmas on the counts over to the state after a
step. `ChartsAreHistograms`: buckets are
multiples of their size, weeks shifted to the Monday before the first Sunday
(`WeekFits`), so that an instant lies in one bucket only (`OneBucket`).

`ServiceProofs`: the eleven safety properties of the parts that share no state, each for
all values of its constants and from an invariant of its own. `PartsKeepTheirSpecs`: a
behaviour of `Services`, in which the parts run beside each other, is one of each
part, because a step of another part is a stutter; with it `ServicesTypes`, the type
invariant of the whole, follows from the six invariants.

* `UpdaterInv`: from the check of the checksum on, the new file is the release that
  was asked for.
* `RateInv`: a bucket that is dropped was full (`IdleIsFull`, which is where the
  assumption on `Ttl` is needed), and there is always a number for a new bucket
  (`FreeBucket`).
* `MigrationInv`: what an instance has still to run and what is applied are together
  all migrations of its release (`Planned`); the versions below a recorded one are
  applied, which survives another instance's record.
* `ScheduleInv`: the entries are those of the rows, or `behind`, or some change has
  written and not yet announced itself. `WithinIsArc` is the window's comparison
  against the arc of the clock.
* `EnrollmentInv`: `KeysIssued`, `OneClaim`, `TokensOfHosts`, `OneAsker`, and
  `HasAWay`, which says for every phase of an agent that no fault has met where its
  token is to come from.
* `AccountsInv`: an administrator that a request has counted is still there unless
  `blindfold`; logins carry the role of the row; a deletion has revoked before it
  writes.

The assumptions (`DomainAssumption`, `DistinctAssumption`, `DeliveryAssumption`,
`RestoreAssumption`, `RetentionAssumption`, `PostureAssumption`,
`ActivityAssumption` and those of the six services) say that the constants are
typed, the sets that are counted finite, the markers distinct from the things they
mark, and, of the limiter, that a bucket is full again before it is dropped. TLC
evaluates them in the runs.

Only model-checked: liveness (`RequestsEnd`, `Drained`, `EveryJobEnds`), which the
prover cannot do. Every invariant and every action property of a passing run, and both
refinements, are theorems. `WritesLikePool` and `ExecutedOnce` are theorems
that no run lists.

## 5. Findings

* `dispatch_late_maintenance`: E1.2 says that non-ACTIVE systems cannot start new
  jobs. A system that is closed after `AdmitStart` has read its row still gets the
  job. What does hold is `ClosedSystemBarsRequest`: a system that is closed from
  before the request on is never passed.
* `dispatch_moved_policy`: E1.4 says that running jobs per repository never exceed
  the limit. Moving a policy while its job runs breaks it.
* `delivery_outage`: a database error during token lookup becomes a 401, which the
  agent takes for permanent; the event is dropped and the backup later recorded as
  failed. What does hold is `OutcomeKept`.
* `delivery_false_failure`: the failure of an attempt that did not start the job
  stays in the outbox and is accepted later, while restic works on the job.
* `posture_stale_test`: the agent's report of a passed restore test leaves
  `finished_at` empty, and the score takes the most recent `finished_at` for the
  most recent test: it deducts points for a test older than 30 days right after one
  has passed.

## 6. Observations

Met while modelling, and not the subject of a run.

* No client in the repository executes retention jobs (`agent.go:143`); they stay
  pending until the reaper fails them.
* `dispatchRestoreTest` looks at the policy's newest job of any type, and creates no
  test when that is a retention job or a backup still running.
* `GET /v1/repositories/{id}/health` lists the snapshots of the nil job
  (`repository_health.go:35`) and so always shows none; the GDPR export does the
  same with the system's id.
* The purge is called complete by its comment (`gdpr.go:99`), while jobs and policies
  have no `ON DELETE CASCADE`: a system with jobs cannot be purged.
* `VerifyCron` and `VerifyFull` are not stored by `PolicyStore`, so no verification is
  ever scheduled.
* The endpoint counts backups and the collector all jobs, so that a failed retention
  job lowers the score of the one and not of the other; `ScoresAgree` says so by its
  condition.
* A retention client that reports on a job (`agent_retention.go:188`, `:247`) writes its
  outcome over any status of a job of any type, so that it can make a success of a backup
  that was failed or cancelled.
* `models.go:192` documents `VerifiedCount` as "snapshots with successful restore test",
  and `repository_health.go:186-187` counts the tests: two of one snapshot count twice.
* `updater.go:26-30` promises that the old binary is kept as a backup. When the rename to
  `.bak` fails, which is only logged, and the next one succeeds (`:88-97`), the old binary
  is overwritten and no backup of it exists. `BinarySurvives` says what does hold.
* `runner.go:173-176` explains the errors it forgives as ones about metadata. The text
  "Access is denied" (or its German form) with a summary is forgiven as well, with one
  restored file; `SuccessIsEarned` therefore speaks of files and not of all files.
* A snapshot whose registration fails, or whose job was reaped or cancelled before the
  report came, stays in the repository without a row (`agent_jobs.go:119`, `:143`); no
  later step of the program makes up for it.
* `Revoke`, `RevokeBySystemID`, `Disable`, `Updater`, `ReportScheduler`,
  `calcRecoveryScore` and the secrets' `resolution.go` have no callers outside tests.

## 7. Not modelled

* Jobs: progress percentages and the heartbeat of progress reports; the second and
  later jobs of one batch (hazard at `agent.go:141`) and a pending job that only the
  limits hold back (`jobs.go:335`), which need hours of real time, while
  time is abstracted to "old enough" here.
* A file of the outbox that cannot be read or decoded, which `List` skips for ever
  (`outbox.go:106-113`): `Drained` is about the others.
* Two retention clients of one system with overlapping lists, and a client that removes,
  or names in its report, what was not approved. Two rows of one snapshot.
* Other instances' sessions and cron entries, see section 1.
* The overview of the repositories and the single-repository view: they count rows.
* The lists of a score are read at one instant and none fails (`health_score.go:22`).
* Secrets: one upsert, one read, a library's encryption.
* Notifications and reports: mail formatting and SMTP, no state.
* The audit log: appended to, with errors ignored, and listed; nothing else depends
  on it.
* The metrics' text format, the parsing of restic's output, routing, decoding,
  rendering, the web UI, installers, deployment: formatting and input/output without
  a protocol.
* The modes of authentication without users (single password, open), `AGENT_TOKEN`
  given in the environment, CSRF (a comparison without state), cookies.

What would come next: a batch of several jobs with clocks in `JobDelivery`; a second
retention client in `Retention`; several instances in `Accounts`; restore tests and
backups on one agent as one composition (they share its poll loop but no state); failing
lists in `Posture`.
