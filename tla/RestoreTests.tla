---------------------------- MODULE RestoreTests ----------------------------
(***************************************************************************)
(* The restore tests of one system: the rows of restore_tests and          *)
(* snapshots (internal/catalog), the operator's and the agent's endpoints  *)
(* (internal/api), the agent's loop that claims a test, restores and       *)
(* reports, and the scheduler that creates tests and fails the stale ones. *)
(*                                                                         *)
(* An endpoint reads a row, changes its copy and writes all of it back in  *)
(* a second statement: two actions.  Every such write sets the status to a *)
(* constant, so that of the copy only that status is kept here.  The       *)
(* stale-test cleaner reads all rows and writes some, one statement each.  *)
(*                                                                         *)
(* Snapshots are numbered in the order in which restic makes them, tests   *)
(* in the order of their created_at; a snapshot has one row or none.  Time *)
(* is abstracted away: any running test may have been without an update    *)
(* for the 30 minutes after which the cleaner fails it.                    *)
(***************************************************************************)
EXTENDS Integers, FiniteSets

CONSTANTS
  MaxSnaps,   \* bound: snapshots that are ever made
  MaxTests,   \* bound: restore tests that are ever created
  MaxEdits,   \* bound: changes an operator asks for
  TargetOf    \* Test -> the target_path it is created with

Snap == 1 .. MaxSnaps
Test == 1 .. MaxTests

\* No target, a directory, the root of a filesystem.
Target == {"", "directory", "/"}

ASSUME RestoreAssumption ==
  /\ MaxSnaps \in Nat /\ MaxTests \in Nat /\ MaxEdits \in Nat
  /\ TargetOf \in [Test -> Target]

VARIABLES
  status,   \* restore_tests.status; "none" before the INSERT, "deleted" after a DELETE
  snapOf,   \* restore_tests.snapshot_id
  held,     \* endpoint -> the row it has read and the status it is about to write
  stale,    \* the tests the cleaner has found stale and not yet written
  agent,    \* where the agent is, with which test
  cat,      \* rows of snapshots
  repo,     \* snapshots restic has in the repository
  made,     \* snapshots made so far
  unlisted, \* snapshots made that have not been registered
  latest,   \* the snapshot of the policy's newest job, 0 when that job has none
  edits,    \* changes operators have asked for
  claims,   \* (ghost) Test -> how often it was handed out
  proven,   \* (ghost) tests whose own restore has left files of the snapshot in place
  vouched,  \* (ghost) tests an operator has declared successful
  spoiled   \* (ghost) a success was overwritten or deleted, or a row and its snapshot
            \* have parted: deleted by hand, registered too late, left by a removal

testVars  == <<status, snapOf>>
snapVars  == <<cat, repo, made, unlisted, latest>>
ghostVars == <<claims, proven, vouched>>
restoreVars == <<testVars, held, stale, agent, snapVars, edits, ghostVars, spoiled>>

Status   == {"none", "pending", "running", "success", "failed", "deleted"}
Endpoint == {"operator", "agent"}
Nothing  == [test |-> 0, to |-> "none"]
Idle     == [phase |-> "idle", test |-> 0]
Exists(t) == status[t] \notin {"none", "deleted"}

RestoreInit ==
  /\ status = [t \in Test |-> "none"] /\ snapOf = [t \in Test |-> 0]
  /\ held = [e \in Endpoint |-> Nothing] /\ stale = {} /\ agent = Idle
  /\ cat = {} /\ repo = {} /\ made = 0 /\ unlisted = {} /\ latest = 0 /\ edits = 0
  /\ claims = [t \in Test |-> 0] /\ proven = {} /\ vouched = {} /\ spoiled = FALSE

(***************************************************************************)
(* Jobs and snapshots.                                                     *)
(***************************************************************************)

\* A job of the policy is created; of whatever type, it is now the newest one.
NewJob ==
  /\ latest' = 0
  /\ UNCHANGED <<testVars, held, stale, agent, cat, repo, made, unlisted, edits, ghostVars,
                 spoiled>>

\* restic ends; its snapshot is in the repository and the report is still to come.
BackupEnds ==
  /\ made < MaxSnaps
  /\ made' = made + 1
  /\ repo' = repo \union {made'} /\ unlisted' = unlisted \union {made'}
  /\ UNCHANGED <<testVars, held, stale, agent, cat, latest, edits, ghostVars, spoiled>>

\* A snapshot gets its row; its job is the newest or it is not.  A retention run may
\* have removed the snapshot before.
Register(s) ==
  /\ cat' = cat \union {s} /\ unlisted' = unlisted \ {s}
  /\ latest' \in {latest, s}
  /\ spoiled' = (spoiled \/ s \notin repo)
  /\ UNCHANGED <<testVars, held, stale, agent, repo, made, ghostVars>>

\* The report of a job that still runs.  That of a job which was reaped or cancelled
\* registers nothing, and a failing INSERT is logged: then this step never comes.
RegisterSnapshot(s) == s \in unlisted /\ Register(s) /\ UNCHANGED edits

\* POST /v1/snapshots, for a snapshot that has no row.
CreateSnapshot(s) ==
  /\ edits < MaxEdits /\ edits' = edits + 1
  /\ s \in (1 .. made) \ cat
  /\ Register(s)

\* Deleting snapshots of the catalog takes their restore tests with them.
Cascade(gone) ==
  /\ cat' = cat \ gone
  /\ status' = [t \in Test |-> IF Exists(t) /\ snapOf[t] \in gone THEN "deleted" ELSE status[t]]

DeleteSnapshot(s) ==
  /\ edits < MaxEdits /\ edits' = edits + 1
  /\ s \in cat
  /\ Cascade({s})
  /\ spoiled' = TRUE
  /\ UNCHANGED <<snapOf, held, stale, agent, repo, made, unlisted, latest, ghostVars>>

(***************************************************************************)
(* Rows of restore_tests.                                                  *)
(***************************************************************************)

\* INSERT; the foreign key wants the snapshot to exist.
Create(s) ==
  LET t == 1 + Cardinality({u \in Test : status[u] # "none"}) IN
  /\ t \in Test /\ s \in cat
  /\ status' = [status EXCEPT ![t] = "pending"]
  /\ snapOf' = [snapOf EXCEPT ![t] = s]
  /\ UNCHANGED <<held, stale, agent, snapVars, edits, ghostVars, spoiled>>

CreateRestoreTest(s) == Create(s)

\* The scheduler looks for a snapshot of the newest job only.
DispatchRestoreTest == latest # 0 /\ Create(latest)

\* UPDATE of the whole row; nothing when it is gone.
Update(t, to) ==
  /\ status' = [status EXCEPT ![t] = IF Exists(t) THEN to ELSE @]
  /\ spoiled' = (spoiled \/ (status[t] = "success" /\ to # "success"))

DeleteTest(t) ==
  /\ edits < MaxEdits /\ edits' = edits + 1
  /\ Exists(t)
  /\ status' = [status EXCEPT ![t] = "deleted"]
  /\ spoiled' = (spoiled \/ status[t] = "success")
  /\ UNCHANGED <<snapOf, held, stale, agent, snapVars, ghostVars>>

(***************************************************************************)
(* The endpoints.  "start", "complete" and "fail" of an operator, and the  *)
(* agent's reports, do not look at the status the row has.                 *)
(***************************************************************************)

LoadRestoreTest(t, to) ==
  /\ edits < MaxEdits
  /\ held["operator"] = Nothing /\ Exists(t)
  /\ held' = [held EXCEPT !["operator"] = [test |-> t, to |-> to]]
  /\ edits' = edits + 1
  /\ UNCHANGED <<testVars, stale, agent, snapVars, ghostVars, spoiled>>

Store(e) ==
  /\ held[e] # Nothing
  /\ Update(held[e].test, held[e].to)
  /\ vouched' = IF e = "operator" /\ held[e].to = "success"
                THEN vouched \union {held[e].test} ELSE vouched
  /\ held' = [held EXCEPT ![e] = Nothing]
  /\ UNCHANGED <<snapOf, stale, agent, snapVars, edits, claims, proven>>

\* The database fails, or the body does not decode.
Refuse(e) ==
  /\ held[e] # Nothing
  /\ held' = [held EXCEPT ![e] = Nothing]
  /\ UNCHANGED <<testVars, stale, agent, snapVars, edits, ghostVars, spoiled>>

\* Variant: a running test is handed out again, in case its first agent is gone.
ClaimableAgain(t) == status[t] \in {"pending", "running"}

\* The oldest pending test, or the oldest one nobody has locked for an UPDATE.
Claimable(t) ==
  /\ status[t] = "pending"
  /\ \A u \in Test : u < t /\ status[u] = "pending" =>
                       u \in stale \/ \E e \in Endpoint : held[e].test = u

\* The answer reaches the agent, or it is lost and the test runs nowhere.
ClaimNextPending(t) ==
  /\ agent = Idle /\ Claimable(t)
  /\ status' = [status EXCEPT ![t] = "running"]
  /\ claims' = [claims EXCEPT ![t] = @ + 1]
  /\ agent' \in {Idle, [phase |-> "claimed", test |-> t]}
  /\ UNCHANGED <<snapOf, held, stale, snapVars, edits, proven, vouched, spoiled>>

(***************************************************************************)
(* The agent.                                                              *)
(***************************************************************************)

\* Without a target the agent restores below its own root, and a target that was
\* given is held to no root at all.
ValidTarget(t) == TargetOf[t] # "/"

AgentMoves(to) ==
  /\ agent' = [agent EXCEPT !.phase = to]
  /\ UNCHANGED <<testVars, held, stale, snapVars, edits, claims, vouched, spoiled>>

\* The snapshot's row and the repository are fetched from the control plane.
LoadSnapshot ==
  \E found \in BOOLEAN :
    /\ agent.phase = "claimed"
    /\ found => snapOf[agent.test] \in cat
    /\ AgentMoves(IF found THEN "loaded" ELSE "broken")
    /\ UNCHANGED proven

\* How restic leaves the target.  It ends without an error, with an error whose text is
\* forgiven (of timestamps, or that access was denied) or with another one; it has left
\* files of the snapshot there, all of them or some, or none.
RunOutcome ==
  {o \in [ended : {"clean", "forgiven", "failed"}, left : BOOLEAN] : o.ended = "clean" => o.left}

\* The files are counted in the target, where another test that was given the same
\* directory may have left its own.
Found(t, o) ==
  \/ o.left
  \/ \E u \in proven \ {t} : TargetOf[u] = "directory" /\ TargetOf[t] = "directory"

\* Variant: the text alone is enough.
SucceedsByText(t, o) == o.ended \in {"clean", "forgiven"}

\* What Restore makes of it: the text is forgiven when a file is found.
Succeeds(t, o) == o.ended = "clean" \/ (o.ended = "forgiven" /\ Found(t, o))

Restore(o) ==
  /\ agent.phase = "loaded"
  /\ o.ended # "failed" \/ o.left => snapOf[agent.test] \in repo
  /\ AgentMoves(IF ValidTarget(agent.test) /\ Succeeds(agent.test, o)
                THEN "restored" ELSE "broken")
  /\ proven' = IF ValidTarget(agent.test) /\ o.left THEN proven \union {agent.test} ELSE proven

\* The report comes to its endpoint, which finds the row or answers 404.  The agent
\* reads nothing in the answer and does not try again.
Report ==
  /\ agent.phase \in {"restored", "broken"}
  /\ held["agent"] = Nothing
  /\ held' = IF Exists(agent.test)
             THEN [held EXCEPT !["agent"] = [test |-> agent.test,
                     to |-> IF agent.phase = "restored" THEN "success" ELSE "failed"]]
             ELSE held
  /\ agent' = Idle
  /\ UNCHANGED <<testVars, stale, snapVars, edits, ghostVars, spoiled>>

\* The agent dies, or its report gets lost.
AgentStops ==
  /\ agent # Idle
  /\ agent' = Idle
  /\ UNCHANGED <<testVars, held, stale, snapVars, edits, ghostVars, spoiled>>

(***************************************************************************)
(* The stale-test cleaner.                                                 *)
(***************************************************************************)

\* Tests that run when the rows are read and have had no update for long enough.
IsStale(t) == status[t] = "running"

ListStale(old) ==
  /\ stale = {} /\ old # {}
  /\ \A t \in old : IsStale(t)
  /\ stale' = old
  /\ UNCHANGED <<testVars, held, agent, snapVars, edits, ghostVars, spoiled>>

CleanStale(t) ==
  /\ t \in stale
  /\ Update(t, "failed")
  /\ stale' = stale \ {t}
  /\ UNCHANGED <<snapOf, held, agent, snapVars, edits, ghostVars>>

\* The statement fails; the test is left to the next tick.
CleanFails(t) ==
  /\ t \in stale
  /\ stale' = stale \ {t}
  /\ UNCHANGED <<testVars, held, agent, snapVars, edits, ghostVars, spoiled>>

AgentNext ==
  \/ \E t \in Test : ClaimNextPending(t)
  \/ LoadSnapshot
  \/ \E o \in RunOutcome : Restore(o)
  \/ Report
  \/ AgentStops

OperatorNext ==
  \/ \E s \in Snap : CreateRestoreTest(s) \/ CreateSnapshot(s) \/ DeleteSnapshot(s)
  \/ \E t \in Test : DeleteTest(t)
  \/ \E t \in Test, to \in {"running", "success", "failed"} : LoadRestoreTest(t, to)

RestoreNext ==
  \/ NewJob
  \/ BackupEnds
  \/ \E s \in Snap : RegisterSnapshot(s)
  \/ DispatchRestoreTest
  \/ AgentNext
  \/ OperatorNext
  \/ \E e \in Endpoint : Store(e) \/ Refuse(e)
  \/ \E t \in Test : CleanStale(t) \/ CleanFails(t)
  \/ \E old \in SUBSET Test : ListStale(old)

(***************************************************************************)
(* Properties.                                                             *)
(***************************************************************************)

RestoreTypeOK ==
  /\ status \in [Test -> Status] /\ snapOf \in [Test -> Snap \union {0}]
  /\ held \in [Endpoint -> [test : Test \union {0}, to : Status]]
  /\ stale \subseteq Test
  /\ agent \in [phase : {"idle", "claimed", "loaded", "restored", "broken"}, test : Test \union {0}]
  /\ cat \subseteq Snap /\ repo \subseteq Snap /\ unlisted \subseteq Snap
  /\ made \in 0 .. MaxSnaps /\ latest \in Snap \union {0} /\ edits \in 0 .. MaxEdits
  /\ claims \in [Test -> Nat] /\ proven \subseteq Test /\ vouched \subseteq Test
  /\ spoiled \in BOOLEAN

\* A test is recorded as successful only if its own restore left files of the snapshot
\* in place or an operator said so, whatever copies the endpoints and the cleaner write
\* back over each other (agent_restore_tests.go:58, scheduler.go:406).  That all files
\* are in place is not promised: one is enough for an error that is forgiven
\* (runner.go:173-187).  A directory that several tests may share is excepted, because
\* the files of one are counted for the next (runner.go:176).
SuccessIsEarned ==
  \A t \in Test : status[t] = "success" /\ TargetOf[t] # "directory" => t \in proven \union vouched

\* A test is handed to an agent once: no write of a stale copy queues it again, so
\* that a lost answer ends in a failure and never in a second restore
\* (restore_tests.go:134).
HandedOutOnce == \A t \in Test : claims[t] <= 1
=============================================================================
