--------------------------- MODULE PolicySchedule ---------------------------
(***************************************************************************)
(* The schedule: policies in the database, changed by the endpoints of     *)
(* internal/api/policies.go, and the entries of the cron in memory, which  *)
(* internal/scheduler/scheduler.go makes of them at the start and after    *)
(* every change.  An entry keeps the policy it was made from; when it      *)
(* fires it looks at the clock and creates jobs.                           *)
(*                                                                         *)
(* A change is a request that runs beside others: the write, the list of   *)
(* the policies and the new cron are steps.  The cron library and the      *)
(* database are taken at their word; the zone of a policy only moves its   *)
(* clock.                                                                  *)
(***************************************************************************)
EXTENDS Integers, FiniteSets

CONSTANTS
  Plan,       \* ids of policies
  Setting,    \* the settings an operator may give one: see Settings
  Edit,       \* bound: changes at a time
  Minutes,    \* minutes of a day, 24 * 60 in the code
  Missing     \* no row, no request

VARIABLES
  plans,      \* Plan -> its settings, or Missing
  cron,       \* the entries: [plan, kind, settings]
  edits,      \* Edit -> the request it serves
  clock,      \* the minute of the day
  firing,     \* backup entries that fired and have not looked at the clock
  begun,      \* history: what the last entry did in this minute, [settings, at, go]
  behind      \* history: an old list replaced a younger one, or a list failed

scheduleVars == <<plans, cron, edits, clock, firing, begun, behind>>

\* An expression is empty, right or wrong; a window has no minutes when one of its ends
\* is empty, and an end may be 24:00.
Expression == {"", "right", "wrong"}
Minute     == 0 .. Minutes - 1
Windows    == [start : Minute \union {Missing}, end : 0 .. Minutes \union {Missing}]
Settings   == [backup : Expression, test : Expression, retention : Expression, rules : BOOLEAN,
               window : Windows]

Table   == [Plan -> Setting \union {Missing}]
Kind    == {"backup", "test", "retention"}
Entry   == [plan : Plan, kind : Kind, settings : Setting]
\* What a request does to the row, then the list it has read.
ChangeRequest ==
  [plan : Plan, to : Setting \union {Missing}, step : {"write", "list"}]
             \union [list : Table]

ASSUME ScheduleAssumption ==
  /\ Minutes \in Nat \ {0} /\ Setting \subseteq Settings
  /\ Missing \notin Int /\ Missing \notin Settings \union ChangeRequest

ScheduleTypeOK ==
  /\ plans \in Table /\ cron \subseteq Entry
  /\ edits \in [Edit -> ChangeRequest \union {Missing}]
  /\ clock \in Minute /\ firing \subseteq Entry
  /\ begun \subseteq [settings : Setting, at : Minute, go : BOOLEAN]
  /\ behind \in BOOLEAN

\* The expression of the restore tests: every week when only backups have one.
TestCron(s) == IF s.test = "" /\ s.backup # "" THEN "right" ELSE s.test

\* Entries with a wrong expression are left out, each on its own.
Kinds(s) ==
  {k \in Kind : \/ k = "backup" /\ s.backup = "right"
                \/ k = "test" /\ TestCron(s) = "right"
                \/ k = "retention" /\ s.retention = "right" /\ s.rules}

EntriesOf(list) ==
  {e \in Entry : list[e.plan] = e.settings /\ e.kind \in Kinds(e.settings)}

ScheduleInit ==
  /\ plans \in Table /\ cron = EntriesOf(plans)
  /\ edits = [q \in Edit |-> Missing]
  /\ clock = 0 /\ firing = {} /\ begun = {} /\ behind = FALSE

(***************************************************************************)
(* Changes: POST, PUT and DELETE of /v1/policies.                          *)
(***************************************************************************)

Begin(q, p, to) ==
  /\ edits[q] = Missing /\ q = CHOOSE r \in Edit : edits[r] = Missing
  /\ (plans[p] = Missing => to # Missing)
  /\ edits' = [edits EXCEPT ![q] = [plan |-> p, to |-> to, step |-> "write"]]
  /\ UNCHANGED <<plans, cron, clock, firing, begun, behind>>

Holds(q, s) == edits[q] # Missing /\ "step" \in DOMAIN edits[q] /\ edits[q].step = s

\* Variant: the scheduler hears of it first.
AnnounceFirst(q) ==
  /\ Holds(q, "write")
  /\ cron' = EntriesOf(plans)
  /\ plans' = [plans EXCEPT ![edits[q].plan] = edits[q].to]
  /\ edits' = [edits EXCEPT ![q] = Missing]
  /\ UNCHANGED <<clock, firing, begun, behind>>
\* The row first; the scheduler hears of it when the statement succeeded.
Write(q) ==
  /\ Holds(q, "write")
  /\ plans' = [plans EXCEPT ![edits[q].plan] = edits[q].to]
  /\ edits' = [edits EXCEPT ![q].step = "list"]
  /\ UNCHANGED <<cron, clock, firing, begun, behind>>

\* 404, or an error of the database.
WriteRefused(q) ==
  /\ Holds(q, "write")
  /\ edits' = [edits EXCEPT ![q] = Missing]
  /\ UNCHANGED <<plans, cron, clock, firing, begun, behind>>

\* The list is read before the lock of the scheduler is taken.
List(q) ==
  /\ Holds(q, "list")
  /\ edits' = [edits EXCEPT ![q] = [list |-> plans]]
  /\ UNCHANGED <<plans, cron, clock, firing, begun, behind>>

\* It is read with the context of the request, which ends when the operator goes away.
ListFails(q) ==
  /\ Holds(q, "list")
  /\ edits' = [edits EXCEPT ![q] = Missing] /\ behind' = TRUE
  /\ UNCHANGED <<plans, cron, clock, firing, begun>>

\* A new cron takes the place of the old one, whose running entries go on.
Install(q) ==
  /\ edits[q] # Missing /\ "list" \in DOMAIN edits[q]
  /\ cron' = EntriesOf(edits[q].list)
  /\ behind' = (edits[q].list # plans)
  /\ edits' = [edits EXCEPT ![q] = Missing]
  /\ UNCHANGED <<plans, clock, firing, begun>>

(***************************************************************************)
(* Entries.                                                                *)
(***************************************************************************)

\* Variant: every window begins before it ends.
WithinHasty(s, now) ==
  \/ s.window.start = Missing \/ s.window.end = Missing
  \/ now >= s.window.start /\ now < s.window.end
\* inBackupWindow.
Within(s, now) ==
  LET w == s.window IN
  \/ w.start = Missing \/ w.end = Missing
  \/ IF w.start <= w.end THEN now >= w.start /\ now < w.end ELSE now >= w.start \/ now < w.end

Fire(e) ==
  /\ e \in cron /\ e.kind = "backup" /\ e \notin firing
  /\ firing' = firing \union {e}
  /\ UNCHANGED <<plans, cron, edits, clock, begun, behind>>

\* Outside the window nothing happens; inside it the jobs of dispatchBackup are created,
\* if the policy still has systems.
DispatchBackup(e) ==
  /\ e \in firing
  /\ firing' = firing \ {e}
  /\ begun' = {[settings |-> e.settings, at |-> clock, go |-> Within(e.settings, clock)]}
  /\ UNCHANGED <<plans, cron, edits, clock, behind>>

PassMinute ==
  /\ clock' = (clock + 1) % Minutes /\ begun' = {}
  /\ UNCHANGED <<plans, cron, edits, firing, behind>>

ScheduleNext ==
  \/ PassMinute
  \/ \E q \in Edit :
       \/ Write(q) \/ WriteRefused(q) \/ List(q) \/ ListFails(q) \/ Install(q)
       \/ \E p \in Plan, to \in Setting \union {Missing} : Begin(q, p, to)
  \/ \E e \in cron : Fire(e)
  \/ \E e \in firing : DispatchBackup(e)

ScheduleSpec == ScheduleInit /\ [][ScheduleNext]_scheduleVars

(***************************************************************************)
(* Properties.                                                             *)
(***************************************************************************)

\* "the scheduler can reload its cron entries without a restart" (api/handler.go:26-28):
\* when no change is under way the entries are those of the rows, unless the reload that
\* came last failed, or had read its list before another change (scheduler.go:92-102).
ScheduleIsCurrent ==
  (\A q \in Edit : edits[q] = Missing) => cron = EntriesOf(plans) \/ behind

\* An entry begins its backups exactly when it fires within the window of the settings
\* it was made from, however late it looks at the clock; the window is the arc of the clock
\* from its start up to its end, through midnight when the end comes first
\* (scheduler.go:175-197).
Arc(w) ==
  IF w.start = Missing \/ w.end = Missing THEN Minute
  ELSE LET length == IF w.end >= w.start THEN w.end - w.start ELSE w.end - w.start + Minutes
       IN {(w.start + k) % Minutes : k \in 0 .. length - 1}
RunsInItsWindow == \A d \in begun : d.go <=> d.at \in Arc(d.settings.window)
=============================================================================
