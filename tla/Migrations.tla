----------------------------- MODULE Migrations -----------------------------
(***************************************************************************)
(* The start of the control plane (cmd/control-plane/main.go:82-87):       *)
(* internal/migrate brings the schema to the last version embedded in the  *)
(* binary, each migration and the record of it in one transaction, and     *)
(* only then does the instance serve.  An instance may stop at any moment  *)
(* and start again; nothing keeps two of them, of one release or of two,   *)
(* from starting together.                                                 *)
(*                                                                         *)
(* PostgreSQL, as the code uses it: a statement that changes the schema    *)
(* waits for another transaction that runs the same migration; a DELETE    *)
(* removes the rows it sees when it starts; two rows of one version are    *)
(* refused.                                                                *)
(***************************************************************************)
EXTENDS Integers, FiniteSets

CONSTANTS
  Instance,   \* control planes
  Embedded,   \* Instance -> the last version its binary holds
  Repeatable, \* migrations that may run twice (ADD COLUMN IF NOT EXISTS)
  Recorded    \* versions a database may already have

ASSUME MigrationAssumption == Embedded \in [Instance -> Nat] /\ Recorded \subseteq Nat

VARIABLES
  applied, \* the migrations the schema has in it
  rows,    \* versions in schema_migrations
  dirty,   \* the flag of its newest row
  proc     \* Instance -> [phase, todo, seen]

migrationVars == <<applied, rows, dirty, proc>>

Phase == {"down", "loaded", "ran", "recorded", "serving"}
Down  == [phase |-> "down", todo |-> {}, seen |-> {}]

Highest(S)   == IF S = {} THEN 0 ELSE CHOOSE v \in S : \A w \in S : w <= v
Newer(i, v)  == {m \in 1 .. Embedded[i] : m > v}

\* A database of an earlier release; dirty when another tool's migration broke off.
MigrationsInit ==
  /\ \E v \in Recorded :
       /\ rows = (IF v = 0 THEN {} ELSE {v}) /\ dirty \in {FALSE, v # 0}
       /\ applied = IF dirty THEN 1 .. v - 1 ELSE 1 .. v
  /\ proc = [i \in Instance |-> Down]

Become(i, phase) == proc' = [proc EXCEPT ![i].phase = phase]

\* currentVersion and loadMigrations: one reading, of which all the rest is planned.
CurrentVersion(i) ==
  /\ proc[i].phase = "down" /\ ~dirty
  /\ proc' = [proc EXCEPT ![i] = [Down EXCEPT !.phase = "loaded", !.todo = Newer(i, Highest(rows))]]
  /\ UNCHANGED <<applied, rows, dirty>>

\* Variant: the files in an order of their names, in which 10 precedes 2.
NextByName(i) == Highest(proc[i].todo)
NextMigration(i) == CHOOSE m \in proc[i].todo : \A n \in proc[i].todo : m <= n

\* applyOne: the migration's own statements.
RunMigration(i) ==
  /\ proc[i].phase = "loaded" /\ proc[i].todo # {}
  /\ LET m == NextMigration(i) IN
     /\ \A k \in Instance \ {i} :
          proc[k].phase \in {"ran", "recorded"} => NextMigration(k) # m
     /\ m \in applied => m \in Repeatable
  /\ Become(i, "ran")
  /\ UNCHANGED <<applied, rows, dirty>>

\* DELETE, which sees what is committed now.
Record(i) ==
  /\ proc[i].phase = "ran"
  /\ proc' = [proc EXCEPT ![i].phase = "recorded", ![i].seen = rows]
  /\ UNCHANGED <<applied, rows, dirty>>

\* INSERT and COMMIT.
Commit(i) ==
  LET m == NextMigration(i) IN
  /\ proc[i].phase = "recorded" /\ m \notin rows \ proc[i].seen
  /\ applied' = applied \union {m}
  /\ rows' = (rows \ proc[i].seen) \union {m}
  /\ proc' = [proc EXCEPT ![i] = [phase |-> "loaded", todo |-> @.todo \ {m}, seen |-> {}]]
  /\ UNCHANGED dirty

\* A statement fails and Run returns its error, or the process dies: rolled back.
Rollback(i) ==
  /\ proc[i].phase # "down"
  /\ proc' = [proc EXCEPT ![i] = Down]
  /\ UNCHANGED <<applied, rows, dirty>>

\* Variant: a migration that fails is skipped.
ServeAnyway(i) ==
  /\ proc[i].phase = "loaded"
  /\ Become(i, "serving")
  /\ UNCHANGED <<applied, rows, dirty>>
Serve(i) ==
  /\ proc[i].phase = "loaded" /\ proc[i].todo = {}
  /\ Become(i, "serving")
  /\ UNCHANGED <<applied, rows, dirty>>

MigrationsNext ==
  \E i \in Instance : \/ CurrentVersion(i) \/ RunMigration(i) \/ Record(i) \/ Commit(i)
                      \/ Rollback(i) \/ Serve(i)

MigrationsSpec == MigrationsInit /\ [][MigrationsNext]_migrationVars

MigrationsTypeOK ==
  /\ applied \subseteq Nat /\ rows \subseteq Nat /\ dirty \in BOOLEAN
  /\ proc \in [Instance -> [phase : Phase, todo : SUBSET Nat, seen : SUBSET Nat]]

\* "the control plane must never serve traffic against a half-applied schema"
\* (main.go:82-83): whatever instances start, race and die, one that serves has every
\* migration of its binary below it (migrate.go:55-78).
ServesLatestSchema ==
  \A i \in Instance : proc[i].phase = "serving" => 1 .. Embedded[i] \subseteq applied

\* "no dirty limbo" (migrate.go:8-9): a recorded version stands for all migrations up to
\* it, also when two instances record over each other; the next start leaves none out.
RecordedVersionIsApplied == ~dirty => \A v \in rows : 1 .. v \subseteq applied
=============================================================================
