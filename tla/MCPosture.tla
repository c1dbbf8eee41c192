----------------------------- MODULE MCPosture -----------------------------
\* The catalog on a small instance: from an empty one and from one in use, a bounded
\* number of changes of every kind; from one in use, any number of jobs, snapshots and
\* restore tests.  The activity chart, which shares no variable with them, has
\* behaviours of its own.
EXTENDS Posture, Activity, TLC

CONSTANT MaxChanges  \* bound: changes, deletions included

VARIABLE left        \* changes that are left, Unbounded, or none in a behaviour of Chart

Unbounded == -1
Chart == -2

MCQueries == {<<"hours", 3>>, <<"hours", 49>>, <<"days", 3>>, <<"weeks", 2>>}

MCSystemOf == [j \in Job |-> CHOOSE s \in System : TRUE]
MCPolicyOf == [j \in Job |-> CHOOSE p \in Policy : TRUE]

InUse ==
  LET a == CHOOSE r \in Repo : TRUE IN
  /\ seen = [s \in System |-> "online"]
  /\ repos = [r \in Repo |-> IF r = a THEN DeclaredPosture(TRUE, FALSE) ELSE NoRow]
  /\ policies = [p \in Policy |-> [repo |-> a, rules |-> TRUE]]
  /\ jobs = [j \in Job |-> NoRow] /\ snaps = [j \in Job |-> NoRepo] /\ tests = [t \in Test |-> NoRow]

MCInit ==
  \/ (Init \/ InUse) /\ left = MaxChanges /\ hour = 0 /\ rows = {}
  \/ InUse /\ left = Unbounded /\ hour = 0 /\ rows = {}
  \/ Init /\ left = Chart /\ ActivityInit

MCNext ==
  \/ (CatalogNext \/ WorkNext) /\ left > 0 /\ left' = left - 1 /\ UNCHANGED activityVars
  \/ WorkNext /\ left = Unbounded /\ UNCHANGED <<left, activityVars>>
  \/ TimeNext /\ left # Chart /\ UNCHANGED <<left, activityVars>>
  \/ ActivityNext /\ left = Chart /\ UNCHANGED <<vars, left>>

Symmetry == Permutations(Job) \union Permutations(Test)

MCSpec == MCInit /\ [][MCNext]_<<vars, left, activityVars>>
=============================================================================
