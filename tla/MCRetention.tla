---------------------------- MODULE MCRetention ----------------------------
\* Retention and restore tests on a small instance.  The retention jobs of a
\* behaviour are all to come, and then its operators have no edits left, or they
\* are all over: the two spaces add up instead of multiplying.
EXTENDS Retention, TLC

\* The first test uses the agent's own directory, the second one it shares.
MCTargetOf == [t \in Test |-> IF t = 1 THEN "" ELSE "directory"]

\* The retention jobs differ in their names only.
JobSymmetry == Permutations(RetentionJob)

MCInit ==
  /\ status = [t \in Test |-> "none"] /\ snapOf = [t \in Test |-> 0]
  /\ held = [e \in Endpoint |-> Nothing] /\ stale = {} /\ agent = Idle
  /\ cat = {} /\ repo = {} /\ made = 0 /\ unlisted = {} /\ latest = 0
  /\ claims = [t \in Test |-> 0] /\ proven = {} /\ vouched = {} /\ spoiled = FALSE
  /\ client = Resting /\ owed = FALSE
  /\ \/ edits = MaxEdits /\ rjob = [r \in RetentionJob |-> "none"]
     \/ edits = 0 /\ rjob = [r \in RetentionJob |-> "success"]

MCSpec == MCInit /\ [][Next]_vars
=============================================================================
