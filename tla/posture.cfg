\* One system, one policy, two jobs and two restore tests.
SPECIFICATION MCSpec
CHECK_DEADLOCK FALSE
CONSTANTS
  System = {s1}
  Repo = {a, b}
  Policy = {p1}
  Job = {j1, j2}
  Test = {t1, t2}
  SystemOf <- MCSystemOf
  PolicyOf <- MCPolicyOf
  NoRepo = NoRepo
  NoRow = NoRow
  MaxChanges = 4
  HoursPerDay = 2
  MaxHour = 18
  MaxRows = 2
  Queries <- MCQueries
SYMMETRY Symmetry
INVARIANTS
  TypeOK
  LabelIsEarned
  NoCreditForDeclarations
  ScoresAgree
  ChartIsHistogram
PROPERTIES
  ScoreFollowsEvents
