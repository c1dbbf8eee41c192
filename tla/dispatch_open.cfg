\* The same table with an operator who edits a job and moves a policy to another
\* repository while requests are in flight.
SPECIFICATION Spec
CONSTANTS
  j1 = j1
  j2 = j2
  s1 = s1
  p1 = p1
  p2 = p2
  a = a
  Job = {j1, j2}
  System = {s1}
  Policy = {p1}
  Repo = {a}
  Request = {r1, r2}
  SystemOf <- MCOneSystem
  PolicyOf <- MCOnePolicy
  ConfiguredLimits <- MCOneSlot
  MovablePolicy = {p1}
  EditableJob = {j2}
  RetentionJob = {j2}
  NoRepo = NoRepo
  NoJob = NoJob
  Nobody = Nobody
  Reaper = Reaper
SYMMETRY RequestSymmetry
INVARIANT NoLockCycle
PROPERTY EndedStaysEnded
