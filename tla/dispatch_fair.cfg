\* Two start requests over two jobs and one slot, every one of which must end.
SPECIFICATION FairSpec
CONSTANTS
  j1 = j1
  j2 = j2
  s1 = s1
  p1 = p1
  p2 = p2
  a = a
  Job = {j1, j2}
  System = {s1}
  Policy = {p1}
  Repo = {a}
  Request = {r1, r2}
  SystemOf <- MCOneSystem
  PolicyOf <- MCOnePolicy
  ConfiguredLimits <- MCOneSlot
  MovablePolicy = {}
  EditableJob = {}
  RetentionJob = {j2}
  NoRepo = NoRepo
  NoJob = NoJob
  Nobody = Nobody
  Reaper = Reaper
PROPERTIES
  RequestsEnd
