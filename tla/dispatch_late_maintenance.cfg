\* An operator closes a system while a start request is past the state gates.
SPECIFICATION Spec
CONSTANTS
  j1 = j1
  j2 = j2
  s1 = s1
  p1 = p1
  p2 = p2
  a = a
  Job = {j1, j2}
  System = {s1}
  Policy = {p1, p2}
  Repo = {a}
  Request = {r1, r2}
  SystemOf <- MCOneSystem
  PolicyOf <- MCPolicyOf
  ConfiguredLimits <- MCLimits
  MovablePolicy = {}
  EditableJob = {}
  RetentionJob = {}
  NoRepo = NoRepo
  NoJob = NoJob
  Nobody = Nobody
  Reaper = Reaper
SYMMETRY RequestSymmetry
PROPERTY NoStartOnClosedSystem
