\* Each part on its own instance; the updater may stop for good when it has no files left.
SPECIFICATION MCSpec
CONSTANTS
  ann = ann  bob = bob  cyd = cyd  mail = mail  post = post
  User = {ann, bob, cyd}
  Email = {mail, post}
  EmailOf <- MCEmailOf
  AdminEmail = mail
  Role = {"admin", "viewer"}
  Token = {t1, t2}
  Call = {q1, q2}
  Nobody = Nobody
  Host = {h, i}
  Busy = {i}
  Agent = {g}
  OneTime = {o1, o2}
  Bearer = {b1, b2, b3}
  Ask = {k1, k2}
  Absent = Absent
  Plan = {p1}
  Setting <- MCSetting
  Edit = {e1, e2}
  Minutes = 4
  Missing = Missing
  Instance = {1, 2, 3}
  Embedded <- MCEmbedded
  Repeatable = {2, 3}
  Recorded = {0, 1, 2}
  Release = {v1, v2, v3}
  Broken = Broken
  Gone = Gone
  Client = {c1, c2}
  Rate = 1
  One = 2
  Burst = 4
  Ttl = 4
  MaxExcess = 2
CHECK_DEADLOCK FALSE
INVARIANTS
  TypeOK
  LastAdminStays
  StaleSessionsCrossed
  OneTokenEach
  HeldTokensAreKnown
  RefusedOnlyByFault
  ScheduleIsCurrent
  RunsInItsWindow
  ServesLatestSchema
  RecordedVersionIsApplied
  BinarySurvives
  ForgettingCostsNothing
