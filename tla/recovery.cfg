\* Two snapshots, two restore tests and two retention jobs of one system.
SPECIFICATION MCSpec
SYMMETRY JobSymmetry
CONSTANTS
  MaxSnaps = 2
  MaxTests = 2
  MaxEdits = 2
  TargetOf <- MCTargetOf
  RetentionJob = {r1, r2}
  NoRetention = NoRetention
INVARIANTS
  TypeOK
  SuccessIsEarned
  HandedOutOnce
  TestedSnapshotRemains
  CatalogMatchesRepository
