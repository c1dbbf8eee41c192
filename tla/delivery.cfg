\* One job, guarded or not, with every failure of the network, the agent and its disk.
SPECIFICATION MCSpec
CONSTANTS
  Job = {j1, j2}
  EditableJob = {j2}
  NoJob = NoJob
  DiskFails = TRUE
  MaxAdrift = 2
  MaxSnaps = 0
INVARIANTS
  TypeOK
  OneSnapshotPerSuccess
  RecordedIsTrue
  OutcomeKept
PROPERTIES
  KeepsPromise
  Drained
  EveryJobEnds
