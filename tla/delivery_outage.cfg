\* The database is away while a token is looked up.
SPECIFICATION Spec
CONSTANTS
  Job = {j1}
  EditableJob = {}
  NoJob = NoJob
  DiskFails = FALSE
  MaxAdrift = 1
  MaxSnaps = 1
INVARIANT OutcomeNeverLost
