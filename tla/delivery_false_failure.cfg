\* A failure from before the start is delivered during the backup.
SPECIFICATION Spec
CONSTANTS
  Job = {j1}
  EditableJob = {}
  NoJob = NoJob
  DiskFails = FALSE
  MaxAdrift = 1
  MaxSnaps = 1
PROPERTY NoFalseFailure
