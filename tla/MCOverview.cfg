CONSTANTS
  Preview = 1
  Unset = Unset
  Error = Error
  Repository = {"web", "api"}
  Status = {"running", "merged", "failed"}
  FirstTasks <- TwoTasks
  FirstDocuments <- OneDocument
  Window = 0
  MaxTasks = 3
  MaxDocuments = 2
  MaxClock = 1
  MaxChanges = 1
  MaxMoves = 3
SPECIFICATION Spec
INVARIANTS NothingHidden 
PROPERTIES FoldsStay AgesAdvance
CHECK_DEADLOCK FALSE
