SPECIFICATION Spec
CONSTANTS
  Task = {1, 2, 3}
  Runner = {1}
  NoRunner = None
  Slots <- OneSlot
  Able <- AllTasks
  PinnedTo <- NoPins
  Deps <- Chain
  Needs <- AfterCompletion
  Steps <- NoSteps
  Reassign = 1
  Budget = 1
  MaxRequeues = 0
  QueueWithoutRunners = TRUE
INVARIANT DiskIsCurrent
CHECK_DEADLOCK FALSE
