SPECIFICATION Spec
CONSTANTS
  Task = {1, 2, 3}
  Runner = {1}
  NoRunner = None
  Slots <- OneSlot
  Able <- AllTasks
  PinnedTo <- NoPins
  Deps <- Chain
  Needs <- AfterCompletion
  Steps <- NoSteps
  Reassign = 0
  Budget = 1
  MaxRequeues = 0
  QueueWithoutRunners = FALSE
INVARIANTS NothingLeftWaiting
PROPERTIES AssignmentsFitSlots DeathEndsDependents
CHECK_DEADLOCK FALSE
