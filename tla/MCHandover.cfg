SPECIFICATION Spec
CONSTANTS
  Task = {1}
  Runner = {1, 2}
  NoRunner = None
  Slots <- OneSlot
  Able <- AllTasks
  PinnedTo <- NoPins
  Deps <- NoDeps
  Needs <- AfterApproval
  Steps <- NoSteps
  Reassign = 2
  Budget = 0
  MaxRequeues = 2
  QueueWithoutRunners = FALSE
INVARIANTS AssignedIsHeld AssignedWherePinned
CHECK_DEADLOCK FALSE
