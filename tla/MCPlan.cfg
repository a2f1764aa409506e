SPECIFICATION Spec
CONSTANTS
  Task = {1, 2, 3}
  Runner = {1}
  NoRunner = None
  Slots <- OneSlot
  Able <- AllTasks
  PinnedTo <- NoPins
  Deps <- PlanDeps
  Needs <- AfterApproval
  Steps <- PlanSteps
  Reassign = 1
  Budget = 9
  MaxRequeues = 1
  QueueWithoutRunners = TRUE
INVARIANTS TypeOK DependenciesFirst
PROPERTIES ImplementsLifecycle
CHECK_DEADLOCK FALSE
