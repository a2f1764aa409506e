SPECIFICATION FairSpec
CONSTANTS
  Task = {t}
  Retries = 1
  FixChecks = 1
  Review = TRUE
  Ephemeral = TRUE
  MaxTasks = 2
  MaxRuns = 2
  MaxBreaks = 1
INVARIANTS TypeOK OneEndingEach UnlistedIsStopping HeldIsAlive
PROPERTIES SlotsComeBack
CHECK_DEADLOCK FALSE
