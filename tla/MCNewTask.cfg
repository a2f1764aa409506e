CONSTANTS
  Model = {opus, sol}
  Executor = {"claude", "codex"}
  ExecutorOf <- MCExecutorOf
  DefaultModel = opus
  Retired = Retired
  Effort = {"medium", "high"}
  Runner = {r1}
  Repository = {web}
  Branch = {"main", "dev"}
  Unset = Unset
  MaxTexts = 2
  MaxVisits = 2
  MaxChoices = 2
  MaxPresses = 2
  MaxChanges = 1
  MaxFaults = 1
SPECIFICATION Spec
INVARIANTS ChoicesSurvive NoTaskTwice
PROPERTIES SentAsShown
CHECK_DEADLOCK FALSE
